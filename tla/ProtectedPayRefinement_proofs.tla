-------------------- MODULE ProtectedPayRefinement_proofs --------------------
(* ProtectedPay implements ReversibleEscrow, for every set of users and      *)
(* payments and every policy: the initial state maps to the initial state,   *)
(* and every step to a step of the promise or to a stutter.                  *)
EXTENDS ProtectedPay_proofs

-----------------------------------------------------------------------------
(* How a change of a Payment account looks through EscrowOf *)

LEMMA EscrowOfShell ==
    ASSUME NEW s, NEW r
    PROVE  EscrowOf(Shell(s, r)) = Promise!Idle
BY DEF EscrowOf, Shell, Promise!Idle

LEMMA EscrowOfOpened ==
    ASSUME NEW pay \in Payment, NEW amount, NEW t, NEW policy, ~pay.redacted
    PROVE  EscrowOf(Opened(pay, amount, t, policy)) =
              [phase |-> "held", from |-> pay.sender, to |-> pay.recipient, amount |-> amount,
               settle_after |-> t + policy.safety_window,
               expires_at |-> t + policy.claim_window]
<1> DEFINE new == Opened(pay, amount, t, policy)
<1>1. /\ new.initialized /\ ~new.redacted /\ new.status = "Created"
      /\ new.sender = pay.sender /\ new.recipient = pay.recipient /\ new.amount = amount
      /\ new.settle_after = t + policy.safety_window
      /\ new.expires_at = t + policy.claim_window
  BY DEF Opened, Payment
<1> HIDE DEF new
<1>2. EscrowOf(new) =
         [phase |-> "held", from |-> pay.sender, to |-> pay.recipient, amount |-> amount,
          settle_after |-> t + policy.safety_window, expires_at |-> t + policy.claim_window]
  BY <1>1 DEF EscrowOf, PhaseOf, Terms
<1> QED
  BY <1>2 DEF new

\* A change that keeps the terms changes at most the phase.
LEMMA EscrowOfNewPhase ==
    ASSUME NEW old \in Payment, NEW new \in Payment,
           old.initialized, new.initialized, Terms(new) = Terms(old)
    PROVE  EscrowOf(new) = [EscrowOf(old) EXCEPT !.phase = PhaseOf(new)]
BY DEF EscrowOf

LEMMA EscrowOfTerms ==
    ASSUME NEW pay \in Payment, Open(pay)
    PROVE  /\ EscrowOf(pay).phase = PhaseOf(pay)
           /\ EscrowOf(pay).from = pay.sender /\ EscrowOf(pay).to = pay.recipient
           /\ EscrowOf(pay).amount = pay.amount
           /\ EscrowOf(pay).settle_after = pay.settle_after
           /\ EscrowOf(pay).expires_at = pay.expires_at
BY DEF EscrowOf, Terms, Open

LEMMA WriteEscrow ==
    ASSUME payment \in [Payments -> Payment], NEW p \in Payments, NEW pay, Write(p, pay)
    PROVE  Escrows' = [Escrows EXCEPT ![p] = EscrowOf(pay)]
BY DEF Write, Escrows

\* Only what users own, payment and now matter to the promise.
LEMMA Stutters ==
    ASSUME UNCHANGED <<wallet, deposit, now>>, Escrows' = Escrows
    PROVE  UNCHANGED Promise!vars
BY DEF Promise!vars, Funds

\* A change that keeps an account's terms and phase cannot be seen.
LEMMA SameEscrow ==
    ASSUME payment \in [Payments -> Payment], NEW p \in Payments, NEW pay, Write(p, pay),
           EscrowOf(pay) = EscrowOf(payment[p])
    PROVE  Escrows' = Escrows
BY WriteEscrow DEF Escrows

-----------------------------------------------------------------------------
(* Every step is a step of the promise, or a stutter *)

Step == Promise!Next \/ UNCHANGED Promise!vars

\* Deposits and withdrawals move u's own funds.
LEMMA CustodyStep ==
    ASSUME IInv, NEW u \in Users, Custody(u)
    PROVE  Step
<1>0. TypeOK /\ NothingInAbsent
  BY DEF IInv
<1>1. payment' = payment /\ now' = now
  BY DEF Custody, InitializeDeposit, DepositUsdc, WithdrawUsdc,
     DelegateDeposit, CommitAndUndelegateDeposit, DepositCommitLands
<1>2. \A v \in Users : v # u => deposit'[v] = deposit[v] /\ wallet'[v] = wallet[v]
  BY <1>0 DEF TypeOK, Custody, InitializeDeposit, DepositUsdc, WithdrawUsdc,
     DelegateDeposit, CommitAndUndelegateDeposit, DepositCommitLands
<1>3. wallet'[u] + deposit'[u].available = wallet[u] + deposit[u].available
  <2>0. wallet[u] \in Int /\ deposit[u].available \in Int /\ Amounts \subseteq Int
    BY <1>0, InputAssumption DEF TypeOK, Word
  <2>1. CASE InitializeDeposit(u)
    BY <1>0, <2>1 DEF TypeOK, InitializeDeposit, NoDeposit, NothingInAbsent
  <2>2. ASSUME NEW amount \in Amounts, DepositUsdc(u, amount)
        PROVE  wallet'[u] + deposit'[u].available = wallet[u] + deposit[u].available
    <3>1. /\ wallet'[u] = wallet[u] - amount
          /\ deposit'[u].available = deposit[u].available + amount
      BY <1>0, <2>2 DEF TypeOK, DepositUsdc
    <3> QED
      BY <2>0, <3>1
  <2>3. ASSUME NEW amount \in Amounts, WithdrawUsdc(u, amount)
        PROVE  wallet'[u] + deposit'[u].available = wallet[u] + deposit[u].available
    <3>1. /\ wallet'[u] = wallet[u] + amount
          /\ deposit'[u].available = deposit[u].available - amount
      BY <1>0, <2>3 DEF TypeOK, WithdrawUsdc
    <3> QED
      BY <2>0, <3>1
  <2>4. CASE DelegateDeposit(u) \/ CommitAndUndelegateDeposit(u) \/ DepositCommitLands(u)
    <3>1. wallet' = wallet /\ \E where : deposit' = [deposit EXCEPT ![u].layer = where]
      BY <2>4 DEF DelegateDeposit, CommitAndUndelegateDeposit, DepositCommitLands
    <3>2. deposit'[u].available = deposit[u].available
      BY <1>0, <3>1 DEF TypeOK
    <3> QED
      BY <3>1, <3>2
  <2> QED
    BY <2>1, <2>2, <2>3, <2>4 DEF Custody
<1>4. Funds' = Funds
  BY <1>2, <1>3 DEF Funds
<1>5. Escrows' = Escrows
  BY <1>1 DEF Escrows
<1> QED
  BY <1>1, <1>4, <1>5 DEF Step, Promise!vars

\* Moving an amount between a Deposit and an escrow.
LEMMA OwnedAfter ==
    ASSUME TypeOK, NEW u \in Users, NEW d \in Int, wallet' = wallet,
           deposit'[u].available = deposit[u].available + d,
           \A v \in Users : v # u => deposit'[v] = deposit[v]
    PROVE  Funds' = [Funds EXCEPT ![u] = @ + d]
<1>1. wallet[u] + (deposit[u].available + d) = (wallet[u] + deposit[u].available) + d
  BY DEF TypeOK, Word
<1> QED
  BY <1>1 DEF Funds

LEMMA OpenStep ==
    ASSUME IInv, NEW p \in Payments, NEW actor \in Users, NEW amount \in Amounts,
           OpenPayment(p, actor, amount)
    PROVE  Step
<1> DEFINE from == payment[p].sender
           to == payment[p].recipient
           settle == now + config.safety_window
           expiry == now + config.claim_window
<1>0. /\ TypeOK /\ payment \in [Payments -> Payment] /\ payment[p] \in Payment
      /\ now \in Time /\ config.safety_window \in Time /\ config.claim_window \in Time
      /\ Sound(payment[p], now) /\ Placed(payment[p], published[p], layer[p])
      /\ amount \in Nat
  BY InputAssumption DEF IInv, TypeOK, AllSound, AllPlaced
<1>1. from = actor /\ to \in Users /\ from # to
  BY <1>0 DEF OpenPayment, Together, Placed, OnBase
<1>2. payment[p] = Shell(payment[p].sender, payment[p].recipient)
  BY <1>0 DEF OpenPayment, Sound
<1>3. Escrows[p].phase = "idle"
  BY <1>2, EscrowOfShell DEF Escrows, Promise!Idle
<1>4. amount \in 1..Funds[from]
  <2>1. /\ deposit[from].available \in Nat /\ wallet[from] \in Nat
        /\ amount > 0 /\ amount <= deposit[from].available
    BY <1>0, <1>1 DEF OpenPayment, CanDebit, TypeOK, Word
  <2> QED
    BY <1>0, <1>1, <2>1 DEF Funds
<1>5. settle \in Time /\ expiry \in Time /\ now < settle /\ settle < expiry
  BY <1>0, WidthAssumption DEF OpenPayment, ValidPolicy, Time
<1>6. Funds' = [Funds EXCEPT ![from] = @ - amount]
  <2>1. /\ wallet' = wallet /\ deposit'[from].available = deposit[from].available - amount
        /\ \A v \in Users : v # from => deposit'[v] = deposit[v]
    BY <1>0, <1>1 DEF OpenPayment, TypeOK
  <2>2. wallet[from] \in Int /\ deposit[from].available \in Int
    BY <1>0, <1>1 DEF TypeOK, Word
  <2>3. wallet[from] + (deposit[from].available - amount)
           = (wallet[from] + deposit[from].available) - amount
    BY <1>0, <2>2
  <2> QED
    BY <1>1, <2>1, <2>3 DEF Funds
<1>7. Escrows' = [Escrows EXCEPT ![p] =
         [phase |-> "held", from |-> from, to |-> to, amount |-> amount,
          settle_after |-> settle, expires_at |-> expiry]]
  <2>1. EscrowOf(Opened(payment[p], amount, now, config)) =
         [phase |-> "held", from |-> from, to |-> to, amount |-> amount,
          settle_after |-> settle, expires_at |-> expiry]
    BY <1>0, EscrowOfOpened DEF OpenPayment
  <2> QED
    BY <1>0, <2>1, WriteEscrow DEF OpenPayment
<1>8. Promise!Hold(p, from, to)
  <2> HIDE DEF settle, expiry, from, to
  <2> QED
    BY <1>1, <1>3, <1>4, <1>5, <1>6, <1>7 DEF Promise!Hold, OpenPayment
<1> QED
  BY <1>1, <1>8 DEF Step, Promise!Next

LEMMA AcknowledgeStep ==
    ASSUME IInv, NEW p \in Payments, NEW actor \in Users, AcknowledgePayment(p, actor)
    PROVE  Step
<1> DEFINE old == payment[p]
           new == [payment[p] EXCEPT !.status = "Acknowledged"]
<1>0. payment \in [Payments -> Payment] /\ old \in Payment /\ Open(old)
      /\ old.status = "Created"
  BY DEF IInv, TypeOK, AcknowledgePayment
<1>1. Escrows[p].phase = "held" /\ Escrows[p].expires_at = old.expires_at
  BY <1>0, EscrowOfTerms DEF Escrows, PhaseOf, Open
<1>2. EscrowOf(new) = [EscrowOf(old) EXCEPT !.phase = "confirmed"]
  <2>1. new \in Payment /\ new.initialized /\ Terms(new) = Terms(old)
    BY <1>0 DEF Payment, PaymentStatus, Open, Terms
  <2>2. PhaseOf(new) = "confirmed"
    BY <1>0 DEF PhaseOf, Payment, Open
  <2> QED
    BY <1>0, <2>1, <2>2, EscrowOfNewPhase DEF Open
<1>3. Escrows' = [Escrows EXCEPT ![p].phase = "confirmed"]
  BY <1>0, <1>2, WriteEscrow DEF AcknowledgePayment, Escrows
<1>4. Promise!Confirm(p)
  BY <1>1, <1>3 DEF Promise!Confirm, Promise!Phase, AcknowledgePayment, money, Funds
<1> QED
  BY <1>4 DEF Step, Promise!Next

LEMMA CancelStep ==
    ASSUME IInv, NEW p \in Payments, NEW actor \in Users, CancelPayment(p, actor)
    PROVE  Step
<1> DEFINE old == payment[p]
           undone == [payment[p] EXCEPT !.status = "Cancelled"]
<1>0. /\ TypeOK /\ payment \in [Payments -> Payment] /\ old \in Payment /\ Open(old)
      /\ old.status \in {"Created", "Acknowledged"} /\ old.sender = actor
  BY DEF IInv, TypeOK, CancelPayment, Payment, PaymentStatus, Terminal
<1>1. /\ Escrows[p].phase \in {"held", "confirmed"}
      /\ Escrows[p].from = actor /\ Escrows[p].amount = old.amount
  BY <1>0, EscrowOfTerms DEF Escrows, PhaseOf, Open
<1>2. EscrowOf(Sealed(undone)) = [EscrowOf(old) EXCEPT !.phase = "undone"]
  <2>1. undone \in Payment /\ ~undone.redacted /\ undone.initialized
        /\ Terms(undone) = Terms(old)
    BY <1>0 DEF Payment, PaymentStatus, Open, Terms
  <2>2. Sealed(undone) \in Payment /\ Terms(Sealed(undone)) = Terms(old)
    BY <2>1, SealedType, SealedTerms
  <2>3. Sealed(undone).initialized /\ PhaseOf(Sealed(undone)) = "undone"
    BY <1>0 DEF Sealed, PhaseOf, Payment, Open
  <2> QED
    BY <1>0, <2>2, <2>3, EscrowOfNewPhase DEF Open
<1>3. Escrows' = [Escrows EXCEPT ![p].phase = "undone"]
  BY <1>0, <1>2, WriteEscrow DEF CancelPayment, Escrows
<1>4. Funds' = [Funds EXCEPT ![actor] = @ + old.amount]
  <2>1. /\ wallet' = wallet
        /\ deposit'[actor].available = deposit[actor].available + old.amount
        /\ \A v \in Users : v # actor => deposit'[v] = deposit[v]
    BY <1>0 DEF TypeOK, CancelPayment
  <2>2. old.amount \in Int
    BY <1>0 DEF Payment, Word
  <2> QED
    BY <1>0, <2>1, <2>2, OwnedAfter
<1>5. Promise!Undo(p)
  BY <1>1, <1>3, <1>4 DEF Promise!Undo, Promise!Phase, Promise!Pay, CancelPayment
<1> QED
  BY <1>5 DEF Step, Promise!Next

LEMMA ClaimStep ==
    ASSUME IInv, NEW p \in Payments, NEW actor \in Users, ClaimPayment(p, actor)
    PROVE  Step
<1> DEFINE old == payment[p]
<1>0. /\ TypeOK /\ payment \in [Payments -> Payment] /\ old \in Payment /\ Open(old)
      /\ \/ old.status = "Settled" /\ old.recipient = actor
         \/ old.status = "Expired" /\ old.sender = actor
  BY NoUserAssumption DEF IInv, TypeOK, ClaimPayment, Claimant
<1>1. /\ Sealed(old) \in Payment /\ Terms(Sealed(old)) = Terms(old)
      /\ Sealed(old).initialized /\ Sealed(old).redacted /\ Sealed(old).status = old.status
  BY <1>0, SealedType, SealedTerms DEF Open, Sealed, Payment
<1>2. Funds' = [Funds EXCEPT ![actor] = @ + old.amount]
  <2>1. /\ wallet' = wallet
        /\ deposit'[actor].available = deposit[actor].available + old.amount
        /\ \A v \in Users : v # actor => deposit'[v] = deposit[v]
    BY <1>0 DEF TypeOK, ClaimPayment
  <2>2. old.amount \in Int
    BY <1>0 DEF Payment, Word
  <2> QED
    BY <1>0, <2>1, <2>2, OwnedAfter
<1>3. Escrows' = [Escrows EXCEPT ![p] = EscrowOf(Sealed(old))]
  BY <1>0, WriteEscrow DEF ClaimPayment
<1>4. Escrows' = [Escrows EXCEPT ![p].phase = PhaseOf(Sealed(old))]
  <2>1. EscrowOf(Sealed(old)) = [EscrowOf(old) EXCEPT !.phase = PhaseOf(Sealed(old))]
    BY <1>0, <1>1, EscrowOfNewPhase DEF Open
  <2> QED
    BY <1>3, <2>1 DEF Escrows
<1>5. CASE old.status = "Settled"
  <2>1. /\ Escrows[p].phase = "final" /\ Escrows[p].to = actor
        /\ Escrows[p].amount = old.amount
    BY <1>0, <1>5, EscrowOfTerms DEF Escrows, PhaseOf, Open
  <2>2. PhaseOf(Sealed(old)) = "paid"
    BY <1>1, <1>5 DEF PhaseOf
  <2>3. Promise!Collect(p)
    BY <1>2, <1>4, <2>1, <2>2 DEF Promise!Collect, Promise!Phase, Promise!Pay, ClaimPayment
  <2> QED
    BY <2>3 DEF Step, Promise!Next
<1>6. CASE old.status = "Expired"
  <2>1. /\ Escrows[p].phase = "lapsed" /\ Escrows[p].from = actor
        /\ Escrows[p].amount = old.amount
    BY <1>0, <1>6, EscrowOfTerms DEF Escrows, PhaseOf, Open
  <2>2. PhaseOf(Sealed(old)) = "recovered"
    BY <1>1, <1>6 DEF PhaseOf
  <2>3. Promise!Collect(p)
    BY <1>2, <1>4, <2>1, <2>2 DEF Promise!Collect, Promise!Phase, Promise!Pay, ClaimPayment
  <2> QED
    BY <2>3 DEF Step, Promise!Next
<1> QED
  BY <1>0, <1>5, <1>6

\* advance_payment, whether a user or the Crank calls it.
LEMMA AdvanceStep ==
    ASSUME IInv, NEW p \in Payments, payment[p].initialized,
           Write(p, Advanced(payment[p], now)), UNCHANGED <<wallet, deposit, now>>
    PROVE  Step
<1> DEFINE old == payment[p]
           new == Advanced(payment[p], now)
<1>0. /\ payment \in [Payments -> Payment] /\ old \in Payment /\ now \in Time
      /\ Sound(old, now)
  BY DEF IInv, TypeOK, AllSound
<1>1. CASE Open(old) /\ old.status = "Acknowledged" /\ now >= old.settle_after
  <2>1. Escrows[p].phase = "confirmed" /\ Escrows[p].settle_after = old.settle_after
    BY <1>0, <1>1, EscrowOfTerms DEF Escrows, PhaseOf, Open
  <2>2. /\ new \in Payment /\ new.initialized /\ Terms(new) = Terms(old)
        /\ PhaseOf(new) = "final"
    BY <1>0, <1>1 DEF Advanced, Payment, PaymentStatus, Open, Terms, PhaseOf
  <2>3. Escrows' = [Escrows EXCEPT ![p].phase = "final"]
    <3>1. EscrowOf(new) = [EscrowOf(old) EXCEPT !.phase = "final"]
      BY <1>0, <2>2, EscrowOfNewPhase
    <3>2. Escrows' = [Escrows EXCEPT ![p] = EscrowOf(new)]
      BY <1>0, WriteEscrow
    <3> QED
      BY <3>1, <3>2 DEF Escrows
  <2>4. Promise!Finalise(p)
    BY <1>1, <2>1, <2>3 DEF Promise!Finalise, Promise!Phase, Funds
  <2> QED
    BY <2>4 DEF Step, Promise!Next
<1>2. CASE Open(old) /\ old.status = "Created" /\ now >= old.expires_at
  <2>1. Escrows[p].phase = "held" /\ Escrows[p].expires_at = old.expires_at
    BY <1>0, <1>2, EscrowOfTerms DEF Escrows, PhaseOf, Open
  <2>2. /\ new \in Payment /\ new.initialized /\ Terms(new) = Terms(old)
        /\ PhaseOf(new) = "lapsed"
    BY <1>0, <1>2 DEF Advanced, Payment, PaymentStatus, Open, Terms, PhaseOf
  <2>3. Escrows' = [Escrows EXCEPT ![p].phase = "lapsed"]
    <3>1. EscrowOf(new) = [EscrowOf(old) EXCEPT !.phase = "lapsed"]
      BY <1>0, <2>2, EscrowOfNewPhase
    <3>2. Escrows' = [Escrows EXCEPT ![p] = EscrowOf(new)]
      BY <1>0, WriteEscrow
    <3> QED
      BY <3>1, <3>2 DEF Escrows
  <2>4. Promise!Lapse(p)
    BY <1>2, <2>1, <2>3 DEF Promise!Lapse, Promise!Phase, Funds
  <2> QED
    BY <2>4 DEF Step, Promise!Next
<1>3. CASE /\ ~(Open(old) /\ old.status = "Acknowledged" /\ now >= old.settle_after)
           /\ ~(Open(old) /\ old.status = "Created" /\ now >= old.expires_at)
  <2>1. ~Open(old) => old.status \in Terminal
    BY <1>0 DEF Open, Sound
  <2>2. new = old
    BY <1>0, <1>3, <2>1 DEF Advanced, Payment, Terminal
  <2>3. Escrows' = Escrows
    BY <1>0, <2>2, SameEscrow
  <2> QED
    BY <2>3, Stutters DEF Step
<1> QED
  BY <1>1, <1>2, <1>3

LEMMA EscrowStep ==
    ASSUME IInv, NEW p \in Payments, Escrow(p)
    PROVE  Step
<1>0. payment \in [Payments -> Payment] /\ payment[p] \in Payment
  BY DEF IInv, TypeOK
<1>1. ASSUME NEW actor \in Users, NEW recipient \in Party,
             PreparePayment(p, actor, recipient)
      PROVE  Step
  <2>1. payment[p] = Shell(payment[p].sender, payment[p].recipient)
    BY <1>1 DEF PreparePayment, IInv, AllSound, AllPlaced, Sound, Placed
  <2>2. EscrowOf(Shell(actor, recipient)) = EscrowOf(payment[p])
    BY <2>1, EscrowOfShell
  <2>3. Escrows' = Escrows
    BY <1>0, <1>1, <2>2 DEF PreparePayment, Escrows
  <2> QED
    BY <1>1, <2>3, Stutters DEF PreparePayment, Step, money
<1>2. ASSUME NEW actor \in Users,
             \/ DelegatePayment(p, actor)
             \/ RedactTerminalPayment(p, actor)
             \/ CommitAndUndelegatePayment(p, actor)
      PROVE  Step
  <2>1. UNCHANGED <<wallet, deposit, now, payment>>
    BY <1>2 DEF DelegatePayment, RedactTerminalPayment, CommitAndUndelegatePayment,
                vars, money
  <2> QED
    BY <2>1, Stutters DEF Step, Escrows
<1>3. CASE PaymentCommitLands(p)
  <2>1. UNCHANGED <<wallet, deposit, now, payment>>
    BY <1>3 DEF PaymentCommitLands, money
  <2> QED
    BY <2>1, Stutters DEF Step, Escrows
<1>4. ASSUME NEW actor \in Users, SchedulePayment(p, actor)
      PROVE  Step
  <2> DEFINE scheduled == [payment[p] EXCEPT !.task_id = 1]
  <2>1. /\ scheduled \in Payment /\ scheduled.initialized /\ payment[p].initialized
        /\ Terms(scheduled) = Terms(payment[p]) /\ PhaseOf(scheduled) = PhaseOf(payment[p])
    BY <1>0, <1>4 DEF SchedulePayment, Live, Open, Payment, Terms, PhaseOf
  <2>2. EscrowOf(scheduled) = EscrowOf(payment[p])
    BY <2>1 DEF EscrowOf
  <2>3. Write(p, scheduled) /\ UNCHANGED <<wallet, deposit, now>>
    BY <1>4 DEF SchedulePayment, money
  <2> QED
    BY <1>0, <2>2, <2>3, SameEscrow, Stutters DEF Step
<1>5. CASE AdvancePayment(p)
  BY <1>5, AdvanceStep DEF AdvancePayment, money
<1> QED
  BY <1>1, <1>2, <1>3, <1>4, <1>5, OpenStep, AcknowledgeStep, CancelStep, ClaimStep
     DEF Escrow

LEMMA NextStep == IInv /\ [Next]_vars => [Promise!Next]_(Promise!vars)
<1> SUFFICES ASSUME IInv, [Next]_vars PROVE Step
  BY DEF Step
<1>0. TypeOK /\ TypeOK'
  BY StepType DEF IInv
<1>1. CASE Administration \/ UNCHANGED vars
  <2>1. UNCHANGED <<wallet, deposit, now, payment>>
    BY <1>1 DEF Administration, InitializeConfig, UpdateTimingPolicy, InitializeVault,
                vars, money
  <2> QED
    BY <2>1, Stutters DEF Step, Escrows
<1>2. ASSUME NEW p \in Payments, CrankFires(p)
      PROVE  Step
  <2>1. UNCHANGED <<wallet, deposit, now>>
    BY <1>2 DEF CrankFires, money
  <2>2. CASE layer[p] = "er" /\ payment[p].initialized
    BY <1>2, <2>1, <2>2, AdvanceStep DEF CrankFires
  <2>3. CASE ~(layer[p] = "er" /\ payment[p].initialized)
    <3>1. payment' = payment
      BY <1>2, <2>3 DEF CrankFires
    <3> QED
      BY <2>1, <3>1, Stutters DEF Step, Escrows
  <2> QED
    BY <2>2, <2>3
<1>3. CASE Tick
  <2>1. now \in Int /\ now' \in Time /\ now' > now
    BY <1>0, <1>3 DEF Tick, TypeOK, Time
  <2>2. Funds' = Funds /\ Escrows' = Escrows
    BY <1>3 DEF Tick, Funds, Escrows, money
  <2>3. Promise!Pass
    BY <2>1, <2>2 DEF Promise!Pass
  <2> QED
    BY <2>3 DEF Step, Promise!Next
<1> QED
  BY <1>0, <1>1, <1>2, <1>3, CustodyStep, EscrowStep DEF Next

LEMMA InitPromise == Init => Promise!Init
<1> SUFFICES ASSUME Init PROVE Promise!Init
  OBVIOUS
<1>1. Escrows = [p \in Payments |-> Promise!Idle]
  BY EscrowOfShell DEF Init, Escrows, NoPayment
<1>2. Funds = Endowment
  <2>1. \A u \in Users : wallet[u] + deposit[u].available = Endowment[u]
    BY EndowmentAssumption, WidthAssumption DEF Init, NoDeposit
  <2> QED
    BY <2>1, EndowmentAssumption DEF Funds
<1> QED
  BY <1>1, <1>2 DEF Init, Promise!Init

\* The program implements the promise: a payment is held, undone, made final,
\* lapsed and collected exactly as ReversibleEscrow allows, with as many users
\* and payments as there are, in every interleaving of instructions and Crank.
THEOREM ProgramImplementsPromise == Spec => ImplementsPromise
<1>1. Spec => [][Promise!Next]_(Promise!vars)
  BY NextStep, InvariantHolds, PTL DEF Spec
<1> QED
  BY <1>1, InitPromise, PTL DEF Spec, ImplementsPromise, Promise!Spec

-----------------------------------------------------------------------------
(* Every step is a step of the custody of any one wallet, or a stutter *)

\* What w has and where its Deposit lives is all that w's custody speaks of.
LEMMA Untouched ==
    ASSUME NEW w \in Users, deposit'[w].layer = deposit[w].layer,
           deposit'[w].available = deposit[w].available, wallet'[w] = wallet[w]
    PROVE  CustodyOf(w)!Step
BY DEF CustodyOf!Step, CustodyOf!vars

\* w's own instructions: exchanges on the base chain, and the Deposit's way to the
\* rollup and back.
LEMMA OwnCustody ==
    ASSUME TypeOK, TypeOK', NothingInAbsent, NEW w \in Users, Custody(w)
    PROVE  CustodyOf(w)!Step
<1>0. /\ deposit[w].available \in Nat /\ wallet[w] \in Nat
      /\ deposit'[w].available \in Nat /\ wallet'[w] \in Nat
  BY WidthAssumption DEF TypeOK, Word
<1>1. CASE InitializeDeposit(w)
  <2>1. /\ deposit[w].layer = "absent" /\ deposit'[w].layer = "base"
        /\ deposit[w].available = 0 /\ deposit'[w].available = 0
        /\ wallet'[w] = wallet[w]
    BY <1>1 DEF InitializeDeposit, TypeOK, NoDeposit, NothingInAbsent
  <2>2. CustodyOf(w)!Create
    BY <1>0, <2>1 DEF CustodyOf!Create, CustodyOf!Exchange
  <2> QED
    BY <2>2 DEF CustodyOf!Step, CustodyOf!Next
<1>2. ASSUME NEW amount \in Amounts, DepositUsdc(w, amount) \/ WithdrawUsdc(w, amount)
      PROVE  CustodyOf(w)!Step
  <2>1. amount \in Nat
    BY InputAssumption, WidthAssumption
  <2>2. /\ deposit[w].layer = "base" /\ deposit'[w].layer = "base"
        /\ \/ /\ deposit'[w].available = deposit[w].available + amount
              /\ wallet'[w] = wallet[w] - amount
           \/ /\ deposit'[w].available = deposit[w].available - amount
              /\ wallet'[w] = wallet[w] + amount
    BY <1>2 DEF DepositUsdc, WithdrawUsdc, TypeOK
  <2>3. CustodyOf(w)!Change
    BY <1>0, <2>1, <2>2 DEF CustodyOf!Change, CustodyOf!Exchange
  <2> QED
    BY <2>3 DEF CustodyOf!Step, CustodyOf!Next
<1>3. CASE DelegateDeposit(w)
  <2>1. /\ deposit[w].layer = "base" /\ deposit'[w].layer = "er"
        /\ deposit'[w].available = deposit[w].available /\ wallet'[w] = wallet[w]
    BY <1>3 DEF DelegateDeposit, TypeOK
  <2>2. CustodyOf(w)!Change
    BY <1>0, <2>1 DEF CustodyOf!Change, CustodyOf!Exchange
  <2> QED
    BY <2>2 DEF CustodyOf!Step, CustodyOf!Next
<1>4. CASE CommitAndUndelegateDeposit(w)
  <2>1. CustodyOf(w)!Return
    BY <1>4 DEF CommitAndUndelegateDeposit, TypeOK, CustodyOf!Return
  <2> QED
    BY <2>1 DEF CustodyOf!Step, CustodyOf!Next
<1>5. CASE DepositCommitLands(w)
  <2>1. CustodyOf(w)!Land
    BY <1>5 DEF DepositCommitLands, TypeOK, CustodyOf!Land
  <2> QED
    BY <2>1 DEF CustodyOf!Step, CustodyOf!Next
<1> QED
  BY <1>1, <1>2, <1>3, <1>4, <1>5 DEF Custody

\* ... and what they do to anybody else.
LEMMA OthersCustody ==
    ASSUME TypeOK, NEW u \in Users, NEW w \in Users, u # w, Custody(u)
    PROVE  CustodyOf(w)!Step
<1>1. deposit'[w] = deposit[w] /\ wallet'[w] = wallet[w]
  BY DEF TypeOK, Custody, InitializeDeposit, DepositUsdc, WithdrawUsdc,
         DelegateDeposit, CommitAndUndelegateDeposit, DepositCommitLands
<1> QED
  BY <1>1, Untouched

\* A payment moves its party's balance where both accounts are writable (Together),
\* which is never while the Deposit is absent or on its way back.
LEMMA PaymentCustody ==
    ASSUME IInv, TypeOK', NEW p \in Payments, NEW actor \in Users, NEW w \in Users,
           \/ \E amount \in Amounts : OpenPayment(p, actor, amount)
           \/ CancelPayment(p, actor)
           \/ ClaimPayment(p, actor)
    PROVE  CustodyOf(w)!Step
<1>0. TypeOK
  BY DEF IInv
<1>1. /\ Together(p, actor) /\ wallet' = wallet
      /\ deposit'[actor].layer = deposit[actor].layer
      /\ \A v \in Users : v # actor => deposit'[v] = deposit[v]
  <2>0. deposit[actor] \in [layer : DepositLayer, available : Word, next_payment_nonce : Word]
    BY <1>0 DEF TypeOK
  <2>1. ASSUME NEW amount \in Amounts, OpenPayment(p, actor, amount)
        PROVE  /\ Together(p, actor) /\ wallet' = wallet
               /\ deposit'[actor].layer = deposit[actor].layer
               /\ \A v \in Users : v # actor => deposit'[v] = deposit[v]
    BY <1>0, <2>0, <2>1 DEF TypeOK, OpenPayment
  <2>2. CASE CancelPayment(p, actor)
    BY <1>0, <2>2 DEF TypeOK, CancelPayment
  <2>3. CASE ClaimPayment(p, actor)
    BY <1>0, <2>3 DEF TypeOK, ClaimPayment
  <2> QED
    BY <2>1, <2>2, <2>3
<1>2. CASE w # actor
  BY <1>1, <1>2, Untouched
<1>3. CASE w = actor
  <2>1. deposit[w].layer \in {"base", "er"} /\ deposit'[w].available \in Nat
    BY <1>1, <1>3, WidthAssumption DEF Together, TypeOK, Word
  <2>2. CustodyOf(w)!Pay
    BY <1>1, <1>3, <2>1 DEF CustodyOf!Pay
  <2> QED
    BY <2>2 DEF CustodyOf!Step, CustodyOf!Next
<1> QED
  BY <1>2, <1>3

LEMMA StepCustody ==
    ASSUME IInv, [Next]_vars, NEW w \in Users
    PROVE  CustodyOf(w)!Step
<1>0. TypeOK /\ TypeOK' /\ NothingInAbsent
  BY StepType DEF IInv
<1>1. ASSUME NEW u \in Users, Custody(u)
      PROVE  CustodyOf(w)!Step
  BY <1>0, <1>1, OwnCustody, OthersCustody
<1>2. ASSUME NEW p \in Payments, Escrow(p)
      PROVE  CustodyOf(w)!Step
  <2>1. CASE \E actor \in Users : \/ \E amount \in Amounts : OpenPayment(p, actor, amount)
                                  \/ CancelPayment(p, actor)
                                  \/ ClaimPayment(p, actor)
    BY <1>0, <2>1, PaymentCustody
  <2>2. CASE \/ \E actor \in Users :
                   \/ \E recipient \in Party : PreparePayment(p, actor, recipient)
                   \/ DelegatePayment(p, actor) \/ AcknowledgePayment(p, actor)
                   \/ SchedulePayment(p, actor) \/ RedactTerminalPayment(p, actor)
                   \/ CommitAndUndelegatePayment(p, actor)
             \/ AdvancePayment(p) \/ PaymentCommitLands(p)
    <3>1. UNCHANGED <<deposit, wallet>>
      BY <2>2 DEF PreparePayment, DelegatePayment, AcknowledgePayment, SchedulePayment,
         RedactTerminalPayment, CommitAndUndelegatePayment, AdvancePayment,
         PaymentCommitLands, money, vars
    <3> QED
      BY <3>1, Untouched
  <2> QED
    BY <1>2, <2>1, <2>2 DEF Escrow
<1>3. CASE \/ Administration \/ Tick \/ UNCHANGED vars
           \/ \E p \in Payments : CrankFires(p)
  <2>1. UNCHANGED <<deposit, wallet>>
    BY <1>3 DEF Administration, InitializeConfig, UpdateTimingPolicy, InitializeVault,
                Tick, CrankFires, money, vars
  <2> QED
    BY <2>1, Untouched
<1> QED
  BY <1>1, <1>2, <1>3 DEF Next

\* The program is a custodian to every one of its users: while payments of any
\* number of others go on, a Deposit changes on the base chain against its wallet,
\* by payments where it is writable, and in no other way (deposit_usdc,
\* withdraw_usdc, commit_and_undelegate_deposit, open, cancel and claim).
THEOREM ProgramImplementsCustody == Spec => ImplementsCustody
<1>1. Init => \A u \in Users : CustodyOf(u)!Init
  BY DEF Init, NoDeposit, CustodyOf!Init
<1>2. IInv /\ [Next]_vars => \A u \in Users : CustodyOf(u)!Step
  BY StepCustody
<1>3. Spec => [][\A u \in Users : CustodyOf(u)!Step]_vars
  BY <1>2, InvariantHolds, PTL DEF Spec
<1> QED
  BY <1>1, <1>3, PTL DEF Spec, ImplementsCustody
=============================================================================
