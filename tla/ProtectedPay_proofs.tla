------------------------ MODULE ProtectedPay_proofs ------------------------
(* Machine-checked proofs about ProtectedPay, for every set of users and     *)
(* payments, every endowment, policy, word width and Crank schedule.         *)
EXTENDS ProtectedPayRefinement, TLAPS

-----------------------------------------------------------------------------
(* The functions of the payment state machine stay within the type *)

LEMMA NoCommitmentType == NoCommitment \in Commitment
BY WidthAssumption DEF NoCommitment, Commitment, Party, Word, Time, PaymentStatus

LEMMA ShellType ==
    ASSUME NEW s \in Party, NEW r \in Party
    PROVE  Shell(s, r) \in Payment
<1>1. 0 \in Word /\ 0 \in Time
  BY WidthAssumption DEF Word, Time
<1>2. "Created" \in PaymentStatus
  BY DEF PaymentStatus
<1> QED
  BY <1>1, <1>2, NoCommitmentType DEF Shell, Payment

LEMMA OpenedType ==
    ASSUME NEW pay \in Payment, NEW amount \in Word, NEW t \in Time,
           config \in [exists : BOOLEAN, safety_window : Time, claim_window : Time],
           t + config.safety_window <= MaxI64, t + config.claim_window <= MaxI64
    PROVE  Opened(pay, amount, t, config) \in Payment
<1>1. t + config.safety_window \in Time /\ t + config.claim_window \in Time
  BY WidthAssumption DEF Time
<1>2. "Created" \in PaymentStatus
  BY DEF PaymentStatus
<1> QED
  BY <1>1, <1>2, NoCommitmentType DEF Opened, Payment

LEMMA AdvancedType ==
    ASSUME NEW pay \in Payment, NEW t \in Time
    PROVE  Advanced(pay, t) \in Payment
BY DEF Advanced, Payment, PaymentStatus

LEMMA SealedType ==
    ASSUME NEW pay \in Payment
    PROVE  Sealed(pay) \in Payment
<1>1. 0 \in Word /\ 0 \in Time /\ NoUser \in Party
  BY WidthAssumption DEF Word, Time, Party
<1>2. [sender |-> pay.sender, recipient |-> pay.recipient, amount |-> pay.amount,
       created_at |-> pay.created_at, settle_after |-> pay.settle_after,
       expires_at |-> pay.expires_at, status |-> pay.status] \in Commitment
  BY DEF Payment, Commitment
<1> QED
  BY <1>1, <1>2 DEF Sealed, Payment

LEMMA WriteType ==
    ASSUME payment \in [Payments -> Payment], published \in [Payments -> Payment],
           NEW p \in Payments, NEW pay \in Payment, Write(p, pay)
    PROVE  payment' \in [Payments -> Payment] /\ published' \in [Payments -> Payment]
BY DEF Write

-----------------------------------------------------------------------------
(* Type correctness *)

LEMMA InitType == Init => TypeOK
<1> SUFFICES ASSUME Init PROVE TypeOK
  OBVIOUS
<1>1. 0 \in Word /\ 0 \in Time
  BY WidthAssumption DEF Word, Time
<1>2. NoPayment \in Payment
  BY ShellType DEF NoPayment, Party
<1>3. NoDeposit \in [layer : DepositLayer, available : Word, next_payment_nonce : Word]
  BY <1>1 DEF NoDeposit, DepositLayer
<1>4. wallet \in [Users -> Nat]
  BY EndowmentAssumption, WidthAssumption DEF Init
<1>5. task \in [Payments -> [left : 0..CrankIterations, due : Nat]]
  BY CrankAssumption DEF Init, NoTask
<1>6. layer \in [Payments -> PaymentLayer]
  BY DEF Init, PaymentLayer, DepositLayer
<1>7. config \in [exists : BOOLEAN, safety_window : Time, claim_window : Time]
  BY <1>1 DEF Init
<1>8. vault \in [exists : BOOLEAN, total_liability : Word, tokens : Nat]
  BY <1>1 DEF Init
<1> QED
  BY <1>1, <1>2, <1>3, <1>4, <1>5, <1>6, <1>7, <1>8 DEF Init, TypeOK

LEMMA AdministrationType == TypeOK /\ Administration => TypeOK'
<1> SUFFICES ASSUME TypeOK, Administration PROVE TypeOK'
  OBVIOUS
<1>0. Windows \subseteq Time /\ 0 \in Word
  BY InputAssumption, WidthAssumption DEF Time, Word
<1>1. ASSUME NEW safety \in Windows, NEW claim \in Windows,
             InitializeConfig(safety, claim) \/ UpdateTimingPolicy(safety, claim)
      PROVE  TypeOK'
  <2>1. config' = [exists |-> TRUE, safety_window |-> safety, claim_window |-> claim]
    BY <1>1 DEF InitializeConfig, UpdateTimingPolicy
  <2>2. UNCHANGED <<money, payment, layer, published, now, task>>
    BY <1>1 DEF InitializeConfig, UpdateTimingPolicy
  <2> QED
    BY <1>0, <2>1, <2>2 DEF TypeOK, money
<1>2. CASE InitializeVault
  BY <1>0, <1>2 DEF TypeOK, InitializeVault
<1> QED
  BY <1>1, <1>2 DEF Administration

LEMMA CustodyType ==
    ASSUME TypeOK, NEW u \in Users, Custody(u)
    PROVE  TypeOK'
<1>0. Amounts \subseteq Word /\ Word \subseteq Nat /\ 0 \in Word
  BY InputAssumption, WidthAssumption DEF Word
<1>1. CASE InitializeDeposit(u)
  BY <1>0, <1>1 DEF TypeOK, InitializeDeposit, NoDeposit, DepositLayer
<1>2. ASSUME NEW amount \in Amounts, DepositUsdc(u, amount)
      PROVE  TypeOK'
  <2>1. deposit[u].available + amount \in Word /\ vault.total_liability + amount \in Word
    BY <1>0, <1>2 DEF TypeOK, DepositUsdc, CanCredit, Word
  <2>2. vault.tokens + amount \in Nat /\ wallet[u] - amount \in Nat
    BY <1>0, <1>2 DEF TypeOK, DepositUsdc
  <2> QED
    BY <1>2, <2>1, <2>2 DEF TypeOK, DepositUsdc
<1>3. ASSUME NEW amount \in Amounts, WithdrawUsdc(u, amount)
      PROVE  TypeOK'
  <2>0. /\ deposit[u].available \in Word /\ vault.total_liability \in Word
        /\ amount \in Nat /\ amount <= deposit[u].available
        /\ amount <= vault.total_liability
    BY <1>0, <1>3 DEF TypeOK, WithdrawUsdc, CanDebit
  <2>1. deposit[u].available - amount \in Word /\ vault.total_liability - amount \in Word
    BY <2>0, WidthAssumption DEF Word
  <2>2. vault.tokens - amount \in Nat /\ wallet[u] + amount \in Nat
    BY <1>0, <1>3 DEF TypeOK, WithdrawUsdc
  <2> QED
    BY <1>3, <2>1, <2>2 DEF TypeOK, WithdrawUsdc
<1>4. CASE DelegateDeposit(u)
  BY <1>4 DEF TypeOK, DelegateDeposit, DepositLayer
<1>5. CASE CommitAndUndelegateDeposit(u)
  BY <1>5 DEF TypeOK, CommitAndUndelegateDeposit, DepositLayer
<1>6. CASE DepositCommitLands(u)
  BY <1>6 DEF TypeOK, DepositCommitLands, DepositLayer
<1> QED
  BY <1>1, <1>2, <1>3, <1>4, <1>5, <1>6 DEF Custody

LEMMA EscrowType ==
    ASSUME TypeOK, NEW p \in Payments, Escrow(p)
    PROVE  TypeOK'
<1>0. /\ Amounts \subseteq Word /\ Word \subseteq Nat
      /\ payment[p] \in Payment /\ now \in Time
      /\ layer \in [Payments -> PaymentLayer]
  BY InputAssumption, WidthAssumption DEF Word, TypeOK
<1>1. ASSUME NEW actor \in Users, NEW recipient \in Party,
             PreparePayment(p, actor, recipient)
      PROVE  TypeOK'
  <2>1. Shell(actor, recipient) \in Payment
    BY ShellType DEF Party
  <2> QED
    BY <1>1, <2>1 DEF TypeOK, PreparePayment, PaymentLayer, DepositLayer, money
<1>2. ASSUME NEW actor \in Users, DelegatePayment(p, actor)
      PROVE  TypeOK'
  BY <1>2 DEF TypeOK, DelegatePayment, PaymentLayer, DepositLayer, money
<1>3. ASSUME NEW actor \in Users, NEW amount \in Amounts, OpenPayment(p, actor, amount)
      PROVE  TypeOK'
  <2>1. Opened(payment[p], amount, now, config) \in Payment
    BY <1>0, <1>3, OpenedType DEF TypeOK, OpenPayment
  <2>2. payment' \in [Payments -> Payment] /\ published' \in [Payments -> Payment]
    BY <1>3, <2>1, WriteType DEF TypeOK, OpenPayment
  <2>3. /\ deposit[actor].available - amount \in Word
        /\ deposit[actor].next_payment_nonce + 1 \in Word
    <3>1. /\ deposit[actor].available \in Word /\ deposit[actor].next_payment_nonce \in Word
          /\ amount \in Nat /\ amount <= deposit[actor].available
          /\ deposit[actor].next_payment_nonce + 1 <= MaxU64
      BY <1>0, <1>3 DEF TypeOK, OpenPayment, CanDebit
    <3> QED
      BY <3>1, WidthAssumption DEF Word
  <2>4. deposit' \in [Users -> [layer : DepositLayer, available : Word,
                               next_payment_nonce : Word]]
    <3> DEFINE after == [deposit[actor] EXCEPT
                            !.available = deposit[actor].available - amount,
                            !.next_payment_nonce = deposit[actor].next_payment_nonce + 1]
    <3>1. after \in [layer : DepositLayer, available : Word, next_payment_nonce : Word]
      BY <2>3 DEF TypeOK
    <3>2. deposit' = [deposit EXCEPT ![actor] = after]
      BY <1>3 DEF OpenPayment
    <3> HIDE DEF after
    <3> QED
      BY <3>1, <3>2 DEF TypeOK
  <2> QED
    BY <1>3, <2>2, <2>4 DEF TypeOK, OpenPayment
<1>4. ASSUME NEW actor \in Users, AcknowledgePayment(p, actor)
      PROVE  TypeOK'
  <2>1. [payment[p] EXCEPT !.status = "Acknowledged"] \in Payment
    BY <1>0 DEF Payment, PaymentStatus
  <2> QED
    BY <1>4, <2>1, WriteType DEF TypeOK, AcknowledgePayment, money
<1>5. ASSUME NEW actor \in Users, CancelPayment(p, actor)
      PROVE  TypeOK'
  <2>1. [payment[p] EXCEPT !.status = "Cancelled"] \in Payment
    BY <1>0 DEF Payment, PaymentStatus
  <2>2. payment' \in [Payments -> Payment] /\ published' \in [Payments -> Payment]
    BY <1>5, <2>1, SealedType, WriteType DEF TypeOK, CancelPayment
  <2>3. payment[p].amount \in Word
    BY <1>0 DEF Payment
  <2>4. deposit[actor].available + payment[p].amount \in Word
    BY <1>5, <2>3 DEF TypeOK, CancelPayment, CanCredit, Word
  <2>5. deposit' \in [Users -> [layer : DepositLayer, available : Word,
                               next_payment_nonce : Word]]
    BY <1>5, <2>4 DEF TypeOK, CancelPayment
  <2> QED
    BY <1>5, <2>2, <2>5 DEF TypeOK, CancelPayment
<1>6. ASSUME NEW actor \in Users, ClaimPayment(p, actor)
      PROVE  TypeOK'
  <2>1. payment' \in [Payments -> Payment] /\ published' \in [Payments -> Payment]
    BY <1>0, <1>6, SealedType, WriteType DEF TypeOK, ClaimPayment
  <2>2. payment[p].amount \in Word
    BY <1>0 DEF Payment
  <2>3. deposit[actor].available + payment[p].amount \in Word
    BY <1>6, <2>2 DEF TypeOK, ClaimPayment, CanCredit, Word
  <2> QED
    BY <1>6, <2>1, <2>3 DEF TypeOK, ClaimPayment
<1>7. ASSUME NEW actor \in Users, SchedulePayment(p, actor)
      PROVE  TypeOK'
  <2>1. [payment[p] EXCEPT !.task_id = 1] \in Payment
    BY <1>0 DEF Payment
  <2>2. payment' \in [Payments -> Payment] /\ published' \in [Payments -> Payment]
    BY <1>7, <2>1, WriteType DEF TypeOK, SchedulePayment
  <2>3. task' \in [Payments -> [left : 0..CrankIterations, due : Nat]]
    BY <1>7, CrankAssumption, WidthAssumption DEF TypeOK, SchedulePayment, Time
  <2> QED
    BY <1>7, <2>2, <2>3 DEF TypeOK, SchedulePayment, money
<1>8. ASSUME NEW actor \in Users,
             RedactTerminalPayment(p, actor) \/ CommitAndUndelegatePayment(p, actor)
      PROVE  TypeOK'
  BY <1>8 DEF TypeOK, RedactTerminalPayment, CommitAndUndelegatePayment, vars, money,
              PaymentLayer, DepositLayer
<1>9. CASE AdvancePayment(p)
  BY <1>0, <1>9, AdvancedType, WriteType DEF TypeOK, AdvancePayment, money
<1>10. CASE PaymentCommitLands(p)
  BY <1>0, <1>10 DEF TypeOK, PaymentCommitLands, money, PaymentLayer, DepositLayer
<1> QED
  BY <1>1, <1>2, <1>3, <1>4, <1>5, <1>6, <1>7, <1>8, <1>9, <1>10 DEF Escrow

LEMMA CrankFiresType ==
    ASSUME TypeOK, NEW p \in Payments, CrankFires(p)
    PROVE  TypeOK'
<1>1. payment' \in [Payments -> Payment] /\ published' \in [Payments -> Payment]
  <2>1. CASE layer[p] = "er" /\ payment[p].initialized
    BY <2>1, AdvancedType, WriteType DEF TypeOK, CrankFires
  <2>2. CASE ~(layer[p] = "er" /\ payment[p].initialized)
    BY <2>2 DEF TypeOK, CrankFires
  <2> QED
    BY <2>1, <2>2
<1>2. task' \in [Payments -> [left : 0..CrankIterations, due : Nat]]
  BY CrankAssumption DEF TypeOK, CrankFires
<1> QED
  BY <1>1, <1>2 DEF TypeOK, CrankFires, money

LEMMA StepType == TypeOK /\ [Next]_vars => TypeOK'
<1> SUFFICES ASSUME TypeOK, [Next]_vars PROVE TypeOK'
  OBVIOUS
<1>1. CASE Tick
  BY <1>1, WidthAssumption DEF TypeOK, Tick, Time, money
<1>2. CASE UNCHANGED vars
  BY <1>2 DEF TypeOK, vars
<1> QED
  BY <1>1, <1>2, AdministrationType, CustodyType, EscrowType, CrankFiresType DEF Next

\* Every account always holds well-typed data: no u64 or i64 of the program
\* leaves its width, whatever is called in whatever order.
THEOREM TypeCorrect == Spec => []TypeOK
BY InitType, StepType, PTL DEF Spec

-----------------------------------------------------------------------------
(* How one step changes one payment *)

\* Every way an instruction may rewrite a Payment account.
Change(old, new, t) ==
    \/ new = old
    \/ /\ ~old.initialized
       /\ \E s, r \in Users : new = Shell(s, r)
    \/ /\ ~old.initialized /\ ~old.redacted /\ old.sender # old.recipient
       /\ \E amount \in Word, policy \in [exists : BOOLEAN, safety_window : Time,
                                          claim_window : Time] :
             /\ amount > 0
             /\ ValidPolicy(policy.safety_window, policy.claim_window)
             /\ policy.claim_window \in Windows
             /\ new = Opened(old, amount, t, policy)
    \/ Open(old) /\ old.status = "Created" /\ new = [old EXCEPT !.status = "Acknowledged"]
    \/ Live(old) /\ new = Sealed([old EXCEPT !.status = "Cancelled"])
    \/ old.initialized /\ new = Advanced(old, t)
    \/ Open(old) /\ old.status \in {"Settled", "Expired"} /\ new = Sealed(old)
    \/ Live(old) /\ new = [old EXCEPT !.task_id = 1]

\* A policy under which payments can be opened is one the authority chose.
PolicyChosen == config.safety_window > 0 => config.claim_window \in Windows

LEMMA WriteChange ==
    ASSUME payment \in [Payments -> Payment],
           NEW p \in Payments, NEW pay, Write(p, pay), Change(payment[p], pay, now)
    PROVE  \A q \in Payments : Change(payment[q], payment'[q], now)
<1> SUFFICES ASSUME NEW q \in Payments PROVE Change(payment[q], payment'[q], now)
  OBVIOUS
<1>1. payment'[q] = IF q = p THEN pay ELSE payment[q]
  BY DEF Write
<1>2. CASE q = p
  BY <1>1, <1>2
<1>3. CASE q # p
  BY <1>1, <1>3 DEF Change
<1> QED
  BY <1>2, <1>3

LEMMA SameChange ==
    ASSUME payment' = payment
    PROVE  \A q \in Payments : Change(payment[q], payment'[q], now)
BY DEF Change

LEMMA EscrowChange ==
    ASSUME TypeOK, LayersAgree, PolicyChosen, NEW p \in Payments, Escrow(p)
    PROVE  \A q \in Payments : Change(payment[q], payment'[q], now)
<1>0. payment \in [Payments -> Payment] /\ payment[p] \in Payment
  BY DEF TypeOK
<1>1. ASSUME NEW actor \in Users, NEW recipient \in Party,
             PreparePayment(p, actor, recipient)
      PROVE  \A q \in Payments : Change(payment[q], payment'[q], now)
  <2>1. ~payment[p].initialized
    BY <1>1 DEF PreparePayment, LayersAgree
  <2>2. Change(payment[p], Shell(actor, recipient), now)
    BY <1>1, <2>1 DEF PreparePayment, Change, Party
  <2>3. payment' = [payment EXCEPT ![p] = Shell(actor, recipient)]
    BY <1>1 DEF PreparePayment
  <2> SUFFICES ASSUME NEW q \in Payments PROVE Change(payment[q], payment'[q], now)
    OBVIOUS
  <2>4. CASE q = p
    BY <1>0, <2>2, <2>3, <2>4
  <2>5. CASE q # p
    BY <1>0, <2>3, <2>5 DEF Change
  <2> QED
    BY <2>4, <2>5
<1>2. ASSUME NEW actor \in Users, NEW amount \in Amounts, OpenPayment(p, actor, amount)
      PROVE  \A q \in Payments : Change(payment[q], payment'[q], now)
  <2>1. amount \in Word /\ amount > 0
    BY <1>2, InputAssumption DEF OpenPayment, CanDebit, Word
  <2>2. /\ config \in [exists : BOOLEAN, safety_window : Time, claim_window : Time]
        /\ ValidPolicy(config.safety_window, config.claim_window)
        /\ config.claim_window \in Windows
    BY <1>2 DEF TypeOK, OpenPayment, ValidPolicy, PolicyChosen
  <2>3. Change(payment[p], Opened(payment[p], amount, now, config), now)
    BY <1>2, <2>1, <2>2 DEF OpenPayment, Change
  <2> QED
    BY <1>0, <1>2, <2>3, WriteChange DEF OpenPayment
<1>3. ASSUME NEW actor \in Users, AcknowledgePayment(p, actor)
      PROVE  \A q \in Payments : Change(payment[q], payment'[q], now)
  <2>1. Change(payment[p], [payment[p] EXCEPT !.status = "Acknowledged"], now)
    BY <1>3 DEF AcknowledgePayment, Change
  <2> QED
    BY <1>0, <1>3, <2>1, WriteChange DEF AcknowledgePayment
<1>4. ASSUME NEW actor \in Users, CancelPayment(p, actor)
      PROVE  \A q \in Payments : Change(payment[q], payment'[q], now)
  <2>1. Change(payment[p], Sealed([payment[p] EXCEPT !.status = "Cancelled"]), now)
    BY <1>4 DEF CancelPayment, Change, Live
  <2> QED
    BY <1>0, <1>4, <2>1, WriteChange DEF CancelPayment
<1>5. ASSUME NEW actor \in Users, ClaimPayment(p, actor)
      PROVE  \A q \in Payments : Change(payment[q], payment'[q], now)
  <2>1. payment[p].status \in {"Settled", "Expired"}
    BY <1>5, NoUserAssumption DEF ClaimPayment, Claimant
  <2>2. Change(payment[p], Sealed(payment[p]), now)
    BY <1>5, <2>1 DEF ClaimPayment, Change
  <2> QED
    BY <1>0, <1>5, <2>2, WriteChange DEF ClaimPayment
<1>6. ASSUME NEW actor \in Users, SchedulePayment(p, actor)
      PROVE  \A q \in Payments : Change(payment[q], payment'[q], now)
  <2>1. Change(payment[p], [payment[p] EXCEPT !.task_id = 1], now)
    BY <1>6 DEF SchedulePayment, Change
  <2> QED
    BY <1>0, <1>6, <2>1, WriteChange DEF SchedulePayment
<1>7. ASSUME NEW actor \in Users,
             \/ DelegatePayment(p, actor)
             \/ RedactTerminalPayment(p, actor)
             \/ CommitAndUndelegatePayment(p, actor)
      PROVE  \A q \in Payments : Change(payment[q], payment'[q], now)
  BY <1>7, SameChange
     DEF DelegatePayment, RedactTerminalPayment, CommitAndUndelegatePayment, vars
<1>8. CASE AdvancePayment(p)
  <2>1. Change(payment[p], Advanced(payment[p], now), now)
    BY <1>8 DEF AdvancePayment, Change
  <2> QED
    BY <1>0, <1>8, <2>1, WriteChange DEF AdvancePayment
<1>9. CASE PaymentCommitLands(p)
  BY <1>9, SameChange DEF PaymentCommitLands
<1> QED
  BY <1>1, <1>2, <1>3, <1>4, <1>5, <1>6, <1>7, <1>8, <1>9 DEF Escrow

LEMMA StepChange ==
    ASSUME TypeOK, LayersAgree, PolicyChosen, [Next]_vars
    PROVE  \A q \in Payments : Change(payment[q], payment'[q], now)
<1>1. CASE Administration
  BY <1>1, SameChange DEF Administration, InitializeConfig, UpdateTimingPolicy, InitializeVault
<1>2. ASSUME NEW u \in Users, Custody(u)
      PROVE  \A q \in Payments : Change(payment[q], payment'[q], now)
  BY <1>2, SameChange DEF Custody, InitializeDeposit, DepositUsdc, WithdrawUsdc,
     DelegateDeposit, CommitAndUndelegateDeposit, DepositCommitLands
<1>3. ASSUME NEW p \in Payments, CrankFires(p)
      PROVE  \A q \in Payments : Change(payment[q], payment'[q], now)
  <2>1. CASE layer[p] = "er" /\ payment[p].initialized
    <3>1. Change(payment[p], Advanced(payment[p], now), now)
      BY <2>1 DEF Change
    <3> QED
      BY <1>3, <2>1, <3>1, WriteChange DEF CrankFires, TypeOK
  <2>2. CASE ~(layer[p] = "er" /\ payment[p].initialized)
    BY <1>3, <2>2, SameChange DEF CrankFires
  <2> QED
    BY <2>1, <2>2
<1>4. CASE Tick \/ UNCHANGED vars
  BY <1>4, SameChange DEF Tick, vars
<1> QED
  BY <1>1, <1>2, <1>3, <1>4, EscrowChange DEF Next

-----------------------------------------------------------------------------
(* What every such change preserves *)

\* The safety of one payment at time t: a shell until opened, and then the
\* clauses of SealedIffPaidOut and UndoWindow.
Sound(pay, t) ==
    /\ ~pay.initialized => pay = Shell(pay.sender, pay.recipient)
    /\ Open(pay) => pay.amount > 0 /\ pay.sender # pay.recipient
    /\ pay.redacted =>
          /\ pay.initialized /\ pay.status \in Terminal
          /\ pay.amount = 0 /\ pay.recipient = NoUser
          /\ pay.created_at = 0 /\ pay.settle_after = 0 /\ pay.expires_at = 0
          /\ pay.terminal_commitment.status = pay.status
          /\ pay.terminal_commitment.amount > 0
    /\ pay.initialized /\ pay.status = "Cancelled" => pay.redacted
    /\ pay.status = "Settled" => t >= Terms(pay).settle_after
    /\ pay.status = "Expired" => t >= Terms(pay).expires_at

\* Sealing erases the terms from the account and keeps them in its commitment.
LEMMA SealedTerms ==
    ASSUME NEW pay \in Payment, ~pay.redacted
    PROVE  Terms(Sealed(pay)) = Terms(pay)
BY DEF Terms, Sealed, Payment

\* What SealedIffPaidOut and UndoWindow ask of an account once it is sealed.
LEMMA SealedSound ==
    ASSUME NEW pay \in Payment, NEW t \in Time, Open(pay), pay.amount > 0,
           pay.status \in Terminal,
           pay.status = "Settled" => t >= pay.settle_after,
           pay.status = "Expired" => t >= pay.expires_at
    PROVE  Sound(Sealed(pay), t)
<1>1. Terms(Sealed(pay)).settle_after = pay.settle_after
      /\ Terms(Sealed(pay)).expires_at = pay.expires_at
  BY DEF Terms, Sealed, Payment, Open
<1>2. /\ Sealed(pay).initialized /\ Sealed(pay).redacted
      /\ Sealed(pay).status = pay.status
      /\ Sealed(pay).amount = 0 /\ Sealed(pay).recipient = NoUser
      /\ Sealed(pay).created_at = 0 /\ Sealed(pay).settle_after = 0
      /\ Sealed(pay).expires_at = 0
      /\ Sealed(pay).terminal_commitment.status = pay.status
      /\ Sealed(pay).terminal_commitment.amount = pay.amount
  BY DEF Sealed, Payment, Open
<1> HIDE DEF Sealed
<1> QED
  BY <1>1, <1>2 DEF Sound, Open

LEMMA ChangeSound ==
    ASSUME NEW old \in Payment, NEW new, NEW t \in Time, Sound(old, t), Change(old, new, t)
    PROVE  Sound(new, t)
<1>1. CASE new = old
  BY <1>1
<1>2. ASSUME NEW s \in Users, NEW r \in Users, new = Shell(s, r)
      PROVE  Sound(new, t)
  BY <1>2 DEF Sound, Shell, Open
<1>3. ASSUME NEW amount \in Word,
             NEW policy \in [exists : BOOLEAN, safety_window : Time, claim_window : Time],
             ~old.redacted, old.sender # old.recipient,
             amount > 0, new = Opened(old, amount, t, policy)
      PROVE  Sound(new, t)
  BY <1>3 DEF Sound, Opened, Open, Payment
<1>4. CASE Open(old) /\ old.status = "Created" /\ new = [old EXCEPT !.status = "Acknowledged"]
  BY <1>4 DEF Sound, Open, Payment
<1>5. CASE Live(old) /\ new = Sealed([old EXCEPT !.status = "Cancelled"])
  <2>1. [old EXCEPT !.status = "Cancelled"] \in Payment
    BY DEF Payment, PaymentStatus
  <2>2. Open([old EXCEPT !.status = "Cancelled"])
    BY <1>5 DEF Live, Open, Payment
  <2>3. old.amount > 0
    BY <1>5 DEF Live, Sound
  <2> QED
    BY <1>5, <2>1, <2>2, <2>3, SealedSound DEF Payment, Terminal
<1>6. CASE old.initialized /\ new = Advanced(old, t)
  <2>1. CASE old.redacted
    BY <1>6, <2>1 DEF Sound, Advanced, Payment, Terminal
  <2>2. CASE ~old.redacted
    BY <1>6, <2>2 DEF Sound, Advanced, Payment, Terminal, Open, Terms
  <2> QED
    BY <2>1, <2>2
<1>7. CASE Open(old) /\ old.status \in {"Settled", "Expired"} /\ new = Sealed(old)
  <2>1. Terms(old).settle_after = old.settle_after /\ Terms(old).expires_at = old.expires_at
    BY <1>7 DEF Terms, Open
  <2> QED
    BY <1>7, <2>1, SealedSound DEF Sound, Terminal
<1>8. CASE Live(old) /\ new = [old EXCEPT !.task_id = 1]
  BY <1>8 DEF Sound, Live, Open, Payment, Terms, Terminal
<1> QED
  BY <1>1, <1>2, <1>3, <1>4, <1>5, <1>6, <1>7, <1>8 DEF Change

LEMMA LaterSound ==
    ASSUME NEW pay \in Payment, NEW t \in Time, NEW u \in Time, t <= u, Sound(pay, t)
    PROVE  Sound(pay, u)
<1>1. Terms(pay).settle_after \in Int /\ Terms(pay).expires_at \in Int
  BY DEF Terms, Payment, Commitment, Time
<1> QED
  BY <1>1 DEF Sound, Time

\* From opening on, a change keeps the terms.
LEMMA ChangeKeepsTerms ==
    ASSUME NEW old \in Payment, NEW new, NEW t \in Time, Sound(old, t), Change(old, new, t),
           old.initialized
    PROVE  Terms(new) = Terms(old)
<1>1. CASE new = old
  BY <1>1
<1>2. CASE Open(old) /\ new = [old EXCEPT !.status = "Acknowledged"]
  BY <1>2 DEF Terms, Open, Payment
<1>3. CASE Live(old) /\ new = Sealed([old EXCEPT !.status = "Cancelled"])
  <2>1. [old EXCEPT !.status = "Cancelled"] \in Payment
    BY DEF Payment, PaymentStatus
  <2>2. Terms([old EXCEPT !.status = "Cancelled"]) = Terms(old)
    BY <1>3 DEF Terms, Payment, Live, Open
  <2> QED
    BY <1>3, <2>1, <2>2, SealedTerms DEF Live, Open, Payment
<1>4. CASE new = Advanced(old, t)
  BY <1>4 DEF Terms, Advanced, Payment
<1>5. CASE Open(old) /\ new = Sealed(old)
  BY <1>5, SealedTerms DEF Open
<1>6. CASE new = [old EXCEPT !.task_id = 1]
  BY <1>6 DEF Terms, Payment
<1> QED
  BY <1>1, <1>2, <1>3, <1>4, <1>5, <1>6 DEF Change

\* From opening on, a change moves the status forward.
LEMMA ChangeMovesForward ==
    ASSUME NEW old \in Payment, NEW new, NEW t \in Time, Sound(old, t), Change(old, new, t),
           old.initialized
    PROVE  /\ new.initialized
           /\ new.status # old.status =>
                 \/ old.status = "Created" /\ new.status \in {"Acknowledged", "Cancelled", "Expired"}
                 \/ old.status = "Acknowledged" /\ new.status \in {"Cancelled", "Settled"}
           /\ old.redacted => new = old
<1>1. CASE new = old
  BY <1>1
<1>2. CASE Open(old) /\ old.status = "Created" /\ new = [old EXCEPT !.status = "Acknowledged"]
  BY <1>2 DEF Open, Payment
<1>3. CASE Live(old) /\ new = Sealed([old EXCEPT !.status = "Cancelled"])
  <2>1. old.status \in {"Created", "Acknowledged"}
    BY <1>3 DEF Live, Terminal, Payment, PaymentStatus
  <2>2. new.status = "Cancelled" /\ new.initialized
    BY <1>3 DEF Sealed, Live, Open, Payment
  <2> QED
    BY <1>3, <2>1, <2>2 DEF Live, Open
<1>4. CASE new = Advanced(old, t)
  <2>1. old.redacted => new = old
    BY <1>4 DEF Advanced, Sound, Terminal, Payment
  <2> QED
    BY <1>4, <2>1 DEF Advanced, Payment
<1>5. CASE Open(old) /\ new = Sealed(old)
  BY <1>5 DEF Open, Sealed, Payment
<1>6. CASE Live(old) /\ new = [old EXCEPT !.task_id = 1]
  BY <1>6 DEF Live, Open, Payment
<1> QED
  BY <1>1, <1>2, <1>3, <1>4, <1>5, <1>6 DEF Change

\* A recipient is a user until sealing erases it.
LEMMA ChangeKeepsRecipient ==
    ASSUME NEW old \in Payment, NEW new, NEW t \in Time, Change(old, new, t),
           old.redacted \/ old.recipient \in Users
    PROVE  new.redacted \/ new.recipient \in Users
<1>1. CASE \E s, r \in Users : new = Shell(s, r)
  BY <1>1 DEF Shell
<1>2. CASE new = Sealed([old EXCEPT !.status = "Cancelled"]) \/ new = Sealed(old)
  BY <1>2 DEF Sealed, Payment
<1>3. CASE \E amount, policy : new = Opened(old, amount, t, policy)
  BY <1>3 DEF Opened, Payment
<1>4. CASE \/ new = old \/ new = Advanced(old, t) \/ new = [old EXCEPT !.task_id = 1]
           \/ new = [old EXCEPT !.status = "Acknowledged"]
  BY <1>4 DEF Advanced, Payment
<1> QED
  BY <1>1, <1>2, <1>3, <1>4 DEF Change

-----------------------------------------------------------------------------
(* Where the accounts live, and what the base chain shows of them *)

\* The clauses of LayersAgree and PublicCopyHidesTerms about one payment.
Placed(pay, copy, where) ==
    /\ where \in OnBase => copy = pay
    /\ where \in {"returning", "returned"} => pay.redacted
    /\ where = "absent" => ~pay.initialized
    /\ where # "absent" => pay.redacted \/ pay.recipient \in Users
    /\ where \notin {"absent", "base"} =>
          /\ copy.amount = 0 /\ copy.expires_at = 0
          /\ copy.status # "Created" => copy.redacted

AllSound == \A p \in Payments : Sound(payment[p], now)
AllPlaced == \A p \in Payments : Placed(payment[p], published[p], layer[p])

NothingInAbsent ==
    \A u \in Users : deposit[u].layer = "absent" => deposit[u].available = 0

IInv == TypeOK /\ AllSound /\ AllPlaced /\ NothingInAbsent /\ PolicyChosen

LEMMA IInvLayers == IInv => LayersAgree
BY DEF IInv, AllSound, AllPlaced, Sound, Placed, LayersAgree

LEMMA WritePlaced ==
    ASSUME IInv, NEW p \in Payments, NEW pay, Write(p, pay),
           Change(payment[p], pay, now), layer[p] \in Runtimes, layer' = layer
    PROVE  AllPlaced'
<1>0. /\ payment \in [Payments -> Payment] /\ published \in [Payments -> Payment]
      /\ now \in Time /\ Sound(payment[p], now)
      /\ Placed(payment[p], published[p], layer[p])
  BY DEF IInv, TypeOK, AllSound, AllPlaced
<1>1. ASSUME NEW q \in Payments, q # p
      PROVE  Placed(payment[q], published[q], layer[q])'
  <2>1. payment'[q] = payment[q] /\ published'[q] = published[q]
    BY <1>0, <1>1 DEF Write
  <2> QED
    BY <2>1 DEF IInv, AllPlaced
<1>2. payment'[p] = pay
  BY <1>0 DEF Write
<1>3. pay.redacted \/ pay.recipient \in Users
  BY <1>0, ChangeKeepsRecipient DEF Placed, Runtimes, OnBase
<1>4. CASE layer[p] = "er"
  <2>1. published' = published
    BY <1>4 DEF Write
  <2> QED
    BY <1>0, <1>1, <1>2, <1>4, <1>3, <2>1 DEF Placed, AllPlaced, OnBase
<1>5. CASE layer[p] \in OnBase
  <2>1. published'[p] = pay
    BY <1>0, <1>5 DEF Write, OnBase
  <2>2. layer[p] = "returned" => pay = payment[p]
    BY <1>0, ChangeMovesForward DEF Placed, Sound
  <2>3. Placed(payment[p], published[p], layer[p])'
    BY <1>0, <1>2, <1>5, <1>3, <2>1, <2>2 DEF Placed, OnBase
  <2> QED
    BY <1>1, <2>3 DEF AllPlaced
<1> QED
  BY <1>4, <1>5 DEF Runtimes

LEMMA SamePlaced ==
    ASSUME IInv, UNCHANGED <<payment, published, layer>>
    PROVE  AllPlaced'
BY DEF IInv, AllPlaced

\* The actions of Escrow that write the account where it lives.
InPlace(p) ==
    \/ \E actor \in Users :
          \/ \E amount \in Amounts : OpenPayment(p, actor, amount)
          \/ AcknowledgePayment(p, actor) \/ CancelPayment(p, actor)
          \/ ClaimPayment(p, actor) \/ SchedulePayment(p, actor)
    \/ AdvancePayment(p)

LEMMA InPlaceWrites ==
    ASSUME IInv, NEW p \in Payments, InPlace(p)
    PROVE  /\ layer[p] \in Runtimes /\ layer' = layer
           /\ \E pay : Write(p, pay) /\ Change(payment[p], pay, now)
<1>1. \A pay : Write(p, pay) /\ layer' = layer =>
                 payment'[p] = pay
  BY DEF Write, IInv, TypeOK
<1>2. layer[p] \in Runtimes /\ layer' = layer
  BY DEF InPlace, OpenPayment, AcknowledgePayment, CancelPayment, ClaimPayment, SchedulePayment,
         AdvancePayment, Together, Runtimes, OnBase
<1>3. \E pay : Write(p, pay)
  BY DEF InPlace, OpenPayment, AcknowledgePayment, CancelPayment, ClaimPayment, SchedulePayment,
         AdvancePayment
<1>4. Escrow(p)
  BY DEF InPlace, Escrow
<1>5. Change(payment[p], payment'[p], now)
  BY <1>4, EscrowChange, IInvLayers DEF IInv
<1> QED
  BY <1>1, <1>2, <1>3, <1>5

LEMMA EscrowPlaced ==
    ASSUME IInv, NEW p \in Payments, Escrow(p)
    PROVE  AllPlaced'
<1>0. /\ payment \in [Payments -> Payment] /\ published \in [Payments -> Payment]
      /\ layer \in [Payments -> PaymentLayer]
      /\ Sound(payment[p], now) /\ Placed(payment[p], published[p], layer[p])
  BY DEF IInv, TypeOK, AllSound, AllPlaced
<1>1. ASSUME NEW actor \in Users, NEW recipient \in Party,
             PreparePayment(p, actor, recipient)
      PROVE  AllPlaced'
  <2>1. /\ payment'[p] = Shell(actor, recipient) /\ published'[p] = Shell(actor, recipient)
        /\ layer'[p] = "base"
    BY <1>0, <1>1 DEF PreparePayment
  <2>2. Placed(payment[p], published[p], layer[p])'
    BY <1>1, <2>1 DEF PreparePayment, Placed, Shell, Party, OnBase
  <2>3. ASSUME NEW q \in Payments, q # p
        PROVE  Placed(payment[q], published[q], layer[q])'
    <3>1. payment'[q] = payment[q] /\ published'[q] = published[q] /\ layer'[q] = layer[q]
      BY <1>0, <1>1, <2>3 DEF PreparePayment
    <3> QED
      BY <3>1 DEF IInv, AllPlaced
  <2> QED
    BY <2>2, <2>3 DEF AllPlaced
<1>2. ASSUME NEW actor \in Users,
             DelegatePayment(p, actor) \/ CommitAndUndelegatePayment(p, actor)
      PROVE  AllPlaced'
  <2>1. /\ payment' = payment /\ published' = published
        /\ layer' = [layer EXCEPT ![p] = layer'[p]]
    BY <1>0, <1>2 DEF DelegatePayment, CommitAndUndelegatePayment
  <2>2. ASSUME NEW q \in Payments, q # p
        PROVE  Placed(payment[q], published[q], layer[q])'
    BY <1>0, <2>2, <2>1 DEF IInv, AllPlaced
  <2>3. CASE DelegatePayment(p, actor)
    <3>1. published[p] = Shell(payment[p].sender, payment[p].recipient)
      BY <1>0, <2>3 DEF DelegatePayment, Placed, Sound
    <3>2. /\ layer'[p] = "er"
          /\ payment[p].redacted \/ payment[p].recipient \in Users
      BY <1>0, <2>3 DEF DelegatePayment, Placed, OnBase
    <3>3. Placed(payment[p], published[p], layer[p])'
      BY <2>1, <3>1, <3>2 DEF Placed, Shell, OnBase
    <3> QED
      BY <2>2, <3>3 DEF AllPlaced
  <2>4. CASE CommitAndUndelegatePayment(p, actor)
    <3>1. layer'[p] = "returning" /\ layer[p] = "er" /\ payment[p].redacted
      BY <1>0, <2>4 DEF CommitAndUndelegatePayment
    <3>2. Placed(payment[p], published[p], layer[p])'
      BY <1>0, <2>1, <3>1 DEF Placed, OnBase
    <3> QED
      BY <2>2, <3>2 DEF AllPlaced
  <2> QED
    BY <1>2, <2>3, <2>4
<1>3. ASSUME NEW actor \in Users, RedactTerminalPayment(p, actor)
      PROVE  AllPlaced'
  BY <1>3, SamePlaced DEF RedactTerminalPayment, vars
<1>4. CASE PaymentCommitLands(p)
  <2>1. /\ payment' = payment /\ published' = [published EXCEPT ![p] = payment[p]]
        /\ layer' = [layer EXCEPT ![p] = "returned"] /\ payment[p].redacted
    BY <1>0, <1>4 DEF PaymentCommitLands, Placed
  <2>2. payment[p].amount = 0 /\ payment[p].expires_at = 0
    BY <1>0, <2>1 DEF Sound
  <2>3. Placed(payment[p], published[p], layer[p])'
    BY <1>0, <2>1, <2>2 DEF Placed
  <2>4. ASSUME NEW q \in Payments, q # p
        PROVE  Placed(payment[q], published[q], layer[q])'
    BY <1>0, <2>1, <2>4 DEF IInv, AllPlaced
  <2> QED
    BY <2>3, <2>4 DEF AllPlaced
<1>5. CASE InPlace(p)
  BY <1>5, InPlaceWrites, WritePlaced
<1> QED
  BY <1>1, <1>2, <1>3, <1>4, <1>5 DEF Escrow, InPlace

-----------------------------------------------------------------------------
(* The inductive invariant, and the safety theorems *)

LEMMA InitIInv == Init => IInv
<1> SUFFICES ASSUME Init PROVE IInv
  OBVIOUS
<1>1. TypeOK
  BY InitType
<1>2. ASSUME NEW p \in Payments
      PROVE  Sound(payment[p], now) /\ Placed(payment[p], published[p], layer[p])
  <2>1. payment[p] = NoPayment /\ published[p] = NoPayment /\ layer[p] = "absent"
    BY <1>2 DEF Init
  <2> QED
    BY <2>1 DEF NoPayment, Shell, Sound, Placed, Open, OnBase
<1>3. NothingInAbsent
  BY DEF Init, NoDeposit, NothingInAbsent
<1>4. PolicyChosen
  BY DEF Init, PolicyChosen
<1> QED
  BY <1>1, <1>2, <1>3, <1>4 DEF IInv, AllSound, AllPlaced

LEMMA StepPlaced == IInv /\ [Next]_vars => AllPlaced'
<1> SUFFICES ASSUME IInv, [Next]_vars PROVE AllPlaced'
  OBVIOUS
<1>1. CASE Administration
  BY <1>1, SamePlaced DEF Administration, InitializeConfig, UpdateTimingPolicy, InitializeVault
<1>2. ASSUME NEW u \in Users, Custody(u)
      PROVE  AllPlaced'
  BY <1>2, SamePlaced DEF Custody, InitializeDeposit, DepositUsdc, WithdrawUsdc,
     DelegateDeposit, CommitAndUndelegateDeposit, DepositCommitLands
<1>3. ASSUME NEW p \in Payments, CrankFires(p)
      PROVE  AllPlaced'
  <2>1. CASE layer[p] = "er" /\ payment[p].initialized
    <3>1. Change(payment[p], Advanced(payment[p], now), now)
      BY <2>1 DEF Change
    <3> QED
      BY <1>3, <2>1, <3>1, WritePlaced DEF CrankFires, Runtimes
  <2>2. CASE ~(layer[p] = "er" /\ payment[p].initialized)
    BY <1>3, <2>2, SamePlaced DEF CrankFires
  <2> QED
    BY <2>1, <2>2
<1>4. CASE Tick \/ UNCHANGED vars
  BY <1>4, SamePlaced DEF Tick, vars
<1> QED
  BY <1>1, <1>2, <1>3, <1>4, EscrowPlaced DEF Next

LEMMA StepAbsent == IInv /\ [Next]_vars => NothingInAbsent'
<1> SUFFICES ASSUME IInv, [Next]_vars PROVE NothingInAbsent'
  OBVIOUS
<1>0. TypeOK /\ NothingInAbsent
  BY DEF IInv
<1>1. CASE UNCHANGED deposit
  BY <1>0, <1>1 DEF NothingInAbsent
<1>2. ASSUME NEW u \in Users, Custody(u)
      PROVE  NothingInAbsent'
  <2>1. deposit'[u].layer # "absent"
    <3>1. CASE InitializeDeposit(u)
      BY <1>0, <3>1 DEF TypeOK, InitializeDeposit, NoDeposit
    <3>2. ASSUME NEW amount \in Amounts, DepositUsdc(u, amount) \/ WithdrawUsdc(u, amount)
          PROVE  deposit'[u].layer # "absent"
      BY <1>0, <3>2 DEF TypeOK, DepositUsdc, WithdrawUsdc
    <3>3. CASE DelegateDeposit(u) \/ CommitAndUndelegateDeposit(u) \/ DepositCommitLands(u)
      BY <1>0, <3>3
         DEF TypeOK, DelegateDeposit, CommitAndUndelegateDeposit, DepositCommitLands
    <3> QED
      BY <1>2, <3>1, <3>2, <3>3 DEF Custody
  <2>2. \A v \in Users : v # u => deposit'[v] = deposit[v]
    BY <1>0, <1>2 DEF TypeOK, Custody, InitializeDeposit, DepositUsdc, WithdrawUsdc,
       DelegateDeposit, CommitAndUndelegateDeposit, DepositCommitLands
  <2> QED
    BY <1>0, <2>1, <2>2 DEF NothingInAbsent
<1>3. ASSUME NEW p \in Payments, NEW actor \in Users,
             \/ \E amount \in Amounts : OpenPayment(p, actor, amount)
             \/ CancelPayment(p, actor) \/ ClaimPayment(p, actor)
      PROVE  NothingInAbsent'
  <2>1. deposit[actor].layer # "absent"
    BY <1>3 DEF OpenPayment, CancelPayment, ClaimPayment, Together
  <2>2. deposit'[actor].layer = deposit[actor].layer
    <3>1. ASSUME NEW amount \in Amounts, OpenPayment(p, actor, amount)
          PROVE  deposit'[actor].layer = deposit[actor].layer
      BY <1>0, <3>1 DEF TypeOK, OpenPayment
    <3>2. CASE CancelPayment(p, actor)
      BY <1>0, <3>2 DEF TypeOK, CancelPayment
    <3>3. CASE ClaimPayment(p, actor)
      BY <1>0, <3>3 DEF TypeOK, ClaimPayment
    <3> QED
      BY <1>3, <3>1, <3>2, <3>3
  <2>3. \A v \in Users : v # actor => deposit'[v] = deposit[v]
    BY <1>0, <1>3 DEF TypeOK, OpenPayment, CancelPayment, ClaimPayment
  <2> QED
    BY <1>0, <2>1, <2>2, <2>3 DEF NothingInAbsent
<1>4. CASE Administration \/ Tick \/ UNCHANGED vars
  BY <1>1, <1>4 DEF Administration, InitializeConfig, UpdateTimingPolicy, InitializeVault,
     Tick, vars, money
<1>5. ASSUME NEW p \in Payments, Escrow(p) \/ CrankFires(p)
      PROVE  NothingInAbsent'
  BY <1>1, <1>3, <1>5 DEF Escrow, CrankFires, PreparePayment, DelegatePayment,
     AcknowledgePayment, SchedulePayment, AdvancePayment,
     RedactTerminalPayment, CommitAndUndelegatePayment, PaymentCommitLands, vars, money
<1> QED
  BY <1>2, <1>4, <1>5 DEF Next

LEMMA StepPolicy == IInv /\ [Next]_vars => PolicyChosen'
<1> SUFFICES ASSUME IInv, [Next]_vars PROVE PolicyChosen'
  OBVIOUS
<1>1. CASE UNCHANGED config
  BY <1>1 DEF IInv, PolicyChosen
<1>2. ASSUME NEW safety \in Windows, NEW claim \in Windows,
             InitializeConfig(safety, claim) \/ UpdateTimingPolicy(safety, claim)
      PROVE  PolicyChosen'
  BY <1>2 DEF InitializeConfig, UpdateTimingPolicy, PolicyChosen
<1>3. ASSUME NEW u \in Users, Custody(u)
      PROVE  PolicyChosen'
  BY <1>1, <1>3 DEF Custody, InitializeDeposit, DepositUsdc, WithdrawUsdc,
     DelegateDeposit, CommitAndUndelegateDeposit, DepositCommitLands
<1>4. ASSUME NEW p \in Payments, Escrow(p) \/ CrankFires(p)
      PROVE  PolicyChosen'
  BY <1>1, <1>4 DEF Escrow, CrankFires, PreparePayment, DelegatePayment, OpenPayment,
     AcknowledgePayment, CancelPayment, ClaimPayment, SchedulePayment, AdvancePayment,
     RedactTerminalPayment, CommitAndUndelegatePayment, PaymentCommitLands, vars
<1>5. CASE InitializeVault \/ Tick \/ UNCHANGED vars
  BY <1>1, <1>5 DEF InitializeVault, Tick, vars
<1> QED
  BY <1>2, <1>3, <1>4, <1>5 DEF Next, Administration

LEMMA ClockMovesOn == TypeOK /\ [Next]_vars => now <= now'
<1> SUFFICES ASSUME TypeOK, [Next]_vars PROVE now <= now'
  OBVIOUS
<1>0. now \in Int
  BY DEF TypeOK, Time
<1>1. CASE Tick
  BY <1>0, <1>1 DEF Tick
<1>2. CASE Administration \/ UNCHANGED vars
  <2>1. now' = now
    BY <1>2 DEF Administration, InitializeConfig, UpdateTimingPolicy, InitializeVault, vars
  <2> QED
    BY <1>0, <2>1
<1>3. ASSUME NEW u \in Users, Custody(u)
      PROVE  now <= now'
  <2>1. now' = now
    BY <1>3 DEF Custody, InitializeDeposit, DepositUsdc, WithdrawUsdc,
       DelegateDeposit, CommitAndUndelegateDeposit, DepositCommitLands
  <2> QED
    BY <1>0, <2>1
<1>4. ASSUME NEW p \in Payments, Escrow(p) \/ CrankFires(p)
      PROVE  now <= now'
  <2>1. now' = now
    BY <1>4 DEF Escrow, CrankFires, PreparePayment, DelegatePayment, OpenPayment,
       AcknowledgePayment, CancelPayment, ClaimPayment, SchedulePayment, AdvancePayment,
       RedactTerminalPayment, CommitAndUndelegatePayment, PaymentCommitLands, vars
  <2> QED
    BY <1>0, <2>1
<1> QED
  BY <1>1, <1>2, <1>3, <1>4 DEF Next

LEMMA StepIInv == IInv /\ [Next]_vars => IInv'
<1> SUFFICES ASSUME IInv, [Next]_vars PROVE IInv'
  OBVIOUS
<1>1. TypeOK /\ TypeOK'
  BY StepType DEF IInv
<1>2. now \in Time /\ now' \in Time /\ now <= now'
  BY <1>1, ClockMovesOn DEF TypeOK
<1>3. ASSUME NEW p \in Payments
      PROVE  Sound(payment'[p], now')
  <2>1. payment[p] \in Payment /\ payment'[p] \in Payment
    BY <1>1 DEF TypeOK
  <2>2. Change(payment[p], payment'[p], now)
    BY IInvLayers, StepChange DEF IInv
  <2>3. Sound(payment'[p], now)
    BY <1>2, <2>1, <2>2, ChangeSound DEF IInv, AllSound
  <2> QED
    BY <1>2, <2>1, <2>3, LaterSound
<1> QED
  BY <1>1, <1>3, StepPlaced, StepAbsent, StepPolicy DEF IInv, AllSound

THEOREM InvariantHolds == Spec => []IInv
BY InitIInv, StepIInv, PTL DEF Spec

\* An account is sealed exactly when its funds have been paid out of it, in every
\* order of cancel, claim, advance and Crank calls (seal_terminal).
THEOREM SealedMeansPaidOut == Spec => []SealedIffPaidOut
<1>1. IInv => SealedIffPaidOut
  BY DEF IInv, AllSound, Sound, SealedIffPaidOut
<1> QED
  BY <1>1, InvariantHolds, PTL

\* No payment is final before its settle_after and none lapses before its
\* expires_at, for any policy and any caller of advance_payment.
THEOREM UndoWindowKept == Spec => []UndoWindow
<1>1. IInv => UndoWindow
  BY DEF IInv, AllSound, Sound, UndoWindow
<1> QED
  BY <1>1, InvariantHolds, PTL

\* The base chain never shows the amount, the deadlines or the live status of a
\* payment that was delegated.
THEOREM PublicCopyIsEmpty == Spec => []PublicCopyHidesTerms
<1>1. IInv => PublicCopyHidesTerms
  BY DEF IInv, AllPlaced, Placed, PublicCopyHidesTerms
<1> QED
  BY <1>1, InvariantHolds, PTL

\* Where an account lives always agrees with what it holds.
THEOREM LayersAlwaysAgree == Spec => []LayersAgree
BY IInvLayers, InvariantHolds, PTL

\* No step changes the terms of an opened payment, and the commitment of a sealed
\* one keeps them for ever.
THEOREM TermsKept == Spec => TermsNeverChange
<1>1. IInv /\ [Next]_vars =>
         [\A p \in Payments :
             payment[p].initialized => Terms(payment'[p]) = Terms(payment[p])]_vars
  <2> SUFFICES ASSUME IInv, [Next]_vars, NEW p \in Payments, payment[p].initialized
               PROVE  Terms(payment'[p]) = Terms(payment[p])
    OBVIOUS
  <2>1. payment[p] \in Payment /\ now \in Time /\ Sound(payment[p], now)
    BY DEF IInv, TypeOK, AllSound
  <2>2. Change(payment[p], payment'[p], now)
    BY IInvLayers, StepChange DEF IInv
  <2> QED
    BY <2>1, <2>2, ChangeKeepsTerms
<1> QED
  BY <1>1, InvariantHolds, PTL DEF Spec, TermsNeverChange

\* The status of an opened payment only moves forward, and a sealed account is
\* never written again.
THEOREM StatusForward == Spec => StatusMovesForward
<1>1. IInv /\ [Next]_vars =>
         [\A p \in Payments : payment[p].initialized =>
            LET from == payment[p].status  to == payment'[p].status IN
            /\ payment'[p].initialized
            /\ to # from => \/ from = "Created" /\ to \in {"Acknowledged", "Cancelled", "Expired"}
                            \/ from = "Acknowledged" /\ to \in {"Cancelled", "Settled"}
            /\ payment[p].redacted => payment'[p] = payment[p]]_vars
  <2> SUFFICES ASSUME IInv, [Next]_vars, NEW p \in Payments, payment[p].initialized
               PROVE  LET from == payment[p].status  to == payment'[p].status IN
            /\ payment'[p].initialized
            /\ to # from => \/ from = "Created" /\ to \in {"Acknowledged", "Cancelled", "Expired"}
                            \/ from = "Acknowledged" /\ to \in {"Cancelled", "Settled"}
            /\ payment[p].redacted => payment'[p] = payment[p]
    OBVIOUS
  <2>1. payment[p] \in Payment /\ now \in Time /\ Sound(payment[p], now)
    BY DEF IInv, TypeOK, AllSound
  <2>2. Change(payment[p], payment'[p], now)
    BY IInvLayers, StepChange DEF IInv
  <2> QED
    BY <2>1, <2>2, ChangeMovesForward
<1> QED
  BY <1>1, InvariantHolds, PTL DEF Spec, StatusMovesForward
=============================================================================
