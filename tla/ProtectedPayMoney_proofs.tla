---------------------- MODULE ProtectedPayMoney_proofs ----------------------
(***************************************************************************)
(* No USDC is created, lost or misdirected: Conservation, AccountsBalance  *)
(* and EveryoneCanBePaid, for any finite sets of users and payments.       *)
(*                                                                         *)
(* Every step moves an amount at one user and at most one payment:         *)
(* between wallet and Deposit (Moved), or between Deposit and payment      *)
(* (Shifted).  The sums over all users and payments follow from what such  *)
(* a step does at that user and that payment (FiniteSums).                 *)
(***************************************************************************)
EXTENDS ProtectedPay_proofs, FiniteSums

-----------------------------------------------------------------------------
(* What one payment is worth to a user *)

\* What u has put into a payment and not got back from it.
Worth(pay, u) == Held(pay, u) + Took(pay, u) - Brought(pay, u)

\* A payment pays d out to u (or, if d is negative, is funded by u).
Shift(old, new, u, d) ==
    /\ new.amount = old.amount - d
    /\ \A v \in Users : Worth(new, v) = Worth(old, v) - (IF v = u THEN d ELSE 0)

LEMMA WorthType ==
    ASSUME NEW pay \in Payment, NEW u
    PROVE  /\ Held(pay, u) \in Nat /\ Took(pay, u) \in Nat /\ Brought(pay, u) \in Nat
           /\ Worth(pay, u) \in Int
<1>1. pay.amount \in Nat /\ Terms(pay).amount \in Nat
  BY WidthAssumption DEF Payment, Commitment, Terms, Word
<1> QED
  BY <1>1 DEF Held, Took, Brought, Worth

\* An account that is not sealed holds its amount for its sender.
LEMMA WorthOpen ==
    ASSUME NEW pay \in Payment, ~pay.redacted, NEW u
    PROVE  Worth(pay, u) = IF pay.sender = u THEN pay.amount ELSE 0
<1>1. pay.amount \in Nat
  BY WidthAssumption DEF Payment, Word
<1> QED
  BY <1>1 DEF Worth, Held, Took, Brought, PaidOut

\* A sealed one has paid: back to the sender, or, if it settled, to the recipient.
LEMMA WorthSealed ==
    ASSUME NEW pay \in Payment, ~pay.redacted, NEW u
    PROVE  Worth(Sealed(pay), u) =
              IF pay.status = "Settled"
              THEN (IF pay.sender = u THEN pay.amount ELSE 0)
                   - (IF pay.recipient = u THEN pay.amount ELSE 0)
              ELSE 0
<1> DEFINE new == Sealed(pay)
<1>1. /\ new.amount = 0 /\ new.redacted /\ new.status = pay.status
      /\ Terms(new).sender = pay.sender /\ Terms(new).recipient = pay.recipient
      /\ Terms(new).amount = pay.amount
  BY DEF Sealed, Payment, Terms
<1>2. pay.amount \in Nat
  BY WidthAssumption DEF Payment, Word
<1> HIDE DEF new
<1>3. /\ Held(new, u) = 0
      /\ Took(new, u) = IF pay.status = "Settled" /\ pay.sender = u THEN pay.amount ELSE 0
      /\ Brought(new, u) = IF pay.status = "Settled" /\ pay.recipient = u THEN pay.amount ELSE 0
  BY <1>1 DEF Held, Took, Brought, PaidOut
<1> QED
  BY <1>2, <1>3 DEF Worth, new

\* Nothing is shifted between two unsealed accounts of the same sender and amount.
LEMMA SameShift ==
    ASSUME NEW old \in Payment, NEW new \in Payment, ~old.redacted, ~new.redacted,
           new.amount = old.amount, new.sender = old.sender \/ old.amount = 0
    PROVE  Shift(old, new, NoUser, 0)
<1>1. old.amount \in Nat
  BY WidthAssumption DEF Payment, Word
<1> QED
  BY <1>1, WorthOpen DEF Shift

LEMMA OpenShift ==
    ASSUME NEW old \in Payment, ~old.redacted, old.amount = 0,
           NEW new \in Payment, ~new.redacted, new.sender = old.sender
    PROVE  Shift(old, new, old.sender, -new.amount)
<1>1. new.amount \in Nat
  BY WidthAssumption DEF Payment, Word
<1> QED
  BY <1>1, WorthOpen DEF Shift

LEMMA CancelShift ==
    ASSUME NEW old \in Payment, Open(old)
    PROVE  Shift(old, Sealed([old EXCEPT !.status = "Cancelled"]), old.sender, old.amount)
<1> DEFINE undone == [old EXCEPT !.status = "Cancelled"]
<1>1. /\ undone \in Payment /\ ~undone.redacted /\ undone.status = "Cancelled"
      /\ ~old.redacted /\ old.amount \in Nat
  BY WidthAssumption DEF Payment, PaymentStatus, Open, Word
<1>2. Sealed(undone).amount = 0
  BY <1>1 DEF Sealed, Payment
<1> HIDE DEF undone
<1>3. \A v : Worth(Sealed(undone), v) = 0
  BY <1>1, WorthSealed
<1>4. Shift(old, Sealed(undone), old.sender, old.amount)
  BY <1>1, <1>2, <1>3, WorthOpen DEF Shift
<1> QED
  BY <1>4 DEF undone

LEMMA ClaimShift ==
    ASSUME NEW old \in Payment, Open(old), old.sender # old.recipient,
           NEW actor \in Users, Claimant(old) = actor
    PROVE  Shift(old, Sealed(old), actor, old.amount)
<1>1. ~old.redacted /\ old.amount \in Nat
  BY WidthAssumption DEF Payment, Open, Word
<1>2. Sealed(old).amount = 0
  BY DEF Sealed, Payment
<1>3. \/ old.status = "Settled" /\ old.recipient = actor
      \/ old.status = "Expired" /\ old.sender = actor
  BY NoUserAssumption DEF Claimant
<1>4. ASSUME NEW v \in Users
      PROVE  Worth(Sealed(old), v) = Worth(old, v) - (IF v = actor THEN old.amount ELSE 0)
  <2>1. CASE old.status = "Settled" /\ old.recipient = actor
    BY <1>1, <2>1, WorthOpen, WorthSealed
  <2>2. CASE old.status = "Expired" /\ old.sender = actor
    BY <1>1, <2>2, WorthOpen, WorthSealed
  <2> QED
    BY <1>3, <2>1, <2>2
<1> QED
  BY <1>1, <1>2, <1>4 DEF Shift

\* Nothing is shifted where nothing changes.
LEMMA NoShift ==
    ASSUME NEW old \in Payment
    PROVE  Shift(old, old, NoUser, 0)
<1>1. old.amount \in Int
  BY WidthAssumption DEF Payment, Word
<1> QED
  BY <1>1, WorthType DEF Shift

LEMMA AdvanceShift ==
    ASSUME NEW old \in Payment, NEW t \in Time, Sound(old, t)
    PROVE  Shift(old, Advanced(old, t), NoUser, 0)
<1>1. CASE old.redacted
  <2>1. Advanced(old, t) = old
    BY <1>1 DEF Advanced, Sound, Terminal, Payment
  <2> QED
    BY <2>1, NoShift
<1>2. CASE ~old.redacted
  <2>1. /\ Advanced(old, t) \in Payment /\ ~Advanced(old, t).redacted
        /\ Advanced(old, t).amount = old.amount /\ Advanced(old, t).sender = old.sender
    BY <1>2, AdvancedType DEF Advanced, Payment
  <2> QED
    BY <1>2, <2>1, SameShift
<1> QED
  BY <1>1, <1>2

-----------------------------------------------------------------------------
(* What one step does to the money *)

\* u moves d from the wallet to the Deposit, through the vault.
Moved(u, d) ==
    /\ d \in Int
    /\ u \in Users \/ d = 0
    /\ vault'.total_liability = vault.total_liability + d
    /\ vault'.tokens = vault.tokens + d
    /\ vault'.exists \/ vault' = vault
    /\ \A v \in Users :
          /\ wallet'[v] = wallet[v] - (IF v = u THEN d ELSE 0)
          /\ deposit'[v].available = deposit[v].available + (IF v = u THEN d ELSE 0)
    /\ payment' = payment

\* u receives d from payment p into the Deposit, or funds p with -d.
Shifted(p, u, d) ==
    /\ d \in Int
    /\ u \in Users \/ d = 0
    /\ vault' = vault /\ wallet' = wallet
    /\ \A v \in Users :
          deposit'[v].available = deposit[v].available + (IF v = u THEN d ELSE 0)
    /\ Shift(payment[p], payment'[p], u, d)
    /\ \A q \in Payments \ {p} : payment'[q] = payment[q]

\* The vault's books are empty until it exists.
Unopened == ~vault.exists => vault.total_liability = 0 /\ vault.tokens = 0

LEMMA SameMoved ==
    ASSUME TypeOK, UNCHANGED <<vault, wallet, payment>>,
           \A v \in Users : deposit'[v].available = deposit[v].available
    PROVE  Moved(NoUser, 0)
<1>1. /\ vault.total_liability \in Int /\ vault.tokens \in Int
      /\ \A v \in Users : wallet[v] \in Int /\ deposit[v].available \in Int
  BY WidthAssumption DEF TypeOK, Word
<1> QED
  BY <1>1, NoUserAssumption DEF Moved

LEMMA AdministrationMoves ==
    ASSUME TypeOK, Unopened, Administration
    PROVE  Moved(NoUser, 0)
<1>1. ASSUME NEW safety \in Windows, NEW claim \in Windows,
             InitializeConfig(safety, claim) \/ UpdateTimingPolicy(safety, claim)
      PROVE  Moved(NoUser, 0)
  BY <1>1, SameMoved DEF InitializeConfig, UpdateTimingPolicy, money
<1>2. CASE InitializeVault
  <2>1. \A v \in Users : wallet[v] \in Int /\ deposit[v].available \in Int
    BY WidthAssumption DEF TypeOK, Word
  <2> QED
    BY <1>2, <2>1 DEF InitializeVault, Moved, Unopened
<1> QED
  BY <1>1, <1>2 DEF Administration

LEMMA CustodyMoves ==
    ASSUME TypeOK, NothingInAbsent, NEW u \in Users, Custody(u)
    PROVE  \E v, d : Moved(v, d)
<1>0. /\ vault.total_liability \in Int /\ vault.tokens \in Int
      /\ \A v \in Users : wallet[v] \in Int /\ deposit[v].available \in Int
      /\ Amounts \subseteq Int
  BY WidthAssumption, InputAssumption DEF TypeOK, Word
<1>1. CASE InitializeDeposit(u)
  <2>1. \A v \in Users : deposit'[v].available = deposit[v].available
    BY <1>1 DEF InitializeDeposit, NoDeposit, TypeOK, NothingInAbsent
  <2> QED
    BY <1>1, <2>1, SameMoved DEF InitializeDeposit
<1>2. ASSUME NEW amount \in Amounts, DepositUsdc(u, amount)
      PROVE  Moved(u, amount)
  <2>1. \A v \in Users :
          /\ wallet'[v] = wallet[v] - (IF v = u THEN amount ELSE 0)
          /\ deposit'[v].available = deposit[v].available + (IF v = u THEN amount ELSE 0)
    BY <1>0, <1>2 DEF DepositUsdc, TypeOK
  <2> QED
    BY <1>0, <1>2, <2>1 DEF DepositUsdc, TypeOK, Moved
<1>3. ASSUME NEW amount \in Amounts, WithdrawUsdc(u, amount)
      PROVE  Moved(u, -amount)
  <2>1. \A v \in Users :
          /\ wallet'[v] = wallet[v] - (IF v = u THEN -amount ELSE 0)
          /\ deposit'[v].available = deposit[v].available + (IF v = u THEN -amount ELSE 0)
    BY <1>0, <1>3 DEF WithdrawUsdc, TypeOK
  <2> QED
    BY <1>0, <1>3, <2>1 DEF WithdrawUsdc, TypeOK, Moved
<1>4. CASE DelegateDeposit(u) \/ CommitAndUndelegateDeposit(u) \/ DepositCommitLands(u)
  <2>1. \A v \in Users : deposit'[v].available = deposit[v].available
    BY <1>4 DEF DelegateDeposit, CommitAndUndelegateDeposit, DepositCommitLands, TypeOK
  <2> QED
    BY <1>4, <2>1, SameMoved
       DEF DelegateDeposit, CommitAndUndelegateDeposit, DepositCommitLands
<1> QED
  BY <1>1, <1>2, <1>3, <1>4 DEF Custody

\* An instruction that writes payment p, and the Deposit of u by d.
LEMMA WriteShifted ==
    ASSUME TypeOK, NEW p \in Payments, NEW pay, Write(p, pay), NEW u, NEW d \in Int,
           u \in Users \/ d = 0, UNCHANGED <<vault, wallet>>,
           \A v \in Users :
              deposit'[v].available = deposit[v].available + (IF v = u THEN d ELSE 0),
           Shift(payment[p], pay, u, d)
    PROVE  Shifted(p, u, d)
<1>1. payment'[p] = pay /\ \A q \in Payments \ {p} : payment'[q] = payment[q]
  BY DEF TypeOK, Write
<1> QED
  BY <1>1 DEF Shifted

LEMMA QuietWriteShifted ==
    ASSUME TypeOK, NEW p \in Payments, NEW pay, Write(p, pay), UNCHANGED money,
           Shift(payment[p], pay, NoUser, 0)
    PROVE  Shifted(p, NoUser, 0)
<1>1. \A v \in Users :
         deposit'[v].available = deposit[v].available + (IF v = NoUser THEN 0 ELSE 0)
  BY WidthAssumption DEF TypeOK, Word, money
<1>2. UNCHANGED <<vault, wallet>>
  BY DEF money
<1> QED
  BY <1>1, <1>2, WriteShifted

LEMMA OpenShifts ==
    ASSUME IInv, NEW p \in Payments, NEW actor \in Users, NEW amount \in Amounts,
           OpenPayment(p, actor, amount)
    PROVE  Shifted(p, actor, -amount)
<1> DEFINE old == payment[p]
           new == Opened(payment[p], amount, now, config)
<1>1. /\ TypeOK /\ old \in Payment /\ ~old.redacted /\ old.sender = actor
      /\ old.amount = 0 /\ amount \in Word /\ amount \in Int
  BY InputAssumption, WidthAssumption
     DEF IInv, TypeOK, AllSound, Sound, OpenPayment, Shell, Word
<1>2. new \in Payment
  BY <1>1, OpenedType DEF TypeOK, OpenPayment
<1>3. ~new.redacted /\ new.sender = actor /\ new.amount = amount
  BY <1>1 DEF Opened, Payment
<1>4. Shift(old, new, actor, -amount)
  BY <1>1, <1>2, <1>3, OpenShift
<1>5. \A v \in Users :
         deposit'[v].available = deposit[v].available + (IF v = actor THEN -amount ELSE 0)
  <2>1. deposit'[actor].available = deposit[actor].available - amount
    BY <1>1 DEF TypeOK, OpenPayment
  <2>2. \A v \in Users : v # actor => deposit'[v] = deposit[v]
    BY <1>1 DEF TypeOK, OpenPayment
  <2>3. \A v \in Users : deposit[v].available \in Int
    BY <1>1, WidthAssumption DEF TypeOK, Word
  <2> QED
    BY <1>1, <2>1, <2>2, <2>3
<1>6. Write(p, new) /\ UNCHANGED <<vault, wallet>>
  BY DEF OpenPayment
<1> QED
  BY <1>1, <1>4, <1>5, <1>6, WriteShifted

\* Both ways to end a payment credit its amount to one user.
LEMMA CreditShifts ==
    ASSUME IInv, NEW p \in Payments, NEW actor \in Users,
           CancelPayment(p, actor) \/ ClaimPayment(p, actor)
    PROVE  Shifted(p, actor, payment[p].amount)
<1> DEFINE old == payment[p]
<1>1. /\ TypeOK /\ old \in Payment /\ Open(old) /\ old.sender # old.recipient
      /\ old.amount \in Int
  BY WidthAssumption
     DEF IInv, TypeOK, AllSound, Sound, CancelPayment, ClaimPayment, Payment, Word
<1>2. PICK pay : Write(p, pay) /\ Shift(old, pay, actor, old.amount)
  <2>1. CASE CancelPayment(p, actor)
    BY <1>1, <2>1, CancelShift DEF CancelPayment
  <2>2. CASE ClaimPayment(p, actor)
    BY <1>1, <2>2, ClaimShift DEF ClaimPayment
  <2> QED
    BY <2>1, <2>2
<1>3. \A v \in Users :
         deposit'[v].available = deposit[v].available + (IF v = actor THEN old.amount ELSE 0)
  <2>1. deposit' = [deposit EXCEPT ![actor].available = @ + old.amount]
    BY DEF CancelPayment, ClaimPayment
  <2>2. \A v \in Users : deposit[v].available \in Int
    BY <1>1, WidthAssumption DEF TypeOK, Word
  <2> QED
    BY <1>1, <2>1, <2>2 DEF TypeOK
<1>4. UNCHANGED <<vault, wallet>>
  BY DEF CancelPayment, ClaimPayment
<1> QED
  BY <1>1, <1>2, <1>3, <1>4, WriteShifted

LEMMA EscrowShifts ==
    ASSUME IInv, NEW p \in Payments, Escrow(p)
    PROVE  \E u, d : Shifted(p, u, d) \/ Moved(u, d)
<1> DEFINE old == payment[p]
<1>0. TypeOK /\ old \in Payment /\ Sound(old, now) /\ now \in Time
  BY DEF IInv, TypeOK, AllSound
<1>1. ASSUME NEW actor \in Users, NEW recipient \in Party,
             PreparePayment(p, actor, recipient)
      PROVE  Shifted(p, NoUser, 0)
  <2> DEFINE new == Shell(actor, recipient)
  <2>1. ~old.initialized
    BY <1>1 DEF PreparePayment, IInv, AllPlaced, Placed
  <2>2. ~old.redacted /\ old.amount = 0
    BY <1>0, <2>1 DEF Sound, Shell
  <2>3. new \in Payment /\ ~new.redacted /\ new.amount = 0
    BY ShellType DEF Shell, Party
  <2>4. Shift(old, new, NoUser, 0)
    BY <1>0, <2>2, <2>3, SameShift
  <2>5. payment'[p] = new /\ \A q \in Payments \ {p} : payment'[q] = payment[q]
    BY <1>0, <1>1 DEF PreparePayment, TypeOK
  <2>6. /\ UNCHANGED <<vault, wallet>>
        /\ \A v \in Users :
             deposit'[v].available = deposit[v].available + (IF v = NoUser THEN 0 ELSE 0)
    BY <1>0, <1>1, WidthAssumption DEF PreparePayment, money, TypeOK, Word
  <2> QED
    BY <2>4, <2>5, <2>6 DEF Shifted
<1>2. ASSUME NEW actor \in Users, NEW amount \in Amounts, OpenPayment(p, actor, amount)
      PROVE  Shifted(p, actor, -amount)
  BY <1>2, OpenShifts
<1>3. ASSUME NEW actor \in Users, CancelPayment(p, actor) \/ ClaimPayment(p, actor)
      PROVE  Shifted(p, actor, payment[p].amount)
  BY <1>3, CreditShifts
<1>4. ASSUME NEW actor \in Users, AcknowledgePayment(p, actor)
      PROVE  Shifted(p, NoUser, 0)
  <2> DEFINE new == [old EXCEPT !.status = "Acknowledged"]
  <2>1. /\ new \in Payment /\ ~old.redacted /\ ~new.redacted
        /\ new.amount = old.amount /\ new.sender = old.sender
    BY <1>0, <1>4 DEF AcknowledgePayment, Payment, PaymentStatus, Open
  <2> QED
    BY <1>0, <1>4, <2>1, SameShift, QuietWriteShifted DEF AcknowledgePayment
<1>5. ASSUME NEW actor \in Users, SchedulePayment(p, actor)
      PROVE  Shifted(p, NoUser, 0)
  <2> DEFINE new == [old EXCEPT !.task_id = 1]
  <2>1. /\ new \in Payment /\ ~old.redacted /\ ~new.redacted
        /\ new.amount = old.amount /\ new.sender = old.sender
    BY <1>0, <1>5 DEF SchedulePayment, Payment, Live, Open
  <2> QED
    BY <1>0, <1>5, <2>1, SameShift, QuietWriteShifted DEF SchedulePayment
<1>6. CASE AdvancePayment(p)
  <2>1. Shifted(p, NoUser, 0)
    BY <1>0, <1>6, AdvanceShift, QuietWriteShifted DEF AdvancePayment
  <2> QED
    BY <2>1
<1>7. ASSUME NEW actor \in Users,
             \/ DelegatePayment(p, actor) \/ RedactTerminalPayment(p, actor)
             \/ CommitAndUndelegatePayment(p, actor)
      PROVE  Moved(NoUser, 0)
  <2>1. UNCHANGED <<vault, wallet, deposit, payment>>
    BY <1>7 DEF DelegatePayment, RedactTerminalPayment, CommitAndUndelegatePayment,
                money, vars
  <2> QED
    BY <1>0, <2>1, SameMoved
<1>8. CASE PaymentCommitLands(p)
  <2>1. UNCHANGED <<vault, wallet, deposit, payment>>
    BY <1>8 DEF PaymentCommitLands, money
  <2> QED
    BY <1>0, <2>1, SameMoved
<1> QED
  BY <1>1, <1>2, <1>3, <1>4, <1>5, <1>6, <1>7, <1>8 DEF Escrow

\* Every step moves money at one user and at most one payment.
LEMMA StepMoves ==
    ASSUME IInv, Unopened, [Next]_vars
    PROVE  \/ \E u, d : Moved(u, d)
           \/ \E p \in Payments : \E u, d : Shifted(p, u, d)
<1>0. TypeOK /\ NothingInAbsent
  BY DEF IInv
<1>1. CASE Administration
  BY <1>0, <1>1, AdministrationMoves
<1>2. ASSUME NEW u \in Users, Custody(u)
      PROVE  \E v, d : Moved(v, d)
  BY <1>0, <1>2, CustodyMoves
<1>3. ASSUME NEW p \in Payments, Escrow(p)
      PROVE  \E u, d : Shifted(p, u, d) \/ Moved(u, d)
  BY <1>3, EscrowShifts
<1>4. ASSUME NEW p \in Payments, CrankFires(p)
      PROVE  \E u, d : Shifted(p, u, d) \/ Moved(u, d)
  <2>1. CASE layer[p] = "er" /\ payment[p].initialized
    <3>1. payment[p] \in Payment /\ Sound(payment[p], now) /\ now \in Time
      BY DEF IInv, TypeOK, AllSound
    <3>2. Shifted(p, NoUser, 0)
      BY <1>0, <1>4, <2>1, <3>1, AdvanceShift, QuietWriteShifted DEF CrankFires
    <3> QED
      BY <3>2
  <2>2. CASE ~(layer[p] = "er" /\ payment[p].initialized)
    <3>1. UNCHANGED <<vault, wallet, deposit, payment>>
      BY <1>4, <2>2 DEF CrankFires, money
    <3> QED
      BY <1>0, <3>1, SameMoved
  <2> QED
    BY <2>1, <2>2
<1>5. CASE Tick \/ UNCHANGED vars
  <2>1. UNCHANGED <<vault, wallet, deposit, payment>>
    BY <1>5 DEF Tick, vars, money
  <2> QED
    BY <1>0, <2>1, SameMoved
<1> QED
  BY <1>1, <1>2, <1>3, <1>4, <1>5 DEF Next

-----------------------------------------------------------------------------
(* What such a step does to the sums *)

Deposits == SumFunction([u \in Users |-> deposit[u].available])
Escrowed == SumFunction([p \in Payments |-> payment[p].amount])

LEMMA MovedDeposits ==
    ASSUME TypeOK, NEW u, NEW d \in Int, u \in Users \/ d = 0,
           \A v \in Users :
              deposit'[v].available = deposit[v].available + (IF v = u THEN d ELSE 0)
    PROVE  Deposits' = Deposits + d
<1> DEFINE before == [v \in Users |-> deposit[v].available]
           after == [v \in Users |-> deposit'[v].available]
<1>1. \A v \in Users : before[v] \in Int /\ after[v] = before[v] + (IF v = u THEN d ELSE 0)
  BY WidthAssumption DEF TypeOK, Word
<1>2. Deposits = SumFunctionOnSet(before, Users) /\ Deposits' = SumFunctionOnSet(after, Users)
  BY DEF Deposits, SumFunction
<1> HIDE DEF before, after
<1>3. SumFunctionOnSet(after, Users)
      = SumFunctionOnSet(before, Users) + (IF u \in Users THEN d ELSE 0)
  BY <1>1, SumShift, FiniteAssumption
<1>4. SumFunctionOnSet(before, Users) \in Int
  BY <1>1, SumInt, FiniteAssumption
<1> QED
  BY <1>2, <1>3, <1>4

\* A table over all payments of which the step changes the entry of p.
LEMMA PaymentsSum ==
    ASSUME NEW before, NEW after, NEW p \in Payments,
           \A q \in Payments : before[q] \in Int, after[p] \in Int,
           \A q \in Payments \ {p} : after[q] = before[q]
    PROVE  /\ SumFunctionOnSet(before, Payments) \in Int
           /\ SumFunctionOnSet(after, Payments)
              = SumFunctionOnSet(before, Payments) - before[p] + after[p]
<1>1. SumFunctionOnSet(before, Payments) \in Int
  BY SumInt, FiniteAssumption
<1>2. SumFunctionOnSet(after, Payments)
      = SumFunctionOnSet(before, Payments) - before[p] + after[p]
  BY SumChange, FiniteAssumption
<1> QED
  BY <1>1, <1>2

LEMMA ShiftedEscrows ==
    ASSUME TypeOK, TypeOK', NEW p \in Payments, NEW u, NEW d, Shifted(p, u, d)
    PROVE  Escrowed' = Escrowed - d
<1> DEFINE before == [q \in Payments |-> payment[q].amount]
           after == [q \in Payments |-> payment'[q].amount]
<1>1. /\ \A q \in Payments : before[q] \in Int
      /\ after[p] \in Int
      /\ \A q \in Payments \ {p} : after[q] = before[q]
      /\ after[p] = before[p] - d /\ d \in Int
  BY WidthAssumption DEF TypeOK, Word, Payment, Shifted, Shift
<1>2. Escrowed = SumFunctionOnSet(before, Payments) /\ Escrowed' = SumFunctionOnSet(after, Payments)
  BY DEF Escrowed, SumFunction
<1> HIDE DEF before, after
<1>3. /\ SumFunctionOnSet(before, Payments) \in Int
      /\ SumFunctionOnSet(after, Payments)
         = SumFunctionOnSet(before, Payments) - before[p] + after[p]
  BY <1>1, PaymentsSum
<1>4. before[p] \in Int
  BY <1>1
<1> QED
  BY <1>1, <1>2, <1>3, <1>4

HeldBy(u) == SumFunction([p \in Payments |-> Held(payment[p], u)])
TakenFrom(u) == SumFunction([p \in Payments |-> Took(payment[p], u)])
BroughtBy(u) == SumFunction([p \in Payments |-> Brought(payment[p], u)])

\* A step at payment p changes what v's payments are worth by what p's is.
LEMMA ShiftedWorth ==
    ASSUME TypeOK, TypeOK', NEW p \in Payments, NEW u, NEW d, Shifted(p, u, d), NEW v \in Users
    PROVE  /\ HeldBy(v) \in Int /\ TakenFrom(v) \in Int /\ BroughtBy(v) \in Int
           /\ HeldBy(v)' \in Int /\ TakenFrom(v)' \in Int /\ BroughtBy(v)' \in Int
           /\ HeldBy(v)' + TakenFrom(v)' - BroughtBy(v)'
              = HeldBy(v) + TakenFrom(v) - BroughtBy(v) - (IF v = u THEN d ELSE 0)
<1> DEFINE held == [q \in Payments |-> Held(payment[q], v)]
           took == [q \in Payments |-> Took(payment[q], v)]
           brought == [q \in Payments |-> Brought(payment[q], v)]
           heldNow == [q \in Payments |-> Held(payment'[q], v)]
           tookNow == [q \in Payments |-> Took(payment'[q], v)]
           broughtNow == [q \in Payments |-> Brought(payment'[q], v)]
<1>1. \A q \in Payments : payment[q] \in Payment /\ payment'[q] \in Payment
  BY DEF TypeOK
<1>2. /\ \A q \in Payments : held[q] \in Int
      /\ \A q \in Payments : took[q] \in Int
      /\ \A q \in Payments : brought[q] \in Int
      /\ heldNow[p] \in Int /\ tookNow[p] \in Int /\ broughtNow[p] \in Int
  BY <1>1, WorthType
<1>3. /\ \A q \in Payments \ {p} : heldNow[q] = held[q]
      /\ \A q \in Payments \ {p} : tookNow[q] = took[q]
      /\ \A q \in Payments \ {p} : broughtNow[q] = brought[q]
  BY DEF Shifted
<1>4. heldNow[p] + tookNow[p] - broughtNow[p]
      = held[p] + took[p] - brought[p] - (IF v = u THEN d ELSE 0)
  <2>1. Worth(payment'[p], v) = Worth(payment[p], v) - (IF v = u THEN d ELSE 0)
    BY DEF Shifted, Shift
  <2>2. /\ Worth(payment[p], v) = held[p] + took[p] - brought[p]
        /\ Worth(payment'[p], v) = heldNow[p] + tookNow[p] - broughtNow[p]
    BY DEF Worth
  <2>3. /\ held[p] \in Int /\ took[p] \in Int /\ brought[p] \in Int
        /\ (IF v = u THEN d ELSE 0) \in Int
    BY <1>2 DEF Shifted
  <2> HIDE DEF held, took, brought, heldNow, tookNow, broughtNow
  <2> QED
    BY <1>2, <2>1, <2>2, <2>3
<1>5. /\ HeldBy(v) = SumFunctionOnSet(held, Payments)
      /\ TakenFrom(v) = SumFunctionOnSet(took, Payments)
      /\ BroughtBy(v) = SumFunctionOnSet(brought, Payments)
      /\ HeldBy(v)' = SumFunctionOnSet(heldNow, Payments)
      /\ TakenFrom(v)' = SumFunctionOnSet(tookNow, Payments)
      /\ BroughtBy(v)' = SumFunctionOnSet(broughtNow, Payments)
  BY DEF HeldBy, TakenFrom, BroughtBy, SumFunction
<1> HIDE DEF held, took, brought, heldNow, tookNow, broughtNow
<1>6. /\ SumFunctionOnSet(held, Payments) \in Int
      /\ SumFunctionOnSet(heldNow, Payments)
         = SumFunctionOnSet(held, Payments) - held[p] + heldNow[p]
  BY <1>2, <1>3, PaymentsSum
<1>7. /\ SumFunctionOnSet(took, Payments) \in Int
      /\ SumFunctionOnSet(tookNow, Payments)
         = SumFunctionOnSet(took, Payments) - took[p] + tookNow[p]
  BY <1>2, <1>3, PaymentsSum
<1>8. /\ SumFunctionOnSet(brought, Payments) \in Int
      /\ SumFunctionOnSet(broughtNow, Payments)
         = SumFunctionOnSet(brought, Payments) - brought[p] + broughtNow[p]
  BY <1>2, <1>3, PaymentsSum
<1>9. held[p] \in Int /\ took[p] \in Int /\ brought[p] \in Int
  BY <1>2
<1>10. (IF v = u THEN d ELSE 0) \in Int
  BY DEF Shifted
<1>11. /\ SumFunctionOnSet(heldNow, Payments) \in Int
       /\ SumFunctionOnSet(tookNow, Payments) \in Int
       /\ SumFunctionOnSet(broughtNow, Payments) \in Int
  BY <1>2, <1>6, <1>7, <1>8, <1>9
<1>12. SumFunctionOnSet(heldNow, Payments) + SumFunctionOnSet(tookNow, Payments)
          - SumFunctionOnSet(broughtNow, Payments)
       = SumFunctionOnSet(held, Payments) + SumFunctionOnSet(took, Payments)
          - SumFunctionOnSet(brought, Payments) - (IF v = u THEN d ELSE 0)
  BY <1>2, <1>4, <1>6, <1>7, <1>8, <1>9, <1>10
<1> QED
  BY <1>5, <1>6, <1>7, <1>8, <1>11, <1>12

-----------------------------------------------------------------------------
(* The books *)

Books == Unopened /\ Conservation /\ AccountsBalance

LEMMA ConservationBooks ==
    Conservation <=> /\ vault.total_liability = Deposits + Escrowed
                     /\ vault.tokens = vault.total_liability
BY DEF Conservation, Deposits, Escrowed

LEMMA AccountsBooks ==
    AccountsBalance <=>
        \A u \in Users : wallet[u] + deposit[u].available + HeldBy(u)
                         = Endowment[u] + BroughtBy(u) - TakenFrom(u)
BY DEF AccountsBalance, HeldBy, BroughtBy, TakenFrom

LEMMA SumsAreInt ==
    ASSUME TypeOK
    PROVE  /\ Deposits \in Nat /\ Escrowed \in Nat
           /\ \A u \in Users : HeldBy(u) \in Int /\ TakenFrom(u) \in Int /\ BroughtBy(u) \in Int
<1>1. Deposits \in Nat
  <2> DEFINE F == [u \in Users |-> deposit[u].available]
  <2>1. \A u \in Users : F[u] \in Nat
    BY WidthAssumption DEF TypeOK, Word
  <2>2. Deposits = SumFunctionOnSet(F, Users)
    BY DEF Deposits, SumFunction
  <2> HIDE DEF F
  <2> QED
    BY <2>1, <2>2, SumNat, FiniteAssumption
<1>2. Escrowed \in Nat
  <2> DEFINE F == [p \in Payments |-> payment[p].amount]
  <2>1. \A p \in Payments : F[p] \in Nat
    BY WidthAssumption DEF TypeOK, Payment, Word
  <2>2. Escrowed = SumFunctionOnSet(F, Payments)
    BY DEF Escrowed, SumFunction
  <2> HIDE DEF F
  <2> QED
    BY <2>1, <2>2, SumNat, FiniteAssumption
<1>3. ASSUME NEW u \in Users
      PROVE  HeldBy(u) \in Int /\ TakenFrom(u) \in Int /\ BroughtBy(u) \in Int
  <2> DEFINE F == [p \in Payments |-> Held(payment[p], u)]
             G == [p \in Payments |-> Took(payment[p], u)]
             H == [p \in Payments |-> Brought(payment[p], u)]
  <2>1. /\ \A p \in Payments : F[p] \in Int
        /\ \A p \in Payments : G[p] \in Int
        /\ \A p \in Payments : H[p] \in Int
    BY WorthType DEF TypeOK
  <2>2. /\ HeldBy(u) = SumFunctionOnSet(F, Payments)
        /\ TakenFrom(u) = SumFunctionOnSet(G, Payments)
        /\ BroughtBy(u) = SumFunctionOnSet(H, Payments)
    BY DEF HeldBy, TakenFrom, BroughtBy, SumFunction
  <2> HIDE DEF F, G, H
  <2>3. SumFunctionOnSet(F, Payments) \in Int
    BY <2>1, SumInt, FiniteAssumption
  <2>4. SumFunctionOnSet(G, Payments) \in Int
    BY <2>1, SumInt, FiniteAssumption
  <2>5. SumFunctionOnSet(H, Payments) \in Int
    BY <2>1, SumInt, FiniteAssumption
  <2> QED
    BY <2>2, <2>3, <2>4, <2>5
<1> QED
  BY <1>1, <1>2, <1>3

LEMMA MovedBooks ==
    ASSUME TypeOK, TypeOK', Books, NEW u, NEW d, Moved(u, d)
    PROVE  Books'
<1>1. payment' = payment /\ d \in Int
  BY DEF Moved
<1>2. Deposits' = Deposits + d
  BY MovedDeposits DEF Moved
<1>3. /\ Escrowed' = Escrowed
      /\ \A v \in Users : /\ HeldBy(v)' = HeldBy(v)
                          /\ TakenFrom(v)' = TakenFrom(v)
                          /\ BroughtBy(v)' = BroughtBy(v)
  BY <1>1 DEF Escrowed, HeldBy, TakenFrom, BroughtBy
<1>4. Unopened'
  BY DEF Books, Unopened, Moved
<1>5. Conservation'
  <2>1. vault'.total_liability = Deposits' + Escrowed' /\ vault'.tokens = vault'.total_liability
    BY <1>1, <1>2, <1>3, SumsAreInt, ConservationBooks DEF Books, Moved
  <2> QED
    BY <2>1 DEF Conservation, Deposits, Escrowed
<1>6. AccountsBalance'
  <2>1. ASSUME NEW v \in Users
        PROVE  wallet'[v] + deposit'[v].available = wallet[v] + deposit[v].available
    BY <1>1, WidthAssumption DEF TypeOK, Word, Moved
  <2>2. \A v \in Users : wallet'[v] + deposit'[v].available + HeldBy(v)'
                         = Endowment[v] + BroughtBy(v)' - TakenFrom(v)'
    BY <1>3, <2>1, AccountsBooks DEF Books
  <2> QED
    BY <2>2 DEF AccountsBalance, HeldBy, BroughtBy, TakenFrom
<1> QED
  BY <1>4, <1>5, <1>6 DEF Books

LEMMA ShiftedBooks ==
    ASSUME TypeOK, TypeOK', Books, NEW p \in Payments, NEW u, NEW d, Shifted(p, u, d)
    PROVE  Books'
<1>1. vault' = vault /\ wallet' = wallet /\ d \in Int
  BY DEF Shifted
<1>2. Deposits' = Deposits + d
  BY MovedDeposits DEF Shifted
<1>3. Escrowed' = Escrowed - d
  BY ShiftedEscrows
<1>4. Unopened'
  BY <1>1 DEF Books, Unopened
<1>5. Conservation'
  <2>1. vault'.total_liability = Deposits' + Escrowed' /\ vault'.tokens = vault'.total_liability
    BY <1>1, <1>2, <1>3, SumsAreInt, ConservationBooks DEF Books
  <2> QED
    BY <2>1 DEF Conservation, Deposits, Escrowed
<1>6. AccountsBalance'
  <2>1. ASSUME NEW v \in Users
        PROVE  wallet'[v] + deposit'[v].available + HeldBy(v)'
               = Endowment[v] + BroughtBy(v)' - TakenFrom(v)'
    <3>1. /\ HeldBy(v) \in Int /\ TakenFrom(v) \in Int /\ BroughtBy(v) \in Int
          /\ HeldBy(v)' \in Int /\ TakenFrom(v)' \in Int /\ BroughtBy(v)' \in Int
          /\ HeldBy(v)' + TakenFrom(v)' - BroughtBy(v)'
             = HeldBy(v) + TakenFrom(v) - BroughtBy(v) - (IF v = u THEN d ELSE 0)
      BY ShiftedWorth
    <3>2. deposit'[v].available = deposit[v].available + (IF v = u THEN d ELSE 0)
      BY DEF Shifted
    <3>3. wallet[v] + deposit[v].available + HeldBy(v) = Endowment[v] + BroughtBy(v) - TakenFrom(v)
      BY AccountsBooks DEF Books
    <3>4. wallet[v] \in Int /\ deposit[v].available \in Int /\ Endowment[v] \in Int
      BY WidthAssumption, EndowmentAssumption DEF TypeOK, Word
    <3> QED
      BY <1>1, <3>1, <3>2, <3>3, <3>4
  <2> QED
    BY <2>1 DEF AccountsBalance, HeldBy, BroughtBy, TakenFrom
<1> QED
  BY <1>4, <1>5, <1>6 DEF Books

\* Nothing has been deposited, and no payment exists.
LEMMA InitBooks == Init => Books
<1> SUFFICES ASSUME Init PROVE Books
  OBVIOUS
<1> DEFINE available == [u \in Users |-> deposit[u].available]
           amounts == [p \in Payments |-> payment[p].amount]
<1>1. /\ \A u \in Users : available[u] = 0
      /\ \A p \in Payments : amounts[p] = 0
  BY DEF Init, NoDeposit, NoPayment, Shell
<1>2. /\ Deposits = SumFunctionOnSet(available, Users)
      /\ Escrowed = SumFunctionOnSet(amounts, Payments)
  BY DEF Deposits, Escrowed, SumFunction
<1>3. Deposits = 0 /\ Escrowed = 0
  <2> HIDE DEF available, amounts
  <2>1. SumFunctionOnSet(available, Users) = 0
    BY <1>1, SumZero, FiniteAssumption
  <2>2. SumFunctionOnSet(amounts, Payments) = 0
    BY <1>1, SumZero, FiniteAssumption
  <2> QED
    BY <1>2, <2>1, <2>2
<1>4. Conservation
  BY <1>3, ConservationBooks DEF Init
<1>5. ASSUME NEW u \in Users
      PROVE  HeldBy(u) = 0 /\ TakenFrom(u) = 0 /\ BroughtBy(u) = 0
  <2> DEFINE F == [p \in Payments |-> Held(payment[p], u)]
             G == [p \in Payments |-> Took(payment[p], u)]
             H == [p \in Payments |-> Brought(payment[p], u)]
  <2>1. /\ \A p \in Payments : F[p] = 0
        /\ \A p \in Payments : G[p] = 0
        /\ \A p \in Payments : H[p] = 0
    BY DEF Init, NoPayment, Shell, Held, Took, Brought, PaidOut
  <2>2. /\ HeldBy(u) = SumFunctionOnSet(F, Payments)
        /\ TakenFrom(u) = SumFunctionOnSet(G, Payments)
        /\ BroughtBy(u) = SumFunctionOnSet(H, Payments)
    BY DEF HeldBy, TakenFrom, BroughtBy, SumFunction
  <2> HIDE DEF F, G, H
  <2>3. SumFunctionOnSet(F, Payments) = 0
    BY <2>1, SumZero, FiniteAssumption
  <2>4. SumFunctionOnSet(G, Payments) = 0
    BY <2>1, SumZero, FiniteAssumption
  <2>5. SumFunctionOnSet(H, Payments) = 0
    BY <2>1, SumZero, FiniteAssumption
  <2> QED
    BY <2>2, <2>3, <2>4, <2>5
<1>6. AccountsBalance
  <2>1. \A u \in Users : /\ wallet[u] = Endowment[u] /\ deposit[u].available = 0
                         /\ Endowment[u] \in Int
    BY WidthAssumption, EndowmentAssumption DEF Init, NoDeposit
  <2> QED
    BY <1>5, <2>1, AccountsBooks
<1>7. Unopened
  BY DEF Init, Unopened
<1> QED
  BY <1>4, <1>6, <1>7 DEF Books

LEMMA StepBooks == IInv /\ Books /\ [Next]_vars => Books'
<1> SUFFICES ASSUME IInv, Books, [Next]_vars PROVE Books'
  OBVIOUS
<1>1. TypeOK /\ TypeOK' /\ Unopened
  BY StepType DEF IInv, Books
<1> QED
  BY <1>1, StepMoves, MovedBooks, ShiftedBooks

-----------------------------------------------------------------------------
(* The parties of an open payment *)

\* prepare_payment is signed: only an account nobody created has no sender.
SendersKnown == \A p \in Payments : payment[p] = NoPayment \/ payment[p].sender \in Users

LEMMA ChangeKeepsSender ==
    ASSUME NEW old \in Payment, NEW new, NEW t \in Time, Change(old, new, t),
           old = NoPayment \/ old.sender \in Users
    PROVE  new = NoPayment \/ new.sender \in Users
<1>1. old.initialized \/ old.sender # old.recipient => old # NoPayment
  BY DEF NoPayment, Shell
<1>2. CASE new = old
  BY <1>2
<1>3. CASE \E s, r \in Users : new = Shell(s, r)
  BY <1>3 DEF Shell
<1>4. CASE old.initialized \/ old.sender # old.recipient
  <2>1. old.sender \in Users
    BY <1>1, <1>4
  <2>2. \/ new.sender = old.sender
        \/ \E s, r \in Users : new = Shell(s, r)
    BY DEF Change, Opened, Sealed, Advanced, Payment
  <2> QED
    BY <1>3, <2>1, <2>2
<1> QED
  BY <1>2, <1>3, <1>4 DEF Change, Open, Live

LEMMA StepSenders == IInv /\ SendersKnown /\ [Next]_vars => SendersKnown'
<1> SUFFICES ASSUME IInv, SendersKnown, [Next]_vars, NEW p \in Payments
             PROVE  payment'[p] = NoPayment \/ payment'[p].sender \in Users
  BY DEF SendersKnown
<1>1. payment[p] \in Payment /\ now \in Time
  BY DEF IInv, TypeOK
<1>2. Change(payment[p], payment'[p], now)
  BY IInvLayers, StepChange DEF IInv
<1> QED
  BY <1>1, <1>2, ChangeKeepsSender DEF SendersKnown

LEMMA OpenParties ==
    ASSUME IInv, SendersKnown, NEW p \in Payments, Open(payment[p])
    PROVE  payment[p].sender \in Users /\ payment[p].recipient \in Users
<1>1. payment[p] # NoPayment
  BY DEF Open, NoPayment, Shell
<1>2. payment[p].recipient \in Users
  BY DEF IInv, AllPlaced, Placed, Open
<1> QED
  BY <1>1, <1>2 DEF SendersKnown

\* What the books say bounds every credit: the vault's liability is a u64, and a
\* Deposit and an open payment are two parts of it.
LEMMA BooksPayEveryone ==
    ASSUME IInv, Books, SendersKnown
    PROVE  EveryoneCanBePaid
<1> DEFINE available == [u \in Users |-> deposit[u].available]
           amounts == [p \in Payments |-> payment[p].amount]
<1>1. /\ \A u \in Users : available[u] \in Nat
      /\ \A p \in Payments : amounts[p] \in Nat
  BY WidthAssumption DEF IInv, TypeOK, Payment, Word
<1>2. /\ Deposits = SumFunctionOnSet(available, Users)
      /\ Escrowed = SumFunctionOnSet(amounts, Payments)
  BY DEF Deposits, Escrowed, SumFunction
<1>3. ASSUME NEW u \in Users PROVE available[u] <= Deposits
  <2> HIDE DEF available
  <2> QED
    BY <1>1, <1>2, SumBounds, FiniteAssumption
<1>4. ASSUME NEW p \in Payments PROVE amounts[p] <= Escrowed
  <2> HIDE DEF amounts
  <2> QED
    BY <1>1, <1>2, SumBounds, FiniteAssumption
<1>5. /\ Deposits \in Nat /\ Escrowed \in Nat /\ MaxU64 \in Nat
      /\ vault.total_liability = Deposits + Escrowed
      /\ vault.tokens = vault.total_liability
      /\ vault.total_liability <= MaxU64
  BY SumsAreInt, ConservationBooks, WidthAssumption DEF IInv, Books, TypeOK, Word
<1>6. ASSUME NEW u \in Users
      PROVE  /\ deposit[u].available \in Nat /\ deposit[u].available <= Deposits
             /\ deposit[u].available <= vault.total_liability
             /\ deposit[u].available <= vault.tokens
  <2>1. deposit[u].available \in Nat /\ deposit[u].available <= Deposits
    BY <1>1, <1>3
  <2> QED
    BY <1>5, <2>1
<1>7. ASSUME NEW p \in Payments, Open(payment[p]), NEW u \in Users
      PROVE  deposit[u].available + payment[p].amount <= MaxU64
  <2>1. payment[p].amount \in Nat /\ payment[p].amount <= Escrowed
    BY <1>1, <1>4
  <2> QED
    BY <1>5, <1>6, <2>1
<1> QED
  BY <1>6, <1>7, OpenParties DEF EveryoneCanBePaid

-----------------------------------------------------------------------------
(* The theorems *)

LedgerInv == IInv /\ Books /\ SendersKnown

\* The books are right in every reachable state: the inductive invariant of the
\* three theorems below.
THEOREM LedgerHolds == Spec => []LedgerInv
<1>1. Init => LedgerInv
  BY InitIInv, InitBooks DEF LedgerInv, SendersKnown, Init
<1>2. LedgerInv /\ [Next]_vars => LedgerInv'
  BY StepIInv, StepBooks, StepSenders DEF LedgerInv
<1> QED
  BY <1>1, <1>2, PTL DEF Spec

\* The vault's liability and its tokens are always what the private Deposits and
\* the open payments hold together: for any number of users and payments, and
\* whatever is delegated, in flight or raced.
THEOREM MoneyConserved == Spec => []Conservation
<1>1. LedgerInv => Conservation
  BY DEF LedgerInv, Books
<1> QED
  BY <1>1, LedgerHolds, PTL

\* Nobody gains or loses except through a settled payment: no payout is made
\* twice, to the wrong party or of another amount (claim, cancel, seal_terminal).
THEOREM NobodyLosesMoney == Spec => []AccountsBalance
<1>1. LedgerInv => AccountsBalance
  BY DEF LedgerInv, Books
<1> QED
  BY <1>1, LedgerHolds, PTL

\* No checked subtraction or addition of the program can hold funds back: every
\* Deposit can be withdrawn in full, and both parties of an open payment credited.
THEOREM NobodyIsStuck == Spec => []EveryoneCanBePaid
<1>1. LedgerInv => EveryoneCanBePaid
  BY BooksPayEveryone DEF LedgerInv
<1> QED
  BY <1>1, LedgerHolds, PTL
=============================================================================
