----------------------- MODULE ProtectedPayCrank_proofs -----------------------
(* How long the timing policy may be for the fixed Crank schedule: the        *)
(* program accepts any claim window, but only those the task's last iteration *)
(* reaches leave no scheduled payment behind.                                 *)
EXTENDS ProtectedPay_proofs

\* When the last iteration of a task falls due, counted from the first.
Reach == (CrankIterations - 1) * CrankInterval

-----------------------------------------------------------------------------
(* The deadlines of a live payment, and the task that will advance it *)

\* Both deadlines are within the task's reach of the creation time.
Timed(pay, t) ==
    Live(pay) => /\ pay.created_at <= t
                 /\ pay.created_at <= pay.settle_after
                 /\ pay.settle_after <= pay.expires_at
                 /\ pay.expires_at <= pay.created_at + Reach

\* While a scheduled payment lives, its task has an iteration left, and the last
\* one falls due no earlier than both deadlines.
Tasked(pay, tsk, where) ==
    pay.task_id = 1 /\ Live(pay) =>
        /\ where = "er"
        /\ tsk.left > 0
        /\ tsk.due + (tsk.left - 1) * CrankInterval >= pay.expires_at

AllTimed == \A p \in Payments : Timed(payment[p], now)
AllTasked == \A p \in Payments : Tasked(payment[p], task[p], layer[p])

LEMMA ReachType == Reach \in Int
BY CrankAssumption DEF Reach

LEMMA ChangeTimed ==
    ASSUME \A w \in Windows : w <= Reach,
           NEW old \in Payment, NEW new \in Payment, NEW t \in Time,
           Timed(old, t), Change(old, new, t)
    PROVE  Timed(new, t)
<1>1. CASE new = old
  BY <1>1
<1>2. CASE ~new.initialized \/ new.redacted
  BY <1>2 DEF Timed, Live, Open
<1>3. ASSUME NEW amount \in Word,
             NEW policy \in [exists : BOOLEAN, safety_window : Time, claim_window : Time],
             ValidPolicy(policy.safety_window, policy.claim_window),
             policy.claim_window \in Windows, new = Opened(old, amount, t, policy)
      PROVE  Timed(new, t)
  <2>1. /\ new.created_at = t /\ new.settle_after = t + policy.safety_window
        /\ new.expires_at = t + policy.claim_window
    BY <1>3 DEF Opened, Payment
  <2>2. /\ 0 < policy.safety_window /\ policy.safety_window < policy.claim_window
        /\ policy.claim_window <= Reach
    BY <1>3 DEF ValidPolicy
  <2>3. t \in Int /\ policy.safety_window \in Int /\ policy.claim_window \in Int
    BY DEF Time
  <2> QED
    BY <2>1, <2>2, <2>3, ReachType DEF Timed
<1>4. CASE /\ Live(old)
           /\ \/ new = [old EXCEPT !.status = "Acknowledged"]
              \/ new = [old EXCEPT !.task_id = 1]
  BY <1>4 DEF Timed, Payment
<1>5. CASE old.initialized /\ new = Advanced(old, t)
  <2>1. Live(new) => new = old
    BY <1>5 DEF Live, Open, Advanced, Terminal, Payment
  <2> QED
    BY <2>1 DEF Timed
<1>6. \A pay \in Payment : Sealed(pay).redacted
  BY DEF Sealed, Payment
<1>7. CASE Live(old) /\ new = Sealed([old EXCEPT !.status = "Cancelled"])
  <2>1. [old EXCEPT !.status = "Cancelled"] \in Payment
    BY DEF Payment, PaymentStatus
  <2> QED
    BY <1>2, <1>6, <1>7, <2>1
<1>8. CASE \E s, r \in Users : new = Shell(s, r)
  BY <1>2, <1>8 DEF Shell
<1>9. Open(old) /\ old.status = "Created" => Live(old)
  BY DEF Live, Terminal
<1> QED
  BY <1>1, <1>2, <1>3, <1>4, <1>5, <1>6, <1>7, <1>8, <1>9 DEF Change

\* A payment that is live after a change was live before it, with the same deadline.
LEMMA ChangeTasked ==
    ASSUME NEW old \in Payment, NEW new \in Payment, NEW t \in Time,
           Change(old, new, t), new.task_id = 1, Live(new)
    PROVE  /\ Live(old) /\ new.expires_at = old.expires_at
<1>1. CASE new = old
  BY <1>1
<1>2. CASE \E s, r \in Users : new = Shell(s, r)
  BY <1>2 DEF Shell
<1>3. CASE \E amount, policy : new = Opened(old, amount, t, policy)
  BY <1>3 DEF Opened, Payment
<1>4. CASE /\ Open(old) /\ old.status = "Created"
           /\ new = [old EXCEPT !.status = "Acknowledged"]
  BY <1>4 DEF Live, Open, Terminal, Payment
<1>5. CASE \/ new = Sealed([old EXCEPT !.status = "Cancelled"])
           \/ new = Sealed(old)
  BY <1>5 DEF Sealed, Payment, Live, Open
<1>6. CASE new = Advanced(old, t)
  BY <1>6 DEF Advanced, Payment, Live, Open, Terminal
<1>7. CASE Live(old) /\ new = [old EXCEPT !.task_id = 1]
  BY <1>7 DEF Payment
<1> QED
  BY <1>1, <1>2, <1>3, <1>4, <1>5, <1>6, <1>7 DEF Change

-----------------------------------------------------------------------------
(* Every step keeps every scheduled payment within the reach of its task *)

\* Only scheduling and the Crank write a task.
LEMMA OthersKeepTasks ==
    ASSUME IInv, [Next]_vars, NEW p \in Payments,
           ~\E actor \in Users : SchedulePayment(p, actor), ~CrankFires(p)
    PROVE  task'[p] = task[p]
<1>0. task \in [Payments -> [left : 0..CrankIterations, due : Nat]]
  BY DEF IInv, TypeOK
<1>1. ASSUME NEW q \in Payments, q # p,
             CrankFires(q) \/ \E actor \in Users : SchedulePayment(q, actor)
      PROVE  task'[p] = task[p]
  BY <1>0, <1>1 DEF CrankFires, SchedulePayment
<1>2. CASE Administration \/ Tick \/ UNCHANGED vars
  BY <1>2 DEF Administration, InitializeConfig, UpdateTimingPolicy, InitializeVault, Tick, vars
<1>3. ASSUME NEW u \in Users, Custody(u)
      PROVE  task'[p] = task[p]
  BY <1>3 DEF Custody, InitializeDeposit, DepositUsdc, WithdrawUsdc,
     DelegateDeposit, CommitAndUndelegateDeposit, DepositCommitLands
<1>4. ASSUME NEW q \in Payments, Escrow(q)
      PROVE  task'[p] = task[p]
  BY <1>1, <1>4 DEF Escrow, PreparePayment, DelegatePayment, OpenPayment,
     AcknowledgePayment, CancelPayment, ClaimPayment, AdvancePayment,
     RedactTerminalPayment, CommitAndUndelegatePayment, PaymentCommitLands, vars
<1> QED
  BY <1>1, <1>2, <1>3, <1>4 DEF Next

\* Only scheduling gives a payment a task.
LEMMA OthersKeepTaskId ==
    ASSUME IInv, [Next]_vars, NEW p \in Payments,
           ~\E actor \in Users : SchedulePayment(p, actor)
    PROVE  payment'[p].task_id = 0 \/ payment'[p].task_id = payment[p].task_id
<1>0. payment \in [Payments -> Payment]
  BY DEF IInv, TypeOK
<1>1. ASSUME NEW q \in Payments, NEW pay, Write(q, pay),
             q = p => pay.task_id = 0 \/ pay.task_id = payment[p].task_id
      PROVE  payment'[p].task_id = 0 \/ payment'[p].task_id = payment[p].task_id
  BY <1>0, <1>1 DEF Write
<1>2. /\ \A pay \in Payment : /\ Sealed(pay).task_id = 0
                             /\ Advanced(pay, now).task_id = pay.task_id
      /\ \A pay \in Payment : [pay EXCEPT !.status = "Acknowledged"].task_id = pay.task_id
      /\ \A pay \in Payment : [pay EXCEPT !.status = "Cancelled"] \in Payment
      /\ \A pay \in Payment : \A amount : Opened(pay, amount, now, config).task_id = 0
  BY DEF Sealed, Advanced, Opened, Payment, PaymentStatus
<1>3. ASSUME NEW q \in Payments, NEW actor \in Users,
             \/ \E amount \in Amounts : OpenPayment(q, actor, amount)
             \/ AcknowledgePayment(q, actor) \/ CancelPayment(q, actor)
             \/ ClaimPayment(q, actor)
      PROVE  payment'[p].task_id = 0 \/ payment'[p].task_id = payment[p].task_id
  <2>1. payment[q] \in Payment
    BY <1>0
  <2>2. ASSUME NEW amount \in Amounts, OpenPayment(q, actor, amount)
        PROVE  payment'[p].task_id = 0 \/ payment'[p].task_id = payment[p].task_id
    BY <1>1, <1>2, <2>1, <2>2 DEF OpenPayment
  <2>3. CASE AcknowledgePayment(q, actor)
    BY <1>1, <1>2, <2>1, <2>3 DEF AcknowledgePayment
  <2>4. CASE CancelPayment(q, actor)
    BY <1>1, <1>2, <2>1, <2>4 DEF CancelPayment
  <2>5. CASE ClaimPayment(q, actor)
    BY <1>1, <1>2, <2>1, <2>5 DEF ClaimPayment
  <2> QED
    BY <1>3, <2>2, <2>3, <2>4, <2>5
<1>4. ASSUME NEW q \in Payments, AdvancePayment(q) \/ CrankFires(q)
      PROVE  payment'[p].task_id = 0 \/ payment'[p].task_id = payment[p].task_id
  <2>1. CASE Write(q, Advanced(payment[q], now))
    BY <1>0, <1>1, <1>2, <2>1
  <2> QED
    BY <1>4, <2>1 DEF AdvancePayment, CrankFires
<1>5. ASSUME NEW q \in Payments, NEW actor \in Users, q # p, SchedulePayment(q, actor)
      PROVE  payment'[p].task_id = 0 \/ payment'[p].task_id = payment[p].task_id
  BY <1>1, <1>5 DEF SchedulePayment
<1>6. ASSUME NEW q \in Payments, NEW actor \in Users, NEW recipient \in Party,
             PreparePayment(q, actor, recipient)
      PROVE  payment'[p].task_id = 0 \/ payment'[p].task_id = payment[p].task_id
  BY <1>0, <1>6 DEF PreparePayment, Shell
<1>7. CASE UNCHANGED payment
  BY <1>7
<1>8. ASSUME NEW q \in Payments, Escrow(q) \/ CrankFires(q)
      PROVE  payment'[p].task_id = 0 \/ payment'[p].task_id = payment[p].task_id
  BY <1>3, <1>4, <1>5, <1>6, <1>7, <1>8 DEF Escrow, DelegatePayment,
     RedactTerminalPayment, CommitAndUndelegatePayment, PaymentCommitLands, vars
<1>9. ASSUME NEW u \in Users, Custody(u)
      PROVE  UNCHANGED payment
  BY <1>9 DEF Custody, InitializeDeposit, DepositUsdc, WithdrawUsdc,
     DelegateDeposit, CommitAndUndelegateDeposit, DepositCommitLands
<1>10. CASE Administration \/ Tick \/ UNCHANGED vars
  BY <1>7, <1>10
     DEF Administration, InitializeConfig, UpdateTimingPolicy, InitializeVault, Tick, vars
<1> QED
  BY <1>7, <1>8, <1>9, <1>10 DEF Next

\* A live payment stays on the rollup.
LEMMA LiveStays ==
    ASSUME IInv, [Next]_vars, NEW p \in Payments, Live(payment[p]), layer[p] = "er"
    PROVE  layer'[p] = "er"
<1>0. layer \in [Payments -> PaymentLayer]
  BY DEF IInv, TypeOK
<1>1. ASSUME NEW q \in Payments, q # p, Escrow(q)
      PROVE  layer'[p] = layer[p]
  BY <1>0, <1>1 DEF Escrow, PreparePayment, DelegatePayment, OpenPayment,
     AcknowledgePayment, CancelPayment, ClaimPayment, SchedulePayment, AdvancePayment,
     RedactTerminalPayment, CommitAndUndelegatePayment, PaymentCommitLands, vars
<1>2. CASE Escrow(p)
  BY <1>0, <1>2 DEF Escrow, PreparePayment, DelegatePayment, OpenPayment,
     AcknowledgePayment, CancelPayment, ClaimPayment, SchedulePayment, AdvancePayment,
     RedactTerminalPayment, CommitAndUndelegatePayment, PaymentCommitLands, vars, Live, Open
<1>3. CASE Administration \/ Tick \/ UNCHANGED vars
  BY <1>3 DEF Administration, InitializeConfig, UpdateTimingPolicy, InitializeVault, Tick, vars
<1>4. ASSUME NEW u \in Users, Custody(u)
      PROVE  layer'[p] = layer[p]
  BY <1>4 DEF Custody, InitializeDeposit, DepositUsdc, WithdrawUsdc,
     DelegateDeposit, CommitAndUndelegateDeposit, DepositCommitLands
<1>5. ASSUME NEW q \in Payments, CrankFires(q)
      PROVE  layer'[p] = layer[p]
  BY <1>5 DEF CrankFires
<1> QED
  BY <1>1, <1>2, <1>3, <1>4, <1>5 DEF Next

LEMMA ScheduleTasks ==
    ASSUME IInv, AllTimed, NEW p \in Payments, NEW actor \in Users, SchedulePayment(p, actor)
    PROVE  Tasked(payment'[p], task'[p], layer'[p])
<1>0. /\ payment \in [Payments -> Payment] /\ payment[p] \in Payment
      /\ task \in [Payments -> [left : 0..CrankIterations, due : Nat]]
      /\ now \in Int
  BY DEF IInv, TypeOK, Time
<1>1. /\ payment'[p] = [payment[p] EXCEPT !.task_id = 1]
      /\ task'[p] = [left |-> CrankIterations, due |-> now]
      /\ layer'[p] = "er" /\ Live(payment[p])
  BY <1>0 DEF SchedulePayment, Write
<1>2. /\ payment'[p].expires_at = payment[p].expires_at
      /\ payment[p].settle_after \in Int /\ payment[p].expires_at \in Int
      /\ payment[p].created_at \in Int
  BY <1>0, <1>1 DEF Payment, Time
<1>3. payment[p].expires_at <= now + Reach
  BY <1>0, <1>1, <1>2, ReachType DEF AllTimed, Timed
<1>4. CrankIterations > 0
  <2>1. 0 <= Reach
    BY <1>0, <1>1, <1>2, ReachType DEF AllTimed, Timed, Payment, Time
  <2>2. CASE CrankIterations = 0
    BY <2>1, <2>2, CrankAssumption DEF Reach
  <2> QED
    BY <2>2, CrankAssumption
<1> QED
  BY <1>1, <1>2, <1>3, <1>4 DEF Tasked, Reach

LEMMA CrankTasks ==
    ASSUME IInv, AllTimed, AllTasked, NEW p \in Payments, CrankFires(p)
    PROVE  Tasked(payment'[p], task'[p], layer'[p])
<1> DEFINE old == payment[p]
           new == payment'[p]
           n == task[p].left
           due == task[p].due
<1>0. /\ payment \in [Payments -> Payment] /\ old \in Payment
      /\ task \in [Payments -> [left : 0..CrankIterations, due : Nat]]
      /\ now \in Int /\ n \in Int /\ due \in Int /\ CrankInterval \in Int
      /\ layer' = layer /\ n > 0 /\ now >= due
  BY CrankAssumption DEF IInv, TypeOK, Time, CrankFires
<1>1. task'[p] = [left |-> n - 1, due |-> due + CrankInterval]
  BY <1>0 DEF CrankFires
<1>2. SUFFICES ASSUME new.task_id = 1, Live(new)
               PROVE  /\ layer'[p] = "er" /\ n - 1 > 0
                      /\ (due + CrankInterval) + ((n - 1) - 1) * CrankInterval
                            >= new.expires_at
  BY <1>1 DEF Tasked
<1>3. CASE layer[p] = "er" /\ old.initialized
  <2>1. new = Advanced(old, now)
    BY <1>0, <1>3 DEF CrankFires, Write
  <2>2. new = old /\ now < old.expires_at
    <3>1. Live(old) /\ new = old
      BY <1>0, <1>2, <2>1 DEF Advanced, Payment, Live, Open, Terminal
    <3>2. old.status \in {"Created", "Acknowledged"}
      BY <1>0, <3>1 DEF Live, Terminal, Payment, PaymentStatus
    <3>3. old.settle_after <= old.expires_at
      BY <3>1 DEF AllTimed, Timed
    <3>4. old.settle_after \in Int /\ old.expires_at \in Int
      BY <1>0 DEF Payment, Time
    <3>5. CASE old.status = "Created"
      <4>1. ~(now >= old.expires_at)
        BY <1>0, <2>1, <3>1, <3>5 DEF Advanced, Payment
      <4> QED
        BY <1>0, <3>1, <3>4, <4>1
    <3>6. CASE old.status = "Acknowledged"
      <4>1. ~(now >= old.settle_after)
        BY <1>0, <2>1, <3>1, <3>6 DEF Advanced, Payment
      <4> QED
        BY <1>0, <3>1, <3>3, <3>4, <4>1
    <3> QED
      BY <3>2, <3>5, <3>6
  <2>3. due + (n - 1) * CrankInterval >= old.expires_at /\ old.expires_at \in Int
    BY <1>0, <1>2, <2>2 DEF AllTasked, Tasked, Payment, Time
  <2>4. n # 1
    <3>1. n = 1 => (n - 1) * CrankInterval = 0
      BY <1>0
    <3> HIDE DEF n, due, old, new
    <3> QED
      BY <1>0, <2>2, <2>3, <3>1
  <2>5. (due + CrankInterval) + ((n - 1) - 1) * CrankInterval = due + (n - 1) * CrankInterval
    BY <1>0
  <2> HIDE DEF n, due
  <2> QED
    BY <1>0, <1>3, <2>2, <2>3, <2>4, <2>5
<1>4. CASE ~(layer[p] = "er" /\ old.initialized)
  <2>1. new = old
    BY <1>4 DEF CrankFires
  <2> QED
    BY <1>2, <1>4, <2>1 DEF AllTasked, Tasked, Live, Open
<1> QED
  BY <1>3, <1>4

LEMMA StepTasked ==
    ASSUME IInv, AllTimed, AllTasked, [Next]_vars
    PROVE  AllTasked'
<1> SUFFICES ASSUME NEW p \in Payments
             PROVE  Tasked(payment'[p], task'[p], layer'[p])
  BY DEF AllTasked
<1>1. CASE \E actor \in Users : SchedulePayment(p, actor)
  BY <1>1, ScheduleTasks
<1>2. CASE CrankFires(p)
  BY <1>2, CrankTasks
<1>3. CASE ~(\E actor \in Users : SchedulePayment(p, actor)) /\ ~CrankFires(p)
  <2>1. task'[p] = task[p]
    BY <1>3, OthersKeepTasks
  <2>2. SUFFICES ASSUME payment'[p].task_id = 1, Live(payment'[p])
                 PROVE  /\ payment[p].task_id = 1 /\ Live(payment[p])
                        /\ payment'[p].expires_at = payment[p].expires_at
    BY <2>1, LiveStays DEF AllTasked, Tasked
  <2>3. payment[p] \in Payment /\ payment'[p] \in Payment /\ now \in Time
    BY StepType DEF IInv, TypeOK
  <2>4. Change(payment[p], payment'[p], now)
    BY IInvLayers, StepChange DEF IInv
  <2>5. payment[p].task_id = 1
    BY <1>3, <2>2, OthersKeepTaskId
  <2> QED
    BY <2>2, <2>3, <2>4, <2>5, ChangeTasked
<1> QED
  BY <1>1, <1>2, <1>3

-----------------------------------------------------------------------------
(* The theorem *)

\* If no claim window the authority configures exceeds the reach of the fixed
\* schedule (five minutes: six iterations one minute apart, the first one due at
\* once), a scheduled payment is over before its task is spent.
THEOREM CrankReachesTheDeadline ==
    ASSUME \A w \in Windows : w <= Reach
    PROVE  Spec => []CrankOutlivesPayment
<1>1. Init => AllTimed /\ AllTasked
  BY DEF Init, NoPayment, Shell, AllTimed, AllTasked, Timed, Tasked, Live, Open
<1>2. IInv /\ AllTimed /\ AllTasked /\ [Next]_vars => AllTimed' /\ AllTasked'
  <2> SUFFICES ASSUME IInv, AllTimed, AllTasked, [Next]_vars
               PROVE  AllTimed' /\ AllTasked'
    OBVIOUS
  <2>1. now \in Time /\ now' \in Time /\ now <= now'
    BY StepType, ClockMovesOn DEF IInv, TypeOK
  <2>2. ASSUME NEW p \in Payments
        PROVE  Timed(payment'[p], now')
    <3>1. payment[p] \in Payment /\ payment'[p] \in Payment
      BY StepType DEF IInv, TypeOK
    <3>2. Change(payment[p], payment'[p], now)
      BY IInvLayers, StepChange DEF IInv
    <3>3. Timed(payment'[p], now)
      BY <2>1, <3>1, <3>2, ChangeTimed DEF AllTimed
    <3>4. payment'[p].created_at \in Int
      BY <3>1 DEF Payment, Time
    <3> QED
      BY <2>1, <3>3, <3>4 DEF Timed, Time
  <2> QED
    BY <2>2, StepTasked DEF AllTimed
<1>3. AllTasked => CrankOutlivesPayment
  BY DEF AllTasked, Tasked, CrankOutlivesPayment
<1> QED
  BY <1>1, <1>2, <1>3, InvariantHolds, PTL DEF Spec
=============================================================================
