------------------------ MODULE PaymentOperation_proofs ------------------------
(* Machine-checked proofs about PaymentOperation, for every set of tabs and  *)
(* every bound.                                                              *)
EXTENDS PaymentOperation, TLAPS

-----------------------------------------------------------------------------
(* Type correctness *)

Checkpoints == PaymentOperationCheckpoint
Page == [checkpoint : Checkpoints, run : Checkpoints, at : Steps, side : Sides]
Transaction == [side : Sides, id : PaymentIds, late : BOOLEAN,
                state : {"lost", "sent", "landed", "failed"}]

Typed ==
    /\ stored \in Checkpoints
    /\ lease \in [owner : Tabs \cup {Gone, Nobody}, fresh : BOOLEAN]
    /\ mail \in [Tabs -> Seq(Checkpoints)]
    /\ page \in [Tabs -> Page]
    /\ tx \in Seq(Transaction) /\ Len(tx) <= MaxTxs
    /\ ids \in 0..MaxPayments
    /\ shell \in [PaymentIds -> {"none", "confirmed", "finalized"}]
    /\ escrow \in [PaymentIds -> {"none", "open", "sealed"}]
    /\ available \in Nat
    /\ receipts \subseteq Checkpoints
    /\ mishaps \in [Mishaps -> Nat]

\* Everything a tab or the storage knows is sound.
Held(t) == {page[t].checkpoint, page[t].run} \cup {mail[t][i] : i \in DOMAIN mail[t]}
AllSound ==
    /\ \A c \in {stored} \cup receipts : Sound(c)
    /\ \A t \in Tabs : \A c \in Held(t) : Sound(c)

\* A tab past its first await runs the operation of a payment.
Working == Steps \ {"idle", "done", "create", "closing"}
Named(p) == p.at \in Working => p.run.id # 0
AllNamed == \A t \in Tabs : Named(page[t])

Typical == Typed /\ AllSound /\ AllNamed

\* A transaction keeps what it is, whatever becomes of it.
TxKept ==
    /\ tx' \in Seq(Transaction) /\ Len(tx') <= MaxTxs
    /\ DOMAIN tx \subseteq DOMAIN tx'
    /\ \A x \in DOMAIN tx : tx'[x].side = tx[x].side /\ tx'[x].id = tx[x].id

LEMMA StaysSound ==
    ASSUME TxKept, NEW c, Sound(c) PROVE Sound(c)'
BY DEF TxKept, Sound

LEMMA NoCheckpointSound == NoCheckpoint \in Checkpoints /\ Sound(NoCheckpoint)
BY BoundAssumption
   DEF NoCheckpoint, Checkpoints, PaymentOperationCheckpoint, Signature, Sound, Sides

\* Only the absence of a checkpoint has the id 0.
LEMMA ZeroIsNone ==
    ASSUME Typed, NEW c \in Checkpoints, Sound(c), c.id = 0
    PROVE  c = NoCheckpoint
<1>1. \A x \in DOMAIN tx : tx[x] \in Transaction
  BY DEF Typed
<1>2. \A x \in DOMAIN tx : tx[x].id # 0
  BY <1>1 DEF Transaction, PaymentIds
<1>3. c["public"] = 0 /\ c["private"] = 0
  BY <1>2 DEF Sound, Sides
<1> QED
  BY <1>3 DEF NoCheckpoint, Checkpoints, PaymentOperationCheckpoint

LEMMA CheckpointUpdate ==
    ASSUME NEW c \in Checkpoints, NEW side \in Sides, NEW n \in Signature
    PROVE  /\ [c EXCEPT ![side] = n] \in Checkpoints
           /\ [c EXCEPT ![side] = n].id = c.id
           /\ [c EXCEPT ![side] = n][side] = n
           /\ \A s \in Sides : s # side => [c EXCEPT ![side] = n][s] = c[s]
<1> USE DEF Checkpoints, PaymentOperationCheckpoint, Sides
<1>1. CASE side = "public"
  <2>1. [c EXCEPT ![side] = n] = [c EXCEPT !.public = n]
    BY <1>1
  <2>2. [c EXCEPT !.public = n]["private"] = c["private"]
    OBVIOUS
  <2> QED
    BY <1>1, <2>1, <2>2
<1>2. CASE side = "private"
  <2>1. [c EXCEPT ![side] = n] = [c EXCEPT !.private = n]
    BY <1>2
  <2>2. [c EXCEPT !.private = n]["public"] = c["public"]
    OBVIOUS
  <2> QED
    BY <1>2, <2>1, <2>2
<1> QED
  BY <1>1, <1>2

LEMMA Concatenation ==
    ASSUME NEW S, NEW u \in Seq(S), NEW v \in Seq(S)
    PROVE  /\ u \o v \in Seq(S)
           /\ Len(u \o v) = Len(u) + Len(v)
           /\ \A j \in 1..(Len(u) + Len(v)) :
                 (u \o v)[j] = IF j <= Len(u) THEN u[j] ELSE v[j - Len(u)]
OBVIOUS

LEMMA Cut ==
    ASSUME NEW S, NEW s \in Seq(S), NEW i \in DOMAIN s
    PROVE  \E u, v \in Seq(S) :
              /\ Len(u) = i - 1 /\ Len(v) = Len(s) - i
              /\ \A j \in 1..(i - 1) : u[j] = s[j]
              /\ \A j \in 1..(Len(s) - i) : v[j] = s[i + j]
              /\ RemoveAt(s, i) = u \o v
<1> DEFINE u == SubSeq(s, 1, i - 1)
           v == SubSeq(s, i + 1, Len(s))
<1>1. u \in Seq(S) /\ Len(u) = i - 1 /\ \A j \in 1..(i - 1) : u[j] = s[j]
  OBVIOUS
<1>2. v \in Seq(S) /\ Len(v) = Len(s) - i /\ \A j \in 1..(Len(s) - i) : v[j] = s[i + j]
  OBVIOUS
<1>3. RemoveAt(s, i) = u \o v
  BY DEF RemoveAt
<1> HIDE DEF u, v
<1> QED
  BY <1>1, <1>2, <1>3

LEMMA RemoveAtType ==
    ASSUME NEW S, NEW s \in Seq(S), NEW i \in DOMAIN s
    PROVE  /\ RemoveAt(s, i) \in Seq(S)
           /\ Len(RemoveAt(s, i)) = Len(s) - 1
           /\ \A j \in 1..(Len(s) - 1) : RemoveAt(s, i)[j] = IF j < i THEN s[j] ELSE s[j + 1]
<1>1. PICK u \in Seq(S), v \in Seq(S) :
          /\ Len(u) = i - 1 /\ Len(v) = Len(s) - i
          /\ \A j \in 1..(i - 1) : u[j] = s[j]
          /\ \A j \in 1..(Len(s) - i) : v[j] = s[i + j]
          /\ RemoveAt(s, i) = u \o v
  BY Cut
<1>2. i \in 1..Len(s) /\ Len(s) \in Nat
  OBVIOUS
<1>3. Len(u) + Len(v) = Len(s) - 1
  BY <1>1, <1>2
<1> DEFINE w == u \o v
<1>4. /\ w \in Seq(S) /\ Len(w) = Len(u) + Len(v)
      /\ \A j \in 1..(Len(u) + Len(v)) : w[j] = IF j <= Len(u) THEN u[j] ELSE v[j - Len(u)]
  BY Concatenation, Zenon
<1>5. RemoveAt(s, i) = w
  BY <1>1
<1> HIDE DEF w
<1>6. /\ w \in Seq(S) /\ Len(w) = Len(s) - 1
      /\ \A j \in 1..(Len(s) - 1) : w[j] = IF j <= i - 1 THEN u[j] ELSE v[j - (i - 1)]
  BY <1>1, <1>3, <1>4
<1>7. ASSUME NEW j \in 1..(Len(s) - 1) PROVE w[j] = IF j < i THEN s[j] ELSE s[j + 1]
  <2>1. CASE j < i
    <3>1. j \in 1..(i - 1) /\ j <= i - 1
      BY <1>2, <2>1
    <3> QED
      BY <1>1, <1>6, <2>1, <3>1
  <2>2. CASE ~(j < i)
    <3>1. j - (i - 1) \in 1..(Len(s) - i) /\ i + (j - (i - 1)) = j + 1 /\ ~(j <= i - 1)
      BY <1>2, <2>2
    <3> QED
      BY <1>1, <1>6, <2>2, <3>1
  <2> QED
    BY <2>1, <2>2
<1> QED
  BY <1>5, <1>6, <1>7

\* A tab's step that moves known checkpoints about in its page.
Shuffles(t, next) ==
    /\ page' = [page EXCEPT ![t] = next]
    /\ next \in Page /\ Named(next)
    /\ {next.checkpoint, next.run} \subseteq {page[t].checkpoint, page[t].run, stored, NoCheckpoint}
    /\ mail' = mail \/ mail' = [mail EXCEPT ![t] = << >>]
    /\ UNCHANGED <<stored, ids, chain, receipts>>

LEMMA ShufflesType ==
    ASSUME Typical, NEW t \in Tabs, NEW next, Shuffles(t, next),
           lease' \in [owner : Tabs \cup {Gone, Nobody}, fresh : BOOLEAN],
           mishaps' \in [Mishaps -> Nat]
    PROVE  Typical' /\ TxKept
<1> USE DEF Typical
<1>1. TxKept
  BY DEF Shuffles, chain, TxKept, Typed
<1>2. Typed'
  <2>1. mail' \in [Tabs -> Seq(Checkpoints)]
    <3>1. << >> \in Seq(Checkpoints)
      OBVIOUS
    <3> QED
      BY <3>1 DEF Shuffles, Typed
  <2>2. page' \in [Tabs -> Page]
    BY DEF Shuffles, Typed
  <2> QED
    BY <2>1, <2>2 DEF Shuffles, chain, Typed
<1>3. \A u \in Tabs : page'[u] = IF u = t THEN next ELSE page[u]
  BY DEF Shuffles, Typed
<1>4. \A u \in Tabs : mail'[u] = mail[u] \/ mail'[u] = << >>
  BY DEF Shuffles, Typed
<1>5. AllSound'
  <2>1. \A c : Sound(c) => Sound(c)'
    BY <1>1, StaysSound
  <2>2. \A c \in {next.checkpoint, next.run} : Sound(c)
    BY NoCheckpointSound DEF Shuffles, AllSound, Held
  <2>3. \A u \in Tabs : Held(u)' \subseteq Held(u) \cup {next.checkpoint, next.run}
    BY <1>3, <1>4 DEF Held
  <2> QED
    BY <2>1, <2>2, <2>3 DEF AllSound, Shuffles
<1>6. AllNamed'
  BY <1>3 DEF Shuffles, AllNamed
<1> QED
  BY <1>1, <1>2, <1>5, <1>6

LEMMA SufferType ==
    ASSUME mishaps \in [Mishaps -> Nat], NEW m \in Mishaps, Suffer(m)
    PROVE  mishaps' \in [Mishaps -> Nat]
BY DEF Suffer

LEMMA ActsType ==
    ASSUME mishaps \in [Mishaps -> Nat], NEW t \in Tabs, ActsOnPage(t)
    PROVE  mishaps' \in [Mishaps -> Nat]
BY SufferType DEF ActsOnPage, Mishaps

\* A tab's step that saves a checkpoint.
LEMMA PersistType ==
    ASSUME Typical, TxKept, NEW t \in Tabs, NEW c \in Checkpoints, NEW next \in Page,
           Sound(c)', Sound(next.run)', Named(next), Persist(t, c, next),
           lease' = lease \/ Refreshed(t), receipts' \subseteq receipts \cup {page[t].run},
           ids' \in 0..MaxPayments, UNCHANGED <<shell, escrow, available>>
    PROVE  Typical'
<1> USE DEF Typical
<1> PICK saved : saved = [next EXCEPT !.checkpoint = c]
  OBVIOUS
<1>1. saved \in Page /\ saved.checkpoint = c /\ saved.run = next.run /\ Named(saved)
  BY DEF Page, Named
<1>2. /\ page' \in [Tabs -> Page]
      /\ \A u \in Tabs : page'[u] = IF u = t THEN saved ELSE page[u]
  BY <1>1 DEF Persist, Typed
<1>3. \A u \in Tabs : mail'[u] = mail[u] \/ mail'[u] = Append(mail[u], c)
  BY DEF Persist, Store
<1>4. mail' \in [Tabs -> Seq(Checkpoints)]
  BY DEF Persist, Store, Typed
<1>5. mishaps' \in [Mishaps -> Nat] /\ stored' = c
  BY ActsType DEF Persist, Store, Typed
<1>6. page[t].run \in Checkpoints /\ Sound(page[t].run)
  BY DEF Typed, Page, AllSound, Held
<1>7. Typed'
  <2>1. lease' \in [owner : Tabs \cup {Gone, Nobody}, fresh : BOOLEAN]
    <3>1. [owner |-> t, fresh |-> TRUE] \in [owner : Tabs \cup {Gone, Nobody}, fresh : BOOLEAN]
      OBVIOUS
    <3> QED
      BY <3>1 DEF Typed, Refreshed
  <2>2. receipts' \subseteq Checkpoints
    BY <1>6 DEF Typed
  <2> QED
    BY <1>2, <1>4, <1>5, <2>1, <2>2 DEF Typed, TxKept
<1>8. AllSound'
  <2>1. \A d : Sound(d) => Sound(d)'
    BY StaysSound
  <2>2. \A u \in Tabs : Held(u)' \subseteq Held(u) \cup {c, next.run}
    <3> SUFFICES ASSUME NEW u \in Tabs PROVE Held(u)' \subseteq Held(u) \cup {c, next.run}
      OBVIOUS
    <3>1. mail[u] \in Seq(Checkpoints)
      BY DEF Typed
    <3>2. \A i \in DOMAIN mail'[u] :
              mail'[u][i] = c \/ (i \in DOMAIN mail[u] /\ mail'[u][i] = mail[u][i])
      BY <1>3, <3>1
    <3>3. \A d \in {mail'[u][i] : i \in DOMAIN mail'[u]} :
              d = c \/ d \in {mail[u][i] : i \in DOMAIN mail[u]}
      BY <3>2
    <3>4. {page'[u].checkpoint, page'[u].run} \subseteq {page[u].checkpoint, page[u].run, c, next.run}
      BY <1>1, <1>2
    <3> QED
      BY <3>3, <3>4 DEF Held
  <2>3. \A d \in receipts' : Sound(d)'
    BY <1>6, <2>1 DEF AllSound
  <2> QED
    BY <1>5, <2>1, <2>2, <2>3 DEF AllSound
<1>9. AllNamed'
  BY <1>1, <1>2 DEF AllNamed
<1> QED
  BY <1>7, <1>8, <1>9

LEMMA GoType ==
    ASSUME Typical, NEW t \in Tabs, NEW step \in Steps, Go(t, step),
           page[t].at \in Working \/ step \notin Working, UNCHANGED <<ids, chain>>
    PROVE  Typical' /\ TxKept
<1> USE DEF Typical
<1> DEFINE next == [page[t] EXCEPT !.at = step]
<1>1. page[t] \in Page /\ Named(page[t])
  BY DEF Typed, AllNamed
<1>2. next \in Page /\ Named(next)
  BY <1>1 DEF Page, Named
<1>3. Shuffles(t, next)
  BY <1>1, <1>2 DEF Shuffles, Go, Moved, Unwritten, Page
<1>4. lease' \in [owner : Tabs \cup {Gone, Nobody}, fresh : BOOLEAN] /\ mishaps' \in [Mishaps -> Nat]
  BY DEF Go, Typed
<1> HIDE DEF next
<1> QED
  BY <1>3, <1>4, ShufflesType

LEMMA ReleasedType ==
    ASSUME Typed, NEW t \in Tabs, Released(t)
    PROVE  lease' \in [owner : Tabs \cup {Gone, Nobody}, fresh : BOOLEAN]
BY DEF Released, Typed

LEMMA ThrowType ==
    ASSUME Typical, NEW t \in Tabs, Throw(t), mishaps' \in [Mishaps -> Nat],
           UNCHANGED <<ids, chain, receipts>>
    PROVE  Typical' /\ TxKept
<1> USE DEF Typical
<1> DEFINE next == [page[t] EXCEPT !.run = NoCheckpoint, !.at = "idle"]
<1>1. page[t] \in Page /\ Named(page[t])
  BY DEF Typed, AllNamed
<1>2. next \in Page /\ Named(next) /\ next.checkpoint = page[t].checkpoint /\ next.run = NoCheckpoint
  BY <1>1, NoCheckpointSound DEF Page, Named, Steps, Working
<1>3. page' = [page EXCEPT ![t] = next]
  BY DEF Throw
<1> HIDE DEF next
<1>4. Shuffles(t, next)
  BY <1>2, <1>3 DEF Shuffles, Throw, Unwritten
<1> QED
  BY <1>4, ShufflesType, ReleasedType DEF Throw

LEMMA StopType ==
    ASSUME Typical, NEW t \in Tabs, Stop(t), UNCHANGED <<ids, chain>>
    PROVE  Typical' /\ TxKept
BY ThrowType DEF Stop, Typical, Typed

\* Whatever is saved without touching the transactions.
LEMMA SavesType ==
    ASSUME Typical, NEW t \in Tabs, NEW c \in Checkpoints, Sound(c), NEW next \in Page,
           next.run = c \/ next.run = page[t].run, Named(next), Persist(t, c, next),
           UNCHANGED <<lease, chain>>, receipts' \subseteq receipts \cup {page[t].run},
           ids' \in 0..MaxPayments
    PROVE  Typical' /\ TxKept
<1>1. TxKept
  BY DEF Typical, chain, TxKept, Typed
<1>2. Sound(page[t].run)
  BY DEF Typical, AllSound, Held
<1>3. \A d : Sound(d) => Sound(d)'
  BY <1>1, StaysSound
<1> QED
  BY <1>1, <1>2, <1>3, PersistType DEF chain

LEMMA ReachedType ==
    ASSUME Typical, NEW t \in Tabs, page[t].at \in Working, Reached(t), UNCHANGED <<ids, chain>>
    PROVE  Typical' /\ TxKept
<1> USE DEF Typical
<1>1. page[t] \in Page /\ Named(page[t])
  BY DEF Typed, AllNamed
<1>2. CASE page[t].side = "private" /\ ~Stop(t)
  <2> DEFINE next == [page[t] EXCEPT !.at = "closing"]
  <2>1. next \in Page /\ Named(next) /\ next.run = page[t].run
    BY <1>1 DEF Page, Named, Steps, Working
  <2>2. /\ Persist(t, NoCheckpoint, next) /\ UNCHANGED lease
        /\ receipts' \subseteq receipts \cup {page[t].run}
    BY <1>2 DEF Reached, Receipt
  <2>3. ids' \in 0..MaxPayments
    BY DEF Typed
  <2> HIDE DEF next
  <2> QED
    BY <2>1, <2>2, <2>3, NoCheckpointSound, SavesType
<1>3. CASE page[t].side # "private" /\ ~Stop(t)
  <2> DEFINE next == [page[t] EXCEPT !.side = "private", !.at = "read"]
  <2>1. next \in Page /\ Named(next) /\ next.run = page[t].run /\ next.checkpoint = page[t].checkpoint
    BY <1>1, <1>3 DEF Page, Named, Steps, Working, Sides
  <2>2. page' = [page EXCEPT ![t] = next] /\ UNCHANGED <<stored, mail, lease, receipts, mishaps>>
    BY <1>3 DEF Reached, Unwritten
  <2> HIDE DEF next
  <2>3. Shuffles(t, next)
    BY <2>1, <2>2 DEF Shuffles
  <2> QED
    BY <2>2, <2>3, ShufflesType DEF Typed
<1> QED
  BY <1>2, <1>3, StopType

LEMMA RunType ==
    ASSUME Typical, NEW t \in Tabs, Run(t)
    PROVE  Typical' /\ TxKept
<1> USE DEF Typical
<1>1. page[t] \in Page /\ Named(page[t]) /\ Sound(page[t].run)
  BY DEF Typed, AllNamed, AllSound, Held
<1> DEFINE Works == page[t].at \in Working
<1>2. CASE CreateCheckpoint(t)
  <2> PICK fresh : fresh = [NoCheckpoint EXCEPT !.id = ids + 1]
    OBVIOUS
  <2> DEFINE next == [page[t] EXCEPT !.run = fresh, !.at = "guard"]
  <2>0. ids + 1 \in 0..MaxPayments /\ ids + 1 # 0
    BY <1>2, BoundAssumption DEF CreateCheckpoint, Typed
  <2>1. fresh \in Checkpoints /\ fresh.id # 0 /\ Sound(fresh)
    BY <2>0, BoundAssumption
       DEF NoCheckpoint, Checkpoints, PaymentOperationCheckpoint, Signature, Sound, Sides
  <2>2. next \in Page /\ Named(next) /\ next.run = fresh
    BY <1>1, <2>1 DEF Page, Named, Steps, Working
  <2>3. Persist(t, fresh, next) /\ UNCHANGED <<lease, chain, receipts>> /\ ids' = ids + 1
    BY <1>2 DEF CreateCheckpoint
  <2> HIDE DEF next
  <2> QED
    BY <2>0, <2>1, <2>2, <2>3, SavesType
<1>3. CASE RequireAvailableBalance(t)
  BY <1>3, GoType, StopType DEF RequireAvailableBalance, At, Steps, Working
<1>4. CASE SignatureStatus(t)
  <2>1. PICK step \in {"doubt", "read", "wait", "height"} : Go(t, step)
    BY <1>4 DEF SignatureStatus
  <2> QED
    BY <1>4, <2>1, GoType DEF SignatureStatus, At, Steps, Working
<1>5. CASE BlockHeight(t)
  BY <1>5, GoType, StopType DEF BlockHeight, At, Steps, Working
<1>6. CASE ReconcileExpired(t)
  <2>0. page[t].at \in Working
    BY <1>6 DEF ReconcileExpired, At, Working, Steps
  <2>1. CASE Reached(t) \/ Stop(t)
    BY <1>6, <2>0, <2>1, ReachedType, StopType DEF ReconcileExpired
  <2>2. CASE ~(Reached(t) \/ Stop(t))
    <3> PICK cleared : cleared = [page[t].run EXCEPT ![page[t].side] = 0]
      OBVIOUS
    <3> DEFINE step == IF page[t].side = "public" THEN "read" ELSE "sign"
               next == [page[t] EXCEPT !.run = cleared, !.at = step]
    <3>1. page[t].run \in Checkpoints /\ page[t].side \in Sides /\ 0 \in Signature
      BY <1>1, BoundAssumption DEF Page, Signature
    <3>2. /\ cleared \in Checkpoints /\ cleared.id = page[t].run.id /\ cleared[page[t].side] = 0
          /\ \A s \in Sides : s # page[t].side => cleared[s] = page[t].run[s]
      BY <3>1, CheckpointUpdate
    <3>3. Sound(cleared)
      BY <1>1, <3>2 DEF Sound
    <3>4. next \in Page /\ Named(next) /\ next.run = cleared
      BY <1>1, <2>0, <3>2 DEF Page, Named, Steps
    <3>5. Persist(t, cleared, next) /\ UNCHANGED <<lease, chain, receipts, ids>>
      BY <1>6, <2>2 DEF ReconcileExpired
    <3>6. ids' \in 0..MaxPayments
      BY <3>5 DEF Typed
    <3> HIDE DEF next
    <3> QED
      BY <3>2, <3>3, <3>4, <3>5, <3>6, SavesType
  <2> QED
    BY <2>1, <2>2
<1>7. CASE ReadPayment(t)
  <2>0. page[t].at \in Working
    BY <1>7 DEF ReadPayment, At, Working, Steps
  <2>1. UNCHANGED <<ids, chain>> /\ (Reached(t) \/ Stop(t)
            \/ \E step \in {"sign", "wait", "status"} : Go(t, step))
    BY <1>7 DEF ReadPayment
  <2> QED
    BY <2>0, <2>1, ReachedType, StopType, GoType DEF Steps
<1>8. CASE WaitForPayment(t)
  BY <1>8, ReachedType, StopType DEF WaitForPayment, At, Steps, Working
<1>9. CASE SignTransaction(t)
  <2>1. CASE Stop(t)
    BY <1>9, <2>1, StopType DEF SignTransaction
  <2>2. CASE ~Stop(t)
    <3> DEFINE next == [page[t] EXCEPT !.at = "save"]
    <3>1. next \in Page /\ Named(next) /\ next.run = page[t].run /\ next.checkpoint = page[t].checkpoint
      BY <1>1, <1>9 DEF Page, Named, Steps, Working, SignTransaction, At
    <3>2. page' = [page EXCEPT ![t] = next] /\ Refreshed(t)
          /\ UNCHANGED <<stored, mail, receipts, mishaps, ids, chain>>
      BY <1>9, <2>2 DEF SignTransaction, Moved, Unwritten
    <3> HIDE DEF next
    <3>3. Shuffles(t, next)
      BY <3>1, <3>2 DEF Shuffles
    <3>4. lease' \in [owner : Tabs \cup {Gone, Nobody}, fresh : BOOLEAN] /\ mishaps' \in [Mishaps -> Nat]
      BY <3>2 DEF Refreshed, Typed
    <3> QED
      BY <3>3, <3>4, ShufflesType
  <2> QED
    BY <2>1, <2>2
<1>10. CASE SaveAndSend(t)
  <2>1. CASE ~Owns(t)
    BY <1>10, <2>1, StopType DEF SaveAndSend, chain
  <2>2. CASE Owns(t)
    <3>0. page[t].run \in Checkpoints /\ page[t].side \in Sides /\ page[t].run.id # 0
      BY <1>1, <1>10 DEF Page, Named, SaveAndSend, At, Working, Steps
    <3>1. page[t].run.id \in PaymentIds
      BY <3>0, BoundAssumption DEF Checkpoints, PaymentOperationCheckpoint, PaymentIds
    <3> PICK state \in {"sent", "lost"} :
             tx' = Append(tx, [side |-> page[t].side, id |-> page[t].run.id,
                               late |-> FALSE, state |-> state])
      BY <1>10, <2>2 DEF SaveAndSend
    <3> PICK x, new, saved :
             /\ x = Len(tx) + 1 /\ saved = [page[t].run EXCEPT ![page[t].side] = x]
             /\ new = [side |-> page[t].side, id |-> page[t].run.id, late |-> FALSE, state |-> state]
      OBVIOUS
    <3>2. new \in Transaction /\ new.side = page[t].side /\ new.id = page[t].run.id
      BY <3>0, <3>1 DEF Transaction
    <3>3. x \in Signature /\ Len(tx) < MaxTxs
      BY <1>10, <2>2, BoundAssumption DEF SaveAndSend, Signature, Typed
    <3>4. tx' \in Seq(Transaction) /\ Len(tx') = x /\ tx'[x] = new
          /\ \A y \in DOMAIN tx : tx'[y] = tx[y]
      BY <3>2 DEF Typed
    <3>5. DOMAIN tx' = DOMAIN tx \cup {x}
      BY <3>4 DEF Typed
    <3>6. TxKept
      BY <3>3, <3>4, <3>5, BoundAssumption DEF TxKept, Typed
    <3>7. /\ saved \in Checkpoints /\ saved.id = page[t].run.id /\ saved[page[t].side] = x
          /\ \A s \in Sides : s # page[t].side => saved[s] = page[t].run[s]
      BY <3>0, <3>3, CheckpointUpdate
    <3>8. Sound(saved)'
      <4> SUFFICES ASSUME NEW s \in Sides, saved[s] # 0
                   PROVE  saved[s] \in DOMAIN tx' /\ tx'[saved[s]].side = s /\ tx'[saved[s]].id = saved.id
        BY DEF Sound
      <4>1. CASE s = page[t].side
        BY <3>2, <3>4, <3>5, <3>7, <4>1
      <4>2. CASE s # page[t].side
        BY <1>1, <3>4, <3>5, <3>7, <4>2 DEF Sound
      <4> QED
        BY <4>1, <4>2
    <3> DEFINE next == [page[t] EXCEPT !.run = saved, !.at = "poll"]
    <3>9. next \in Page /\ Named(next) /\ next.run = saved
      BY <1>1, <3>0, <3>7 DEF Page, Named, Steps
    <3>10. /\ Persist(t, saved, next) /\ Refreshed(t)
           /\ UNCHANGED <<receipts, ids, shell, escrow, available>>
      BY <1>10, <2>2 DEF SaveAndSend
    <3>11. ids' \in 0..MaxPayments
      BY <3>10 DEF Typed
    <3> HIDE DEF next
    <3> QED
      BY <3>6, <3>7, <3>8, <3>9, <3>10, <3>11, PersistType
  <2> QED
    BY <2>1, <2>2
<1>11. CASE PollConfirmation(t)
  BY <1>11, GoType, StopType DEF PollConfirmation, At, Steps, Working
<1>12. CASE Close(t)
  <2> DEFINE next == [page[t] EXCEPT !.run = NoCheckpoint, !.at = "done"]
  <2>1. next \in Page /\ Named(next) /\ next.run = NoCheckpoint /\ next.checkpoint = page[t].checkpoint
    BY <1>1, NoCheckpointSound DEF Page, Named, Steps, Working
  <2>2. page' = [page EXCEPT ![t] = next]
        /\ UNCHANGED <<stored, mail, ids, chain, receipts, mishaps>>
    BY <1>12 DEF Close
  <2> HIDE DEF next
  <2>3. Shuffles(t, next)
    BY <2>1, <2>2 DEF Shuffles
  <2> QED
    BY <1>12, <2>2, <2>3, ShufflesType, ReleasedType DEF Close, Typed
<1> QED
  BY <1>2, <1>3, <1>4, <1>5, <1>6, <1>7, <1>8, <1>9, <1>10, <1>11, <1>12 DEF Run

\* The network changes what becomes of a transaction, and nothing a tab holds.
LEMMA NetworkType ==
    ASSUME Typical, TxKept, UNCHANGED <<stored, mail, page, ids, receipts>>,
           lease' \in [owner : Tabs \cup {Gone, Nobody}, fresh : BOOLEAN],
           shell' \in [PaymentIds -> {"none", "confirmed", "finalized"}],
           escrow' \in [PaymentIds -> {"none", "open", "sealed"}],
           available' \in Nat, mishaps' \in [Mishaps -> Nat]
    PROVE  Typical'
<1> USE DEF Typical
<1>1. Typed' /\ AllNamed'
  BY DEF Typed, TxKept, AllNamed
<1>2. \A c : Sound(c) => Sound(c)'
  BY StaysSound
<1>3. \A t \in Tabs : Held(t)' = Held(t)
  BY DEF Held
<1>4. AllSound'
  BY <1>2, <1>3 DEF AllSound
<1> QED
  BY <1>1, <1>4

LEMMA FateKept ==
    ASSUME Typed, NEW x \in DOMAIN tx, NEW next \in Transaction,
           next.side = tx[x].side, next.id = tx[x].id, tx' = [tx EXCEPT ![x] = next]
    PROVE  TxKept
BY DEF Typed, TxKept

LEMMA OthersType ==
    ASSUME Typical,
           \/ LeaseExpires
           \/ \E x \in DOMAIN tx : Lands(x) \/ PassesLastValid(x)
           \/ \E i \in PaymentIds : Finalizes(i) \/ Seals(i)
    PROVE  Typical' /\ TxKept
<1> USE DEF Typical
<1>1. CASE LeaseExpires
  <2>1. TxKept
    BY <1>1 DEF LeaseExpires, chain, TxKept, Typed
  <2>2. mishaps' \in [Mishaps -> Nat]
    BY <1>1, SufferType DEF LeaseExpires, Mishaps, Typed
  <2> QED
    BY <1>1, <2>1, <2>2, NetworkType DEF LeaseExpires, chain, Typed
<1>2. ASSUME NEW x \in DOMAIN tx, Lands(x) PROVE Typical' /\ TxKept
  <2>1. tx[x] \in Transaction
    BY DEF Typed
  <2>2. PICK state \in {"landed", "failed"} : tx' = [tx EXCEPT ![x].state = state]
    BY <1>2 DEF Lands
  <2>3. [tx[x] EXCEPT !.state = state] \in Transaction
        /\ [tx[x] EXCEPT !.state = state].side = tx[x].side
        /\ [tx[x] EXCEPT !.state = state].id = tx[x].id
    BY <2>1 DEF Transaction
  <2>4. TxKept
    BY <2>2, <2>3, FateKept
  <2>5. /\ shell' \in [PaymentIds -> {"none", "confirmed", "finalized"}]
        /\ escrow' \in [PaymentIds -> {"none", "open", "sealed"}]
    BY <1>2 DEF Lands, Typed
  <2>6. available' \in Nat
    BY <1>2 DEF Lands, Accepted, Typed
  <2> QED
    BY <1>2, <2>4, <2>5, <2>6, NetworkType DEF Lands, Typed
<1>3. ASSUME NEW x \in DOMAIN tx, PassesLastValid(x) PROVE Typical' /\ TxKept
  <2>1. tx[x] \in Transaction
    BY DEF Typed
  <2>2. [tx[x] EXCEPT !.late = TRUE] \in Transaction
        /\ [tx[x] EXCEPT !.late = TRUE].side = tx[x].side
        /\ [tx[x] EXCEPT !.late = TRUE].id = tx[x].id
    BY <2>1 DEF Transaction
  <2>3. TxKept
    BY <1>3, <2>2, FateKept DEF PassesLastValid
  <2> QED
    BY <1>3, <2>3, NetworkType DEF PassesLastValid, Typed
<1>4. ASSUME NEW i \in PaymentIds, Finalizes(i) \/ Seals(i) PROVE Typical' /\ TxKept
  <2>1. TxKept
    BY <1>4 DEF Finalizes, Seals, TxKept, Typed
  <2>2. available' \in Nat
    BY <1>4 DEF Finalizes, Seals, Typed
  <2>3. /\ shell' \in [PaymentIds -> {"none", "confirmed", "finalized"}]
        /\ escrow' \in [PaymentIds -> {"none", "open", "sealed"}]
    BY <1>4 DEF Finalizes, Seals, Typed
  <2> QED
    BY <1>4, <2>1, <2>2, <2>3, NetworkType DEF Finalizes, Seals, Typed
<1> QED
  BY <1>1, <1>2, <1>3, <1>4

LEMMA TabType ==
    ASSUME Typical, NEW t \in Tabs,
           \/ ConfirmPayment(t) \/ DiscardUnsentPayment(t) \/ ApplyCheckpoint(t)
           \/ Reload(t) \/ ConfirmUndo(t) \/ Heartbeat(t) \/ AwaitFails(t) \/ TabDies(t)
    PROVE  Typical' /\ TxKept
<1> USE DEF Typical
<1>1. page[t] \in Page /\ Named(page[t]) /\ stored \in Checkpoints
  BY DEF Typed, AllNamed
<1>2. CASE ConfirmPayment(t)
  <2> DEFINE shown == page[t].checkpoint
             step == IF shown = NoCheckpoint THEN "create" ELSE "guard"
             next == [page[t] EXCEPT !.run = shown, !.side = "public", !.at = step]
  <2>1. shown \in Checkpoints /\ Sound(shown)
    BY <1>1 DEF Page, AllSound, Held
  <2>2. shown # NoCheckpoint => shown.id # 0
    BY <2>1, ZeroIsNone
  <2>3. next \in Page /\ Named(next) /\ next.run = shown /\ next.checkpoint = shown
    BY <1>1, <2>1, <2>2 DEF Page, Named, Steps, Working, Sides
  <2>4. page' = [page EXCEPT ![t] = next] /\ UNCHANGED <<stored, mail, ids, chain, receipts>>
    BY <1>2 DEF ConfirmPayment
  <2> HIDE DEF next
  <2>5. Shuffles(t, next)
    BY <2>3, <2>4 DEF Shuffles
  <2>6. mishaps' \in [Mishaps -> Nat]
    BY <1>2, ActsType DEF ConfirmPayment, Typed
  <2>7. lease' \in [owner : Tabs \cup {Gone, Nobody}, fresh : BOOLEAN]
    BY <1>2 DEF ConfirmPayment
  <2> QED
    BY <2>5, <2>6, <2>7, ShufflesType
<1>3. CASE DiscardUnsentPayment(t)
  <2>1. ids' \in 0..MaxPayments
    BY <1>3 DEF DiscardUnsentPayment, Typed
  <2> QED
    BY <1>1, <1>3, <2>1, NoCheckpointSound, SavesType DEF DiscardUnsentPayment
<1>4. CASE ApplyCheckpoint(t)
  <2>1. PICK i \in DOMAIN mail[t] :
            /\ IF i = 1 THEN UNCHANGED mishaps ELSE Suffer("late")
            /\ mail' = [mail EXCEPT ![t] = RemoveAt(@, i)]
            /\ page' = [page EXCEPT ![t].checkpoint = mail[t][i]]
            /\ UNCHANGED <<stored, lease, ids, chain, receipts>>
    BY <1>4 DEF ApplyCheckpoint
  <2> DEFINE s == mail[t]
  <2>2. s \in Seq(Checkpoints) /\ i \in DOMAIN s
    BY DEF Typed
  <2>3. /\ RemoveAt(s, i) \in Seq(Checkpoints) /\ Len(RemoveAt(s, i)) = Len(s) - 1
        /\ \A j \in 1..(Len(s) - 1) : RemoveAt(s, i)[j] = IF j < i THEN s[j] ELSE s[j + 1]
    BY <2>2, RemoveAtType
  <2>4. \A j \in DOMAIN RemoveAt(s, i) : \E k \in DOMAIN s : RemoveAt(s, i)[j] = s[k]
    <3> SUFFICES ASSUME NEW j \in DOMAIN RemoveAt(s, i)
                 PROVE  \E k \in DOMAIN s : RemoveAt(s, i)[j] = s[k]
      OBVIOUS
    <3>0. DOMAIN RemoveAt(s, i) = 1..Len(RemoveAt(s, i)) /\ DOMAIN s = 1..Len(s) /\ Len(s) \in Nat
      BY <2>2, <2>3
    <3>1. j \in 1..(Len(s) - 1) /\ j \in DOMAIN s /\ j + 1 \in DOMAIN s
      BY <2>3, <3>0
    <3>2. RemoveAt(s, i)[j] = s[j] \/ RemoveAt(s, i)[j] = s[j + 1]
      BY <2>3, <3>1
    <3> QED
      BY <3>1, <3>2
  <2> PICK rest : rest = RemoveAt(s, i)
    OBVIOUS
  <2>5. mail' \in [Tabs -> Seq(Checkpoints)] /\ mail'[t] = rest
        /\ \A u \in Tabs : u # t => mail'[u] = mail[u]
    BY <2>1, <2>3 DEF Typed
  <2>6. /\ page' \in [Tabs -> Page]
        /\ \A u \in Tabs : page'[u].run = page[u].run /\ page'[u].at = page[u].at
        /\ \A u \in Tabs : page'[u].checkpoint = IF u = t THEN s[i] ELSE page[u].checkpoint
    <3>1. s[i] \in Checkpoints
      BY <2>2
    <3>2. /\ [page[t] EXCEPT !.checkpoint = s[i]] \in Page
          /\ [page[t] EXCEPT !.checkpoint = s[i]].run = page[t].run
          /\ [page[t] EXCEPT !.checkpoint = s[i]].at = page[t].at
          /\ [page[t] EXCEPT !.checkpoint = s[i]].checkpoint = s[i]
      BY <1>1, <3>1 DEF Page
    <3> QED
      BY <2>1, <3>2 DEF Typed
  <2>7. mishaps' \in [Mishaps -> Nat]
    BY <2>1, SufferType DEF Mishaps, Typed
  <2>8. TxKept
    BY <2>1 DEF chain, TxKept, Typed
  <2>9. Typed' /\ AllNamed'
    BY <2>1, <2>5, <2>6, <2>7 DEF Typed, chain, AllNamed, Named
  <2>10. \A u \in Tabs : Held(u)' \subseteq Held(u)
    <3> SUFFICES ASSUME NEW u \in Tabs PROVE Held(u)' \subseteq Held(u)
      OBVIOUS
    <3>1. CASE u = t
      <4>1. page'[u].checkpoint \in Held(u) /\ page'[u].run \in Held(u)
        BY <2>6, <3>1 DEF Held
      <4>2. \A j \in DOMAIN mail'[u] : mail'[u][j] \in Held(u)
        BY <2>4, <2>5, <3>1 DEF Held
      <4> QED
        BY <4>1, <4>2 DEF Held
    <3>2. CASE u # t
      BY <2>5, <2>6, <3>2 DEF Held
    <3> QED
      BY <3>1, <3>2
  <2>11. AllSound'
    <3>1. \A c : Sound(c) => Sound(c)'
      BY <2>8, StaysSound
    <3> QED
      BY <2>1, <2>10, <3>1 DEF AllSound
  <2> QED
    BY <2>8, <2>9, <2>11
<1>5. CASE Reload(t)
  <2> DEFINE next == [page[t] EXCEPT !.checkpoint = stored, !.at = "idle"]
  <2>1. next \in Page /\ Named(next) /\ next.run = page[t].run /\ next.checkpoint = stored
    BY <1>1 DEF Page, Named, Steps, Working
  <2>2. page' = [page EXCEPT ![t] = next] /\ mail' = [mail EXCEPT ![t] = << >>]
        /\ UNCHANGED <<stored, lease, ids, chain, receipts, mishaps>>
    BY <1>5 DEF Reload
  <2> HIDE DEF next
  <2>3. Shuffles(t, next)
    BY <2>1, <2>2 DEF Shuffles
  <2> QED
    BY <2>2, <2>3, ShufflesType DEF Typed
<1>6. CASE ConfirmUndo(t)
  <2> DEFINE next == [page[t] EXCEPT !.at = "idle"]
  <2>1. next \in Page /\ Named(next) /\ next.run = page[t].run /\ next.checkpoint = page[t].checkpoint
    BY <1>1 DEF Page, Named, Steps, Working
  <2>2. page' = [page EXCEPT ![t] = next]
        /\ UNCHANGED <<stored, mail, lease, ids, chain, receipts, mishaps>>
    BY <1>6 DEF ConfirmUndo, Moved, Unwritten
  <2> HIDE DEF next
  <2>3. Shuffles(t, next)
    BY <2>1, <2>2 DEF Shuffles
  <2> QED
    BY <2>2, <2>3, ShufflesType DEF Typed
<1>7. CASE Heartbeat(t)
  <2>1. TxKept
    BY <1>7 DEF Heartbeat, chain, TxKept, Typed
  <2>2. lease' \in [owner : Tabs \cup {Gone, Nobody}, fresh : BOOLEAN]
    BY <1>7 DEF Heartbeat, Refreshed
  <2> QED
    BY <1>7, <2>1, <2>2, NetworkType DEF Heartbeat, chain, Typed
<1>8. CASE AwaitFails(t)
  <2>1. mishaps' \in [Mishaps -> Nat]
    BY <1>8, SufferType DEF AwaitFails, Mishaps, Typed
  <2> QED
    BY <1>8, <2>1, ThrowType DEF AwaitFails
<1>9. CASE TabDies(t)
  <2> DEFINE next == [checkpoint |-> stored, run |-> NoCheckpoint, at |-> "idle", side |-> "public"]
  <2>1. next \in Page /\ Named(next) /\ next.run = NoCheckpoint /\ next.checkpoint = stored
    BY <1>1, NoCheckpointSound DEF Page, Named, Steps, Working, Sides
  <2>2. page' = [page EXCEPT ![t] = next] /\ mail' = [mail EXCEPT ![t] = << >>]
        /\ UNCHANGED <<stored, ids, chain, receipts>>
    BY <1>9 DEF TabDies
  <2> HIDE DEF next
  <2>3. Shuffles(t, next)
    BY <2>1, <2>2 DEF Shuffles
  <2>4. mishaps' \in [Mishaps -> Nat]
    BY <1>9, SufferType DEF TabDies, Mishaps, Typed
  <2>5. lease' \in [owner : Tabs \cup {Gone, Nobody}, fresh : BOOLEAN]
    BY <1>9, ReleasedType DEF TabDies, Typed
  <2> QED
    BY <2>3, <2>4, <2>5, ShufflesType
<1> QED
  BY <1>2, <1>3, <1>4, <1>5, <1>6, <1>7, <1>8, <1>9

LEMMA NextType ==
    ASSUME Typical, [Next]_vars
    PROVE  Typical' /\ TxKept
<1>1. CASE UNCHANGED vars
  <2>1. TxKept
    BY <1>1 DEF vars, chain, TxKept, Typical, Typed
  <2> QED
    BY <1>1, <2>1, NetworkType DEF vars, chain, Typical, Typed
<1> QED
  BY <1>1, RunType, TabType, OthersType DEF Next

LEMMA InitType == Init => Typical
<1> SUFFICES ASSUME Init PROVE Typical
  OBVIOUS
<1> USE DEF Init
<1>1. /\ stored \in Checkpoints /\ Sound(stored) /\ \A t \in Tabs : mail[t] = << >>
      /\ tx \in Seq(Transaction) /\ Len(tx) <= MaxTxs
  BY NoCheckpointSound, BoundAssumption
<1>2. page \in [Tabs -> Page] /\ mail \in [Tabs -> Seq(Checkpoints)]
  BY NoCheckpointSound DEF Page, Steps, Sides
<1>3. Typed
  BY <1>1, <1>2, BoundAssumption DEF Typed
<1>4. \A t \in Tabs : Held(t) = {NoCheckpoint}
  BY DEF Held
<1>5. AllSound /\ AllNamed
  BY <1>4, NoCheckpointSound DEF AllSound, AllNamed, Named, Working
<1> QED
  BY <1>3, <1>5 DEF Typical

LEMMA TypicalTypes == Typical => TypeOK
<1> SUFFICES ASSUME Typical PROVE TypeOK
  OBVIOUS
<1>1. \A t \in Tabs : /\ Sound(page[t].checkpoint) /\ Sound(page[t].run)
                      /\ \A i \in DOMAIN mail[t] : Sound(mail[t][i])
  BY DEF Typical, AllSound, Held
<1> QED
  BY <1>1 DEF Typical, Typed, AllSound, TypeOK, Page, Transaction, Checkpoints

\* What every reachable state keeps, whatever the tabs and the network do.
LEMMA AlwaysTypical == Spec => []Typical
<1>1. Typical /\ [Next]_vars => Typical'
  BY NextType
<1> QED
  BY <1>1, InitType, PTL DEF Spec

\* Every saved checkpoint, wherever it is kept, has its type and cites
\* transactions of its own payment and step only (persistPaymentCheckpoint,
\* SaveAndSend), for any number of tabs, mishaps and late events.
THEOREM TypeCorrect == Spec => []TypeOK
BY AlwaysTypical, TypicalTypes, PTL

-----------------------------------------------------------------------------
(* What happens to the chain *)

LEMMA ChainSteps ==
    ASSUME [Next]_vars
    PROVE  \/ UNCHANGED chain
           \/ \E t \in Tabs : SaveAndSend(t) /\ Owns(t)
           \/ \E x \in DOMAIN tx : Lands(x) \/ PassesLastValid(x)
           \/ \E i \in PaymentIds : Finalizes(i) \/ Seals(i)
<1>1. ASSUME NEW t \in Tabs, Run(t) PROVE UNCHANGED chain \/ (SaveAndSend(t) /\ Owns(t))
  BY <1>1 DEF Run, CreateCheckpoint, RequireAvailableBalance, SignatureStatus, BlockHeight,
              ReconcileExpired, ReadPayment, WaitForPayment, SignTransaction, SaveAndSend,
              PollConfirmation, Close, chain
<1>2. ASSUME NEW t \in Tabs,
             \/ ConfirmPayment(t) \/ DiscardUnsentPayment(t) \/ ApplyCheckpoint(t)
             \/ Reload(t) \/ ConfirmUndo(t) \/ Heartbeat(t) \/ AwaitFails(t) \/ TabDies(t)
      PROVE  UNCHANGED chain
  BY <1>2 DEF ConfirmPayment, DiscardUnsentPayment, ApplyCheckpoint, Reload, ConfirmUndo,
              Heartbeat, AwaitFails, TabDies
<1> QED
  BY <1>1, <1>2 DEF Next, vars, LeaseExpires

\* A transaction that has landed has left its account behind, and no other
\* one of its kind has landed.
Effective ==
    /\ \A x \in DOMAIN tx : tx[x].state = "landed" =>
          IF tx[x].side = "public" THEN shell[tx[x].id] # "none" ELSE escrow[tx[x].id] # "none"
    /\ TakesEffectOnce

\* No step but a landing adds to what has landed, and accounts never vanish.
LEMMA NothingLands ==
    ASSUME Typical, TxKept, Effective,
           \A x \in DOMAIN tx' : tx'[x].state = "landed" => x \in DOMAIN tx /\ tx[x].state = "landed",
           \A i \in PaymentIds : shell[i] # "none" => shell'[i] # "none",
           \A i \in PaymentIds : escrow[i] # "none" => escrow'[i] # "none"
    PROVE  Effective'
<1>1. \A x \in DOMAIN tx : tx[x] \in Transaction
  BY DEF Typical, Typed
<1>2. \A x \in DOMAIN tx : tx[x].id \in PaymentIds
  BY <1>1 DEF Transaction
<1> QED
  BY <1>2 DEF Effective, TakesEffectOnce, TxKept

LEMMA LandsEffective ==
    ASSUME Typical, Effective, NEW x \in DOMAIN tx, Lands(x)
    PROVE  Effective'
<1>1. \A y \in DOMAIN tx : tx[y] \in Transaction
  BY DEF Typical, Typed
<1>2. CASE ~Accepted(tx[x].side, tx[x].id)
  <2>1. TxKept
    BY NextType DEF Next
  <2>2. tx' = [tx EXCEPT ![x].state = "failed"] /\ UNCHANGED <<shell, escrow>>
    BY <1>2 DEF Lands
  <2>3. \A y \in DOMAIN tx' : tx'[y].state = "landed" => y \in DOMAIN tx /\ tx[y].state = "landed"
    BY <1>1, <2>2 DEF Transaction
  <2> QED
    BY <2>1, <2>2, <2>3, NothingLands
<1>3. CASE Accepted(tx[x].side, tx[x].id)
  <2>1. /\ DOMAIN tx' = DOMAIN tx /\ tx'[x].state = "landed"
        /\ \A y \in DOMAIN tx : tx'[y].side = tx[y].side /\ tx'[y].id = tx[y].id
        /\ \A y \in DOMAIN tx : y # x => tx'[y] = tx[y]
    BY <1>1, <1>3 DEF Lands, Transaction
  <2>2. tx[x].side \in {"public", "private"} /\ tx[x].id \in PaymentIds
    BY <1>1 DEF Transaction, Sides
  <2>3. CASE tx[x].side = "public"
    <3>1. /\ shell[tx[x].id] = "none" /\ shell'[tx[x].id] # "none" /\ escrow' = escrow
          /\ \A i \in PaymentIds : shell[i] # "none" => shell'[i] # "none"
      BY <1>3, <2>2, <2>3 DEF Lands, Accepted, Typical, Typed
    <3>2. \A y \in DOMAIN tx : tx[y].state = "landed" => ~(tx[y].side = "public" /\ tx[y].id = tx[x].id)
      BY <3>1 DEF Effective
    <3> QED
      BY <1>1, <2>1, <2>3, <3>1, <3>2 DEF Effective, TakesEffectOnce, Transaction
  <2>4. CASE tx[x].side = "private"
    <3>1. /\ escrow[tx[x].id] = "none" /\ escrow'[tx[x].id] # "none" /\ shell' = shell
          /\ \A i \in PaymentIds : escrow[i] # "none" => escrow'[i] # "none"
      BY <1>3, <2>2, <2>4 DEF Lands, Accepted, Typical, Typed
    <3>2. \A y \in DOMAIN tx : tx[y].state = "landed" => ~(tx[y].side = "private" /\ tx[y].id = tx[x].id)
      BY <3>1 DEF Effective
    <3> QED
      BY <1>1, <2>1, <2>4, <3>1, <3>2 DEF Effective, TakesEffectOnce, Transaction, Sides
  <2> QED
    BY <2>2, <2>3, <2>4
<1> QED
  BY <1>2, <1>3

LEMMA EffectiveStep ==
    ASSUME Typical, Effective, [Next]_vars PROVE Effective'
<1>0. TxKept /\ tx \in Seq(Transaction)
  BY NextType DEF Typical, Typed
<1>1. CASE UNCHANGED chain
  BY <1>0, <1>1, NothingLands DEF chain
<1>2. ASSUME NEW t \in Tabs, SaveAndSend(t), Owns(t) PROVE Effective'
  <2>1. /\ \E new : tx' = Append(tx, new) /\ new.state # "landed"
        /\ UNCHANGED <<shell, escrow>>
    BY <1>2 DEF SaveAndSend
  <2>2. \A x \in DOMAIN tx' : tx'[x].state = "landed" => x \in DOMAIN tx /\ tx[x].state = "landed"
    BY <1>0, <2>1
  <2> QED
    BY <1>0, <2>1, <2>2, NothingLands
<1>3. ASSUME NEW x \in DOMAIN tx, PassesLastValid(x) PROVE Effective'
  <2>1. \A y \in DOMAIN tx' : tx'[y].state = "landed" => y \in DOMAIN tx /\ tx[y].state = "landed"
    BY <1>0, <1>3 DEF PassesLastValid, Transaction
  <2> QED
    BY <1>0, <1>3, <2>1, NothingLands DEF PassesLastValid
<1>4. ASSUME NEW i \in PaymentIds, Finalizes(i) \/ Seals(i) PROVE Effective'
  BY <1>0, <1>4, NothingLands DEF Finalizes, Seals, Typical, Typed
<1> QED
  BY <1>1, <1>2, <1>3, <1>4, ChainSteps, LandsEffective

\* Each step of a payment takes effect at most once, however many tabs resume
\* it, however often a transaction is signed again and whatever fails
\* (pendingOutcome, prepare_payment and open_payment of the program).
THEOREM EffectOnce == Spec => []TakesEffectOnce
<1>1. Init => Effective
  BY DEF Init, Effective, TakesEffectOnce
<1>2. Typical /\ Effective /\ [Next]_vars => Effective'
  BY EffectiveStep
<1>3. Effective => TakesEffectOnce
  BY DEF Effective
<1> QED
  BY <1>1, <1>2, <1>3, AlwaysTypical, PTL DEF Spec

-----------------------------------------------------------------------------
(* The lease, as long as no tab is suspended *)

TabStep(t) ==
    \/ ConfirmPayment(t) \/ Run(t) \/ DiscardUnsentPayment(t) \/ ApplyCheckpoint(t)
    \/ Reload(t) \/ ConfirmUndo(t) \/ Heartbeat(t) \/ AwaitFails(t) \/ TabDies(t)

\* A tab that runs holds the lease, and has not let it grow old.
Exclusive ==
    \A t \in Tabs : page[t].at \notin Quiet => lease.owner = t /\ lease.fresh

\* A step of a tab changes its own page only, and lets go of the lease only
\* when it stops running.
LEMMA TabLease ==
    ASSUME Typical, NEW t \in Tabs, TabStep(t)
    PROVE  /\ \A u \in Tabs : u # t => page'[u] = page[u]
           /\ \/ lease' = lease /\ (page'[t].at \in Quiet \/ page[t].at \notin Quiet)
              \/ Acquirable(t) /\ lease' = [owner |-> t, fresh |-> TRUE]
              \/ Owns(t) /\ page'[t].at \in Quiet
<1>1. page \in [Tabs -> Page]
  BY DEF Typical, Typed
<1>2. CASE Run(t)
  <2>1. ASSUME Stop(t) PROVE /\ \A u \in Tabs : u # t => page'[u] = page[u]
                             /\ page'[t].at \in Quiet /\ (lease' = lease \/ Owns(t))
    BY <1>1, <2>1 DEF Stop, Throw, Released, Quiet, Page
  <2>2. ASSUME NEW step, Go(t, step), page[t].at \notin Quiet
        PROVE  /\ \A u \in Tabs : u # t => page'[u] = page[u]
               /\ lease' = lease /\ page[t].at \notin Quiet
    BY <1>1, <2>2 DEF Go, Moved
  <2>3. ASSUME NEW c, NEW next, Persist(t, c, next), page[t].at \notin Quiet
        PROVE  /\ \A u \in Tabs : u # t => page'[u] = page[u]
               /\ page[t].at \notin Quiet
    BY <1>1, <2>3 DEF Persist
  <2>4. ASSUME Reached(t), page[t].at \notin Quiet
        PROVE  \/ Stop(t)
               \/ (\A u \in Tabs : u # t => page'[u] = page[u]) /\ lease' = lease
    BY <1>1, <2>3, <2>4 DEF Reached, Receipt
  <2>5. CASE CreateCheckpoint(t)
    BY <2>3, <2>5 DEF CreateCheckpoint, At, Quiet
  <2>6. CASE RequireAvailableBalance(t)
    BY <2>1, <2>2, <2>6 DEF RequireAvailableBalance, At, Quiet
  <2>7. CASE SignatureStatus(t)
    BY <2>2, <2>7 DEF SignatureStatus, At, Quiet
  <2>8. CASE BlockHeight(t)
    BY <2>1, <2>2, <2>8 DEF BlockHeight, At, Quiet
  <2>9. CASE ReconcileExpired(t)
    BY <2>1, <2>3, <2>4, <2>9 DEF ReconcileExpired, At, Quiet
  <2>10. CASE ReadPayment(t)
    BY <2>1, <2>2, <2>4, <2>10 DEF ReadPayment, At, Quiet
  <2>11. CASE WaitForPayment(t)
    BY <2>1, <2>4, <2>11 DEF WaitForPayment, At, Quiet
  <2>12. CASE SignTransaction(t)
    BY <1>1, <2>1, <2>12 DEF SignTransaction, Moved, Refreshed, Owns, Acquirable
  <2>13. CASE SaveAndSend(t)
    BY <2>1, <2>3, <2>13 DEF SaveAndSend, At, Quiet, Refreshed, Owns, Acquirable
  <2>14. CASE PollConfirmation(t)
    BY <2>1, <2>2, <2>14 DEF PollConfirmation, At, Quiet
  <2>15. CASE Close(t)
    BY <1>1, <2>15 DEF Close, Released, Quiet, Page
  <2> QED
    BY <1>2, <2>5, <2>6, <2>7, <2>8, <2>9, <2>10, <2>11, <2>12, <2>13, <2>14, <2>15 DEF Run
<1>3. CASE ConfirmPayment(t)
  BY <1>1, <1>3 DEF ConfirmPayment
<1>4. CASE DiscardUnsentPayment(t)
  BY <1>1, <1>4 DEF DiscardUnsentPayment, Persist, At, Quiet, Page
<1>5. CASE ApplyCheckpoint(t)
  BY <1>1, <1>5 DEF ApplyCheckpoint, Quiet, Page
<1>6. CASE Reload(t) \/ ConfirmUndo(t)
  <2>1. CASE Reload(t)
    BY <1>1, <2>1 DEF Reload, Quiet, Page
  <2>2. CASE ConfirmUndo(t)
    BY <1>1, <2>2 DEF ConfirmUndo, Moved, Quiet, Page
  <2> QED
    BY <1>6, <2>1, <2>2
<1>7. CASE Heartbeat(t)
  BY <1>7 DEF Heartbeat, Refreshed, Owns, Acquirable
<1>8. CASE AwaitFails(t)
  BY <1>1, <1>8 DEF AwaitFails, Throw, Released, Quiet, Page
<1>9. CASE TabDies(t)
  BY <1>1, <1>9 DEF TabDies, Released, Quiet, Page
<1> QED
  BY <1>2, <1>3, <1>4, <1>5, <1>6, <1>7, <1>8, <1>9 DEF TabStep

LEMMA ExclusiveStep ==
    ASSUME Typical, Exclusive, Allowed["suspended"] = 0, [Next]_vars
    PROVE  Exclusive'
<1>1. ASSUME NEW t \in Tabs, TabStep(t) PROVE Exclusive'
  <2>1. /\ \A u \in Tabs : u # t => page'[u] = page[u]
        /\ \/ lease' = lease /\ (page'[t].at \in Quiet \/ page[t].at \notin Quiet)
           \/ Acquirable(t) /\ lease' = [owner |-> t, fresh |-> TRUE]
           \/ Owns(t) /\ page'[t].at \in Quiet
    BY <1>1, TabLease
  <2> QED
    BY <2>1, TabAssumption DEF Exclusive, Acquirable, Owns
<1>2. CASE LeaseExpires
  <2>1. mishaps["suspended"] \in Nat
    BY DEF Typical, Typed, Mishaps
  <2>2. lease.owner = Gone
    BY <1>2, <2>1 DEF LeaseExpires, Suffer
  <2> QED
    BY <1>2, <2>2, TabAssumption DEF LeaseExpires, Exclusive
<1>3. CASE UNCHANGED <<page, lease>>
  BY <1>3 DEF Exclusive
<1>4. ASSUME \/ UNCHANGED vars
             \/ \E x \in DOMAIN tx : Lands(x) \/ PassesLastValid(x)
             \/ \E i \in PaymentIds : Finalizes(i) \/ Seals(i)
      PROVE  UNCHANGED <<page, lease>>
  BY <1>4 DEF vars, Lands, PassesLastValid, Finalizes, Seals
<1> QED
  BY <1>1, <1>2, <1>3, <1>4 DEF Next, TabStep

\* At most one tab runs an operation, and it holds the lease, as long as no
\* tab is frozen for longer than the lease lasts: whichever requests fail,
\* tabs die or storage events come late (acquirePaymentOperationLease,
\* refreshPaymentOperationLease, releasePaymentOperationLease).
THEOREM OneRuns ==
    ASSUME Allowed["suspended"] = 0
    PROVE  Spec => []OneTabRuns
<1>1. Init => Exclusive
  BY DEF Init, Exclusive, Quiet
<1>2. Typical /\ Exclusive /\ [Next]_vars => Exclusive'
  BY ExclusiveStep
<1>3. Exclusive => OneTabRuns
  BY DEF Exclusive, OneTabRuns
<1> QED
  BY <1>1, <1>2, <1>3, AlwaysTypical, PTL DEF Spec

-----------------------------------------------------------------------------
(* What the saved checkpoint knows, as long as no tab is suspended or acts   *)
(* before it has handled the storage events it was sent.                     *)

Unsigned(c) == c.public = 0 /\ c.private = 0
Exists(side, i) == IF side = "public" THEN shell[i] # "none" ELSE escrow[i] # "none"

\* A tab shows the saved checkpoint, or the last event it was sent does.
Posted ==
    \A t \in Tabs : IF mail[t] = << >> THEN page[t].checkpoint = stored
                                       ELSE mail[t][Len(mail[t])] = stored

\* What can still land is saved, and has not taken effect yet.
Cited == \A x \in DOMAIN tx : CanLand(x) => tx[x].id = stored.id /\ stored[tx[x].side] = x
NotYet == \A x \in DOMAIN tx : CanLand(x) => ~Exists(tx[x].side, tx[x].id)

\* What has taken effect is saved, unless a second look forgot the shell's.
Landed ==
    stored.id # 0 =>
        /\ escrow[stored.id] # "none" => stored.private # 0 /\ tx[stored.private].state = "landed"
        /\ shell[stored.id] # "none" => stored.public = 0 \/ tx[stored.public].state = "landed"

Opened == \A i \in PaymentIds : escrow[i] # "none" => shell[i] # "none"
Numbered == /\ stored.id <= ids
            /\ \A i \in PaymentIds : i > ids => shell[i] = "none" /\ escrow[i] = "none"

Receipted == ReceiptsCiteLanded /\ \A r \in receipts : r.public # 0 /\ r.private # 0

Books == Cited /\ NotYet /\ Landed /\ Opened /\ Numbered /\ NoLostEscrow /\ Receipted

\* A run works on the saved checkpoint, or on an unsigned one that another tab
\* has discarded; and it knows what became of its signatures.
Carried(p) ==
    /\ p.at = "create" => stored = NoCheckpoint
    /\ p.at \in Working =>
          /\ stored = p.run \/ (stored = NoCheckpoint /\ Unsigned(p.run))
          /\ p.run.id <= ids
    /\ p.at \in {"status", "height", "doubt", "poll"} => p.run[p.side] # 0
    /\ p.at = "doubt" => ~CanLand(p.run[p.side])
    /\ p.at \in {"sign", "save"} => p.run[p.side] = 0
    /\ p.at = "save" => ~Exists(p.side, p.run.id)
AllCarried == \A t \in Tabs : Carried(page[t])

Orderly == Exclusive /\ Posted /\ Books /\ AllCarried
Punctual == Allowed["suspended"] = 0 /\ Allowed["late"] = 0

LEMMA BooksKept ==
    ASSUME Books, UNCHANGED <<stored, ids, chain, receipts>>
    PROVE  Books'
BY DEF Books, Cited, NotYet, Landed, Opened, Numbered, NoLostEscrow, Receipted,
       ReceiptsCiteLanded, CanLand, Exists, chain

LEMMA CarriedKept ==
    ASSUME NEW p, Carried(p), UNCHANGED <<stored, ids, chain>>
    PROVE  Carried(p)'
BY DEF Carried, CanLand, Exists, chain

\* No tab acts on a page that is behind.
LEMMA ActsOnSaved ==
    ASSUME Typical, Posted, Punctual, NEW t \in Tabs, ActsOnPage(t)
    PROVE  mail[t] = << >> /\ page[t].checkpoint = stored
<1>1. mishaps["late"] \in Nat
  BY DEF Typical, Typed, Mishaps
<1> QED
  BY <1>1 DEF ActsOnPage, Suffer, Punctual, Posted

LEMMA PostedKept ==
    ASSUME Posted, UNCHANGED <<stored, mail>>,
           \A t \in Tabs : page'[t].checkpoint = page[t].checkpoint
    PROVE  Posted'
BY DEF Posted

LEMMA PostedPersist ==
    ASSUME Typical, Posted, Punctual, NEW t \in Tabs, NEW c \in Checkpoints, NEW next \in Page,
           Persist(t, c, next)
    PROVE  Posted'
<1>1. mail[t] = << >> /\ mail \in [Tabs -> Seq(Checkpoints)] /\ page \in [Tabs -> Page]
  BY ActsOnSaved DEF Persist, Typical, Typed
<1>2. stored' = c /\ page'[t].checkpoint = c /\ mail'[t] = << >>
      /\ \A u \in Tabs : u # t => page'[u] = page[u]
  BY <1>1 DEF Persist, Store, Page
<1>3. \A u \in Tabs : u # t => mail'[u] = IF c = stored THEN mail[u] ELSE Append(mail[u], c)
  BY DEF Persist, Store
<1>4. ASSUME NEW u \in Tabs, u # t
      PROVE  IF mail'[u] = << >> THEN page'[u].checkpoint = c ELSE mail'[u][Len(mail'[u])] = c
  <2>1. CASE c = stored
    BY <1>2, <1>3, <1>4, <2>1 DEF Posted
  <2>2. CASE c # stored
    <3>1. mail[u] \in Seq(Checkpoints) /\ mail'[u] = Append(mail[u], c)
      BY <1>1, <1>3, <1>4, <2>2
    <3> QED
      BY <3>1
  <2> QED
    BY <2>1, <2>2
<1> QED
  BY <1>2, <1>4 DEF Posted

\* While one tab runs no other does.
LEMMA Alone ==
    ASSUME Typical, Exclusive, NEW t \in Tabs, page[t].at \notin Quiet, NEW next,
           page' = [page EXCEPT ![t] = next], Carried(next)'
    PROVE  AllCarried'
<1>1. /\ \A u \in Tabs : u # t => page[u].at \in Quiet
      /\ \A u \in Tabs : page'[u] = IF u = t THEN next ELSE page[u]
  BY DEF Exclusive, Typical, Typed
<1>2. \A u \in Tabs : u # t => Carried(page[u])'
  BY <1>1 DEF Carried, Quiet, Working
<1> QED
  BY <1>1, <1>2 DEF AllCarried

\* A run goes on, or stops, without saving anything.
LEMMA StillOrderly ==
    ASSUME Typical, Orderly, NEW t \in Tabs, page[t].at \notin Quiet, NEW next,
           page' = [page EXCEPT ![t] = next], next.checkpoint = page[t].checkpoint,
           Carried(next), UNCHANGED <<stored, mail, ids, chain, receipts>>
    PROVE  Posted' /\ Books' /\ AllCarried'
<1>1. \A u \in Tabs : page'[u].checkpoint = page[u].checkpoint
  BY DEF Typical, Typed
<1> QED
  BY <1>1, PostedKept, BooksKept, CarriedKept, Alone DEF Orderly

\* A run saves a checkpoint.
LEMMA SavesOrderly ==
    ASSUME Typical, Orderly, Punctual, NEW t \in Tabs, page[t].at \notin Quiet,
           NEW c \in Checkpoints, NEW next \in Page, Persist(t, c, next), Carried(next)'
    PROVE  Posted' /\ AllCarried'
<1> PICK saved : saved = [next EXCEPT !.checkpoint = c]
  OBVIOUS
<1>1. page' = [page EXCEPT ![t] = saved]
  BY DEF Persist
<1>2. saved.run = next.run /\ saved.at = next.at /\ saved.side = next.side
  BY DEF Page
<1>3. Carried(saved)'
  BY <1>2 DEF Carried
<1> QED
  BY <1>1, <1>3, Alone, PostedPersist DEF Orderly

LEMMA QuietCarried ==
    ASSUME NEW p, p.at \in Quiet \cup {"closing"} PROVE Carried(p)
BY DEF Carried, Quiet, Working

LEMMA GoOrderly ==
    ASSUME Typical, Orderly, NEW t \in Tabs, page[t].at \notin Quiet, NEW step \in Steps,
           Go(t, step), UNCHANGED <<ids, chain>>,
           \A p \in Page : (p = [page[t] EXCEPT !.at = step]) => Carried(p)
    PROVE  Posted' /\ Books' /\ AllCarried'
<1> PICK next : next = [page[t] EXCEPT !.at = step]
  OBVIOUS
<1>0. page[t] \in Page
  BY DEF Typical, Typed
<1>1. next \in Page /\ next.checkpoint = page[t].checkpoint
  BY <1>0 DEF Page
<1>2. page' = [page EXCEPT ![t] = next] /\ UNCHANGED <<stored, mail, receipts>>
  BY DEF Go, Moved, Unwritten
<1> QED
  BY <1>1, <1>2, StillOrderly

LEMMA ThrowOrderly ==
    ASSUME Typical, Orderly, NEW t \in Tabs, page[t].at \notin Quiet,
           Throw(t), UNCHANGED <<ids, chain, receipts>>
    PROVE  Posted' /\ Books' /\ AllCarried'
<1> PICK next : next = [page[t] EXCEPT !.run = NoCheckpoint, !.at = "idle"]
  OBVIOUS
<1>0. page[t] \in Page
  BY DEF Typical, Typed
<1>1. next.checkpoint = page[t].checkpoint /\ next.at = "idle"
  BY <1>0 DEF Page
<1>2. page' = [page EXCEPT ![t] = next] /\ UNCHANGED <<stored, mail>>
  BY DEF Throw, Unwritten
<1>3. Carried(next)
  BY <1>1, QuietCarried DEF Quiet
<1> QED
  BY <1>1, <1>2, <1>3, StillOrderly

LEMMA StopOrderly ==
    ASSUME Typical, Orderly, NEW t \in Tabs, page[t].at \notin Quiet, Stop(t),
           UNCHANGED <<ids, chain>>
    PROVE  Posted' /\ Books' /\ AllCarried'
BY ThrowOrderly DEF Stop

\* A signed run works on the saved checkpoint, and nothing else can land.
LEMMA SignedRun ==
    ASSUME Typical, Orderly, NEW t \in Tabs, page[t].at \in Working,
           NEW side \in Sides, page[t].run[side] # 0
    PROVE  stored = page[t].run /\ page[t].run.id \in PaymentIds /\ page[t].run.id <= ids
<1>1. page[t].run \in Checkpoints /\ page[t].run.id # 0
  BY DEF Typical, Typed, Page, AllNamed, Named
<1> QED
  BY <1>1, BoundAssumption
     DEF Orderly, AllCarried, Carried, Unsigned, Sides, Checkpoints, PaymentOperationCheckpoint,
         PaymentIds

\* The receipt: both signatures have landed, and nothing can land any more.
LEMMA ReceiptOrderly ==
    ASSUME Typical, Orderly, Punctual, NEW t \in Tabs, page[t].at \in Working,
           page[t].side = "private", escrow[page[t].run.id] = "open",
           Receipt(t), UNCHANGED <<ids, chain>>
    PROVE  Posted' /\ Books' /\ AllCarried'
<1>0. page[t].at \notin Quiet /\ page[t] \in Page /\ page[t].run \in Checkpoints
  BY DEF Typical, Typed, Page, Working, Quiet
<1>1. CASE Stop(t)
  BY <1>0, <1>1, StopOrderly
<1>2. CASE ~Stop(t)
  <2> PICK run : run = page[t].run
    OBVIOUS
  <2> PICK next : next = [page[t] EXCEPT !.at = "closing"]
    OBVIOUS
  <2>1. /\ run.public # 0 /\ run.private # 0 /\ receipts' = receipts \cup {run}
        /\ Persist(t, NoCheckpoint, next)
    BY <1>2 DEF Receipt
  <2>2. next \in Page /\ Carried(next)'
    BY <1>0, QuietCarried, CarriedKept DEF Page, Steps, Carried, Working
  <2>3. Posted' /\ AllCarried'
    BY <1>0, <2>1, <2>2, NoCheckpointSound, SavesOrderly
  <2>4. stored = run /\ run.id \in PaymentIds
    BY <2>1, SignedRun DEF Sides
  <2>5. escrow[run.id] # "none" /\ shell[run.id] # "none" /\ run.id # 0
    BY <2>4 DEF Orderly, Books, Opened, PaymentIds
  <2>6. \A x \in DOMAIN tx : ~CanLand(x)
    BY <2>4, <2>5 DEF Orderly, Books, Cited, NotYet, Exists
  <2>7. tx[run.public].state = "landed" /\ tx[run.private].state = "landed"
    BY <2>1, <2>4, <2>5 DEF Orderly, Books, Landed
  <2>8. stored' = NoCheckpoint /\ NoCheckpoint.id = 0
    BY <2>1 DEF Persist, Store, NoCheckpoint
  <2>9. Cited' /\ NotYet' /\ Landed' /\ Opened'
    BY <2>6, <2>8 DEF Cited, NotYet, CanLand, Landed, Opened, Orderly, Books, chain
  <2>10. Numbered'
    BY <2>8 DEF Numbered, Orderly, Books, chain, Typical, Typed
  <2>11. NoLostEscrow'
    BY <2>1, <2>4 DEF NoLostEscrow, Orderly, Books, chain
  <2>12. Receipted'
    BY <2>1, <2>7 DEF Receipted, ReceiptsCiteLanded, Orderly, Books, chain
  <2> QED
    BY <2>3, <2>9, <2>10, <2>11, <2>12 DEF Books
<1> QED
  BY <1>1, <1>2

LEMMA ReachedOrderly ==
    ASSUME Typical, Orderly, Punctual, NEW t \in Tabs, page[t].at \in Working,
           Visible(t), Reached(t), UNCHANGED <<ids, chain>>
    PROVE  Posted' /\ Books' /\ AllCarried'
<1>1. page[t] \in Page /\ page[t].at \notin Quiet
  BY DEF Typical, Typed, Working, Quiet
<1>2. CASE page[t].side = "private"
  BY <1>2, ReceiptOrderly DEF Reached, Visible
<1>3. CASE page[t].side # "private"
  <2> PICK next : next = [page[t] EXCEPT !.side = "private", !.at = "read"]
    OBVIOUS
  <2>1. next.checkpoint = page[t].checkpoint /\ next.at = "read" /\ next.run = page[t].run
    BY <1>1 DEF Page
  <2>2. Carried(next)
    BY <2>1 DEF Orderly, AllCarried, Carried, Working, Steps
  <2>3. page' = [page EXCEPT ![t] = next] /\ UNCHANGED <<stored, mail, receipts>>
    BY <1>3 DEF Reached, Unwritten
  <2> QED
    BY <1>1, <2>1, <2>2, <2>3, StillOrderly
<1> QED
  BY <1>2, <1>3

\* What the clearing of a signature that cannot land any more forgets.
LEMMA ClearOrderly ==
    ASSUME Typical, Orderly, Punctual, NEW t \in Tabs, At(t, "doubt"),
           ~Visible(t), ~Mismatch(t),
           NEW cleared, cleared = [page[t].run EXCEPT ![page[t].side] = 0],
           NEW step, step = IF page[t].side = "public" THEN "read" ELSE "sign",
           Persist(t, cleared, [page[t] EXCEPT !.run = cleared, !.at = step]),
           UNCHANGED <<lease, receipts, ids, chain>>
    PROVE  Posted' /\ Books' /\ AllCarried'
<1> PICK run, side : run = page[t].run /\ side = page[t].side
  OBVIOUS
<1>1. page[t] \in Page /\ page[t].at \in Working /\ page[t].at \notin Quiet
  BY DEF Typical, Typed, Working, Quiet, Steps, At
<1>2. run \in Checkpoints /\ side \in Sides /\ run[side] # 0 /\ ~CanLand(run[side])
  BY <1>1 DEF Page, Orderly, AllCarried, Carried, At
<1>3. stored = run /\ run.id \in PaymentIds /\ run.id <= ids
  BY <1>1, <1>2, SignedRun
<1>4. /\ cleared \in Checkpoints /\ cleared.id = run.id /\ cleared[side] = 0
      /\ \A s \in Sides : s # side => cleared[s] = run[s]
  BY <1>2, CheckpointUpdate, BoundAssumption DEF Signature
<1>5. side = "private" => escrow[run.id] = "none"
  BY <1>3 DEF Visible, Mismatch, Typical, Typed
<1> PICK next : next = [page[t] EXCEPT !.run = cleared, !.at = step]
  OBVIOUS
<1>6. /\ next \in Page /\ next.run = cleared /\ next.at = step /\ next.side = side
      /\ Persist(t, cleared, next) /\ stored' = cleared
  BY <1>1, <1>4 DEF Page, Steps, Persist, Store
<1>7. Carried(next)'
  BY <1>3, <1>4, <1>6 DEF Carried
<1>8. Posted' /\ AllCarried'
  BY <1>1, <1>4, <1>6, <1>7, SavesOrderly
<1>9. \A x \in DOMAIN tx : CanLand(x) => tx[x].id = run.id /\ cleared[tx[x].side] = x
  <2> SUFFICES ASSUME NEW x \in DOMAIN tx, CanLand(x)
               PROVE  tx[x].id = run.id /\ cleared[tx[x].side] = x
    OBVIOUS
  <2>1. tx[x].id = run.id /\ run[tx[x].side] = x
    BY <1>3 DEF Orderly, Books, Cited
  <2>2. tx[x] \in Transaction
    BY DEF Typical, Typed
  <2>3. tx[x].side \in Sides /\ tx[x].side # side
    BY <1>2, <2>1, <2>2 DEF Transaction
  <2> QED
    BY <1>4, <2>1, <2>3
<1>10. Cited' /\ NotYet'
  BY <1>4, <1>6, <1>9 DEF Cited, NotYet, CanLand, Exists, Orderly, Books, chain
<1>11. Landed'
  BY <1>3, <1>4, <1>5, <1>6 DEF Landed, Orderly, Books, chain, Sides
<1>12. Opened' /\ Numbered' /\ NoLostEscrow' /\ Receipted'
  BY <1>3, <1>4, <1>6 DEF Opened, Numbered, NoLostEscrow, Receipted, ReceiptsCiteLanded,
                          Orderly, Books, chain
<1> QED
  BY <1>8, <1>10, <1>11, <1>12 DEF Books

\* The signature saved before its transaction is sent.
LEMMA SendOrderly ==
    ASSUME Typical, Orderly, Punctual, NEW t \in Tabs, SaveAndSend(t), Owns(t), TxKept
    PROVE  Posted' /\ Books' /\ AllCarried'
<1> PICK run, side, x : run = page[t].run /\ side = page[t].side /\ x = Len(tx) + 1
  OBVIOUS
<1>1. page[t] \in Page /\ page[t].at = "save" /\ page[t].at \in Working /\ page[t].at \notin Quiet
  BY DEF SaveAndSend, Typical, Typed, Working, Quiet, Steps, At
<1>2. /\ run \in Checkpoints /\ side \in Sides /\ run.id # 0 /\ run.id <= ids
      /\ run[side] = 0 /\ ~Exists(side, run.id)
      /\ stored = run \/ (stored = NoCheckpoint /\ Unsigned(run))
  BY <1>1 DEF Page, Orderly, AllCarried, Carried, Typical, AllNamed, Named
<1>3. run.id \in PaymentIds
  BY <1>2, BoundAssumption DEF Checkpoints, PaymentOperationCheckpoint, PaymentIds
<1> PICK state \in {"sent", "lost"} :
         tx' = Append(tx, [side |-> side, id |-> run.id, late |-> FALSE, state |-> state])
  BY DEF SaveAndSend
<1> PICK new : new = [side |-> side, id |-> run.id, late |-> FALSE, state |-> state]
  OBVIOUS
<1>4. tx' = Append(tx, new) /\ tx \in Seq(Transaction)
  BY DEF Typical, Typed
<1>5. /\ DOMAIN tx' = DOMAIN tx \cup {x} /\ x \notin DOMAIN tx /\ x \in Nat \ {0}
      /\ tx'[x] = new /\ \A y \in DOMAIN tx : tx'[y] = tx[y]
  BY <1>4
<1>6. x \in Signature
  BY <1>1, BoundAssumption DEF SaveAndSend, Signature, Typical, Typed
<1> PICK saved : saved = [run EXCEPT ![side] = x]
  OBVIOUS
<1>7. /\ saved \in Checkpoints /\ saved.id = run.id /\ saved[side] = x
      /\ \A s \in Sides : s # side => saved[s] = run[s]
  BY <1>2, <1>6, CheckpointUpdate
<1> PICK next : next = [page[t] EXCEPT !.run = saved, !.at = "poll"]
  OBVIOUS
<1>8. /\ next \in Page /\ next.run = saved /\ next.at = "poll" /\ next.side = side
      /\ Persist(t, saved, next) /\ stored' = saved
      /\ UNCHANGED <<receipts, ids, shell, escrow>>
  BY <1>1, <1>7 DEF Page, Steps, Persist, Store, SaveAndSend
<1>9. Carried(next)'
  BY <1>2, <1>5, <1>7, <1>8 DEF Carried
<1>10. Posted' /\ AllCarried'
  BY <1>1, <1>7, <1>8, <1>9, SavesOrderly
<1>11. \A y \in DOMAIN tx : CanLand(y) =>
           stored = run /\ tx[y].id = run.id /\ tx[y].side \in Sides \ {side} /\ saved[tx[y].side] = y
  <2> SUFFICES ASSUME NEW y \in DOMAIN tx, CanLand(y)
               PROVE  /\ stored = run /\ tx[y].id = run.id /\ tx[y].side \in Sides \ {side}
                      /\ saved[tx[y].side] = y
    OBVIOUS
  <2>1. tx[y].id = stored.id /\ stored[tx[y].side] = y
    BY DEF Orderly, Books, Cited
  <2>2. tx[y] \in Transaction /\ y # 0
    BY <1>4
  <2>3. tx[y].id # 0 /\ tx[y].side \in Sides
    BY <2>2 DEF Transaction, PaymentIds
  <2>4. stored = run
    BY <1>2, <2>1, <2>3 DEF NoCheckpoint
  <2> QED
    BY <1>2, <1>7, <2>1, <2>2, <2>3, <2>4
<1>12. new.side = side /\ new.id = run.id
  OBVIOUS
<1>13. Cited'
  <2> SUFFICES ASSUME NEW y \in DOMAIN tx', CanLand(y)'
               PROVE  tx'[y].id = saved.id /\ saved[tx'[y].side] = y
    BY <1>8 DEF Cited
  <2>1. CASE y = x
    BY <1>5, <1>7, <1>12, <2>1
  <2>2. CASE y # x
    <3>1. y \in DOMAIN tx /\ tx'[y] = tx[y]
      BY <1>5, <2>2
    <3>2. CanLand(y)
      BY <3>1 DEF CanLand
    <3> QED
      BY <1>7, <1>11, <3>1, <3>2
  <2> QED
    BY <2>1, <2>2
<1>14. NotYet'
  <2> SUFFICES ASSUME NEW y \in DOMAIN tx', CanLand(y)'
               PROVE  ~Exists(tx'[y].side, tx'[y].id)
    BY <1>8 DEF NotYet, Exists
  <2>1. CASE y = x
    BY <1>2, <1>5, <1>12, <2>1
  <2>2. CASE y # x
    <3>1. y \in DOMAIN tx /\ tx'[y] = tx[y]
      BY <1>5, <2>2
    <3>2. CanLand(y)
      BY <3>1 DEF CanLand
    <3> QED
      BY <3>1, <3>2 DEF Orderly, Books, NotYet
  <2> QED
    BY <2>1, <2>2
<1>15. Sound(stored)
  BY DEF Typical, AllSound
<1>16. Landed'
  <2>1. side = "public" => shell[run.id] = "none" /\ escrow[run.id] = "none"
    BY <1>2, <1>3 DEF Exists, Orderly, Books, Opened
  <2>2. side = "private" => escrow[run.id] = "none" /\ saved.public = run.public
    BY <1>2, <1>7 DEF Exists, Sides
  <2>3. side = "private" /\ shell[run.id] # "none" => run.public = 0 \/ tx[run.public].state = "landed"
    BY <1>2 DEF Orderly, Books, Landed, Unsigned
  <2>4. side = "private" /\ run.public # 0 => run.public \in DOMAIN tx
    BY <1>2, <1>15 DEF Sound, Sides, Unsigned
  <2>5. escrow[run.id] = "none"
    BY <1>2, <2>1, <2>2 DEF Sides
  <2>6. shell[run.id] # "none" => saved.public = 0 \/ tx'[saved.public].state = "landed"
    <3>1. CASE side = "public"
      BY <2>1, <3>1
    <3>2. CASE side = "private"
      BY <1>5, <2>2, <2>3, <2>4, <3>2
    <3> QED
      BY <1>2, <3>1, <3>2 DEF Sides
  <2> QED
    BY <1>7, <1>8, <2>5, <2>6 DEF Landed
<1>17. Opened' /\ Numbered'
  BY <1>2, <1>7, <1>8 DEF Opened, Numbered, Orderly, Books
<1>18. NoLostEscrow'
  BY <1>2, <1>7, <1>8 DEF NoLostEscrow, Orderly, Books, NoCheckpoint, PaymentIds
<1>19. Receipted'
  <2> SUFFICES ASSUME NEW r \in receipts
               PROVE  /\ tx'[r.public].state = "landed" /\ tx'[r.private].state = "landed"
                      /\ r.public # 0 /\ r.private # 0
    BY <1>8 DEF Receipted, ReceiptsCiteLanded
  <2>1. /\ tx[r.public].state = "landed" /\ tx[r.private].state = "landed"
        /\ r.public # 0 /\ r.private # 0
    BY DEF Orderly, Books, Receipted, ReceiptsCiteLanded
  <2>2. Sound(r)
    BY DEF Typical, AllSound
  <2>3. r.public \in DOMAIN tx /\ r.private \in DOMAIN tx
    BY <2>1, <2>2 DEF Sound, Sides
  <2> QED
    BY <1>5, <2>1, <2>3
<1> QED
  BY <1>10, <1>13, <1>14, <1>16, <1>17, <1>18, <1>19 DEF Books

LEMMA RunOrderly ==
    ASSUME Typical, Orderly, Punctual, TxKept, NEW t \in Tabs, Run(t)
    PROVE  Posted' /\ Books' /\ AllCarried'
<1>1. page[t] \in Page /\ Carried(page[t])
  BY DEF Typical, Typed, Orderly, AllCarried
<1>2. CASE CreateCheckpoint(t)
  <2> PICK fresh : fresh = [NoCheckpoint EXCEPT !.id = ids + 1]
    OBVIOUS
  <2> PICK next : next = [page[t] EXCEPT !.run = fresh, !.at = "guard"]
    OBVIOUS
  <2>1. /\ ids + 1 \in 0..MaxPayments /\ ids + 1 # 0 /\ ids \in Nat /\ stored = NoCheckpoint
        /\ page[t].at \notin Quiet
    BY <1>1, <1>2, BoundAssumption DEF CreateCheckpoint, At, Carried, Quiet, Typical, Typed
  <2>2. fresh \in Checkpoints /\ fresh.id = ids + 1 /\ Unsigned(fresh)
    BY <2>1, BoundAssumption
       DEF NoCheckpoint, Checkpoints, PaymentOperationCheckpoint, Signature, Unsigned
  <2>3. /\ next \in Page /\ next.run = fresh /\ next.at = "guard"
        /\ Persist(t, fresh, next) /\ stored' = fresh /\ ids' = ids + 1
        /\ UNCHANGED <<chain, receipts>>
    BY <1>1, <1>2, <2>2 DEF Page, Steps, CreateCheckpoint, Persist, Store
  <2>4. Carried(next)'
    <3>1. next.at = "guard" /\ stored' = next.run /\ next.run.id = ids + 1
      BY <2>2, <2>3
    <3>2. next.run.id <= ids'
      BY <2>1, <2>3, <3>1
    <3> QED
      BY <3>1, <3>2 DEF Carried
  <2>5. Posted' /\ AllCarried'
    BY <2>1, <2>2, <2>3, <2>4, SavesOrderly
  <2>6. \A x \in DOMAIN tx : ~CanLand(x)
    <3>1. \A x \in DOMAIN tx : tx[x] \in Transaction
      BY DEF Typical, Typed
    <3> QED
      BY <2>1, <3>1 DEF Orderly, Books, Cited, NoCheckpoint, Transaction, PaymentIds
  <2>7. Cited' /\ NotYet' /\ Opened' /\ Receipted'
    BY <2>3, <2>6 DEF Cited, NotYet, CanLand, Opened, Receipted, ReceiptsCiteLanded,
                      Orderly, Books, chain
  <2>8. Landed' /\ Numbered'
    <3>1. \A i \in PaymentIds : i >= ids + 1 => shell[i] = "none" /\ escrow[i] = "none"
      BY <2>1 DEF Orderly, Books, Numbered, PaymentIds
    <3>2. ids + 1 \in PaymentIds
      BY <2>1, BoundAssumption DEF PaymentIds
    <3> QED
      BY <2>1, <2>2, <2>3, <3>1, <3>2 DEF Landed, Numbered, chain, PaymentIds
  <2>9. NoLostEscrow'
    BY <2>1, <2>3 DEF NoLostEscrow, Orderly, Books, NoCheckpoint, PaymentIds, chain
  <2> QED
    BY <2>5, <2>7, <2>8, <2>9 DEF Books
<1>3. CASE RequireAvailableBalance(t)
  BY <1>1, <1>3, GoOrderly, StopOrderly
     DEF RequireAvailableBalance, At, Saved, Carried, Working, Steps, Quiet, Page
<1>4. CASE SignatureStatus(t)
  <2>1. PICK step \in {"doubt", "read", "wait", "height"} :
            Go(t, step) /\ (step = "doubt" => ~CanLand(Saved(t)))
    BY <1>4 DEF SignatureStatus, CanLand
  <2>2. page[t].at = "status" /\ UNCHANGED <<ids, chain>>
    BY <1>4 DEF SignatureStatus, At
  <2>3. ASSUME NEW p \in Page, p = [page[t] EXCEPT !.at = step] PROVE Carried(p)
    <3>1. p.at = step /\ p.run = page[t].run /\ p.side = page[t].side
      BY <1>1, <2>3 DEF Page
    <3> QED
      BY <1>1, <2>1, <2>2, <3>1 DEF Carried, Saved, Working, Steps
  <2> QED
    BY <2>1, <2>2, <2>3, GoOrderly DEF Steps, Quiet
<1>5. CASE BlockHeight(t)
  <2>1. CASE tx[Saved(t)].late
    <3>1. Go(t, "doubt") /\ ~CanLand(Saved(t))
      BY <1>5, <2>1 DEF BlockHeight, CanLand
    <3>2. page[t].at = "height" /\ UNCHANGED <<ids, chain>>
      BY <1>5 DEF BlockHeight, At
    <3>3. ASSUME NEW p \in Page, p = [page[t] EXCEPT !.at = "doubt"] PROVE Carried(p)
      <4>1. p.at = "doubt" /\ p.run = page[t].run /\ p.side = page[t].side
        BY <1>1, <3>3 DEF Page
      <4> QED
        BY <1>1, <3>1, <3>2, <4>1 DEF Carried, Saved, Working, Steps
    <3> QED
      BY <3>1, <3>2, <3>3, GoOrderly DEF Steps, Quiet
  <2>2. CASE ~tx[Saved(t)].late
    BY <1>5, <2>2, StopOrderly DEF BlockHeight, At, Quiet
  <2> QED
    BY <2>1, <2>2
<1>6. CASE ReconcileExpired(t)
  <2>1. CASE Visible(t)
    BY <1>6, <2>1, ReachedOrderly DEF ReconcileExpired, At, Working, Steps
  <2>2. CASE ~Visible(t) /\ Mismatch(t)
    BY <1>6, <2>2, StopOrderly DEF ReconcileExpired, At, Quiet
  <2>3. CASE ~Visible(t) /\ ~Mismatch(t)
    BY <1>6, <2>3, ClearOrderly DEF ReconcileExpired
  <2> QED
    BY <2>1, <2>2, <2>3
<1>7. CASE ReadPayment(t)
  <2>1. CASE Visible(t)
    BY <1>7, <2>1, ReachedOrderly DEF ReadPayment, At, Working, Steps
  <2>2. CASE ~Visible(t) /\ Mismatch(t)
    BY <1>7, <2>2, StopOrderly DEF ReadPayment, At, Quiet
  <2>3. CASE ~Visible(t) /\ ~Mismatch(t)
    <3>1. PICK step \in {"sign", "wait", "status"} :
              /\ Go(t, step) /\ (step = "sign" => Saved(t) = 0)
              /\ (step = "status" => Saved(t) # 0)
      BY <1>7, <2>3 DEF ReadPayment
    <3> QED
      BY <1>1, <1>7, <3>1, GoOrderly
         DEF ReadPayment, At, Saved, Carried, Working, Steps, Quiet, Page
  <2> QED
    BY <2>1, <2>2, <2>3
<1>8. CASE WaitForPayment(t)
  BY <1>8, ReachedOrderly, StopOrderly DEF WaitForPayment, At, Working, Steps, Quiet
<1>9. CASE SignTransaction(t)
  <2>1. CASE Stop(t)
    BY <1>9, <2>1, StopOrderly DEF SignTransaction, At, Quiet
  <2>2. CASE ~Stop(t)
    <3> PICK next : next = [page[t] EXCEPT !.at = "save"]
      OBVIOUS
    <3>1. /\ page' = [page EXCEPT ![t] = next]
          /\ Accepted(page[t].side, page[t].run.id)
          /\ UNCHANGED <<stored, mail, receipts, ids, chain>>
      BY <1>9, <2>2 DEF SignTransaction, Moved, Unwritten
    <3>2. next.checkpoint = page[t].checkpoint /\ next.at = "save" /\ next.run = page[t].run
          /\ next.side = page[t].side
      BY <1>1 DEF Page
    <3>3. Carried(next)
      BY <1>1, <1>9, <3>1, <3>2
         DEF SignTransaction, At, Carried, Working, Steps, Accepted, Exists, Page, Sides
    <3> QED
      BY <1>9, <3>1, <3>2, <3>3, StillOrderly DEF SignTransaction, At, Quiet
  <2> QED
    BY <2>1, <2>2
<1>10. CASE SaveAndSend(t)
  <2>1. CASE Owns(t)
    BY <1>10, <2>1, SendOrderly
  <2>2. CASE ~Owns(t)
    BY <1>10, <2>2, StopOrderly DEF SaveAndSend, At, Quiet, chain
  <2> QED
    BY <2>1, <2>2
<1>11. CASE PollConfirmation(t)
  BY <1>1, <1>11, GoOrderly, StopOrderly
     DEF PollConfirmation, At, Carried, Working, Steps, Quiet, Page
<1>12. CASE Close(t)
  <2> PICK next : next = [page[t] EXCEPT !.run = NoCheckpoint, !.at = "done"]
    OBVIOUS
  <2>1. next.checkpoint = page[t].checkpoint /\ Carried(next)
    BY <1>1, QuietCarried DEF Page, Quiet
  <2>2. page' = [page EXCEPT ![t] = next] /\ UNCHANGED <<stored, mail, receipts, ids, chain>>
    BY <1>12 DEF Close
  <2> QED
    BY <1>12, <2>1, <2>2, StillOrderly DEF Close, At, Quiet
<1> QED
  BY <1>2, <1>3, <1>4, <1>5, <1>6, <1>7, <1>8, <1>9, <1>10, <1>11, <1>12 DEF Run

\* Nothing but what the tabs show changes; a run may stop.
LEMMA ShowsOrderly ==
    ASSUME Orderly, UNCHANGED <<stored, ids, chain, receipts>>,
           \A u \in Tabs : \/ page'[u].at \in Quiet
                           \/ /\ page'[u].at = page[u].at /\ page'[u].side = page[u].side
                              /\ page'[u].run = page[u].run
    PROVE  Books' /\ AllCarried'
<1>1. ASSUME NEW u \in Tabs PROVE Carried(page[u])'
  <2> PICK q : q = page'[u]
    OBVIOUS
  <2>1. Carried(page[u])
    BY DEF Orderly, AllCarried
  <2>2. CASE q.at \in Quiet
    <3>1. Carried(q)'
      BY <2>2, QuietCarried, CarriedKept
    <3> QED
      BY <3>1 DEF Carried
  <2>3. CASE q.at \notin Quiet
    <3>1. Carried(q)
      BY <2>1, <2>3 DEF Carried
    <3>2. Carried(q)'
      BY <3>1, CarriedKept
    <3> QED
      BY <3>2 DEF Carried
  <2> QED
    BY <2>2, <2>3
<1> QED
  BY <1>1, BooksKept DEF AllCarried, Orderly

\* Only an unsigned checkpoint is discarded, so nothing is lost.
LEMMA DiscardOrderly ==
    ASSUME Typical, Orderly, Punctual, NEW t \in Tabs, DiscardUnsentPayment(t)
    PROVE  Posted' /\ Books' /\ AllCarried'
<1>1. /\ Persist(t, NoCheckpoint, page[t]) /\ UNCHANGED <<lease, ids, chain, receipts>>
      /\ page[t] \in Page /\ stored \in Checkpoints /\ stored' = NoCheckpoint
  BY DEF DiscardUnsentPayment, Persist, Store, Typical, Typed
<1>2. mail[t] = << >> /\ page[t].checkpoint = stored
  BY <1>1, ActsOnSaved DEF Persist, Orderly
<1>3. stored # NoCheckpoint /\ Unsigned(stored) /\ stored.id # 0
  BY <1>1, <1>2, ZeroIsNone DEF DiscardUnsentPayment, Unsigned, Typical, AllSound
<1>4. Posted'
  BY <1>1, NoCheckpointSound, PostedPersist DEF Orderly
<1>5. \A x \in DOMAIN tx : ~CanLand(x)
  <2>1. \A x \in DOMAIN tx : tx[x] \in Transaction /\ x # 0
    BY DEF Typical, Typed
  <2> QED
    BY <1>3, <2>1 DEF Orderly, Books, Cited, Unsigned, Transaction, Sides
<1>6. escrow[stored.id] = "none"
  BY <1>3 DEF Orderly, Books, Landed, Unsigned
<1>7. NoCheckpoint.id = 0
  BY DEF NoCheckpoint
<1>8. Cited' /\ NotYet' /\ Landed' /\ Opened' /\ Receipted'
  BY <1>1, <1>5, <1>7 DEF Cited, NotYet, CanLand, Landed, Opened, Receipted, ReceiptsCiteLanded,
                          Orderly, Books, chain
<1>9. Numbered'
  BY <1>1, <1>7 DEF Numbered, Orderly, Books, chain, Typical, Typed
<1>10. NoLostEscrow'
  BY <1>1, <1>6 DEF NoLostEscrow, Orderly, Books, chain
<1>11. ASSUME NEW u \in Tabs PROVE Carried(page[u])'
  <2>1. Carried(page[u]) /\ page[u] \in Page
    BY DEF Orderly, AllCarried, Typical, Typed
  <2>2. /\ page'[u].at = page[u].at /\ page'[u].side = page[u].side /\ page'[u].run = page[u].run
    <3>1. page \in [Tabs -> Page] /\ page' = [page EXCEPT ![t] = [page[t] EXCEPT !.checkpoint = NoCheckpoint]]
      BY <1>1 DEF Persist, Typical, Typed
    <3> QED
      BY <1>1, <3>1 DEF Page
  <2>3. page[u].at # "create"
    BY <1>3, <2>1 DEF Carried
  <2>4. page[u].at \in Working => Unsigned(page[u].run) /\ page[u].run.id <= ids
    BY <1>3, <2>1 DEF Carried
  <2> QED
    BY <1>1, <2>1, <2>2, <2>3, <2>4 DEF Carried, Unsigned, CanLand, Exists, chain
<1> QED
  BY <1>4, <1>8, <1>9, <1>10, <1>11 DEF Books, AllCarried

LEMMA LastOfRest ==
    ASSUME NEW S, NEW s \in Seq(S), NEW rest \in Seq(S), Len(rest) = Len(s) - 1, rest # << >>,
           \A j \in 1..(Len(s) - 1) : rest[j] = IF j < 1 THEN s[j] ELSE s[j + 1]
    PROVE  rest[Len(rest)] = s[Len(s)]
<1>1. \A n \in Nat : n > 1 => n - 1 \in 1..(n - 1) /\ (n - 1) + 1 = n /\ ~(n - 1 < 1)
  OBVIOUS
<1>2. Len(s) \in Nat /\ Len(s) > 1
  OBVIOUS
<1> QED
  BY <1>1, <1>2

LEMMA ApplyOrderly ==
    ASSUME Typical, Orderly, Punctual, NEW t \in Tabs, ApplyCheckpoint(t)
    PROVE  Posted' /\ Books' /\ AllCarried'
<1>0. mishaps["late"] \in Nat
  BY DEF Typical, Typed, Mishaps
<1>1. /\ 1 \in DOMAIN mail[t] /\ mail' = [mail EXCEPT ![t] = RemoveAt(mail[t], 1)]
      /\ page' = [page EXCEPT ![t].checkpoint = mail[t][1]]
      /\ UNCHANGED <<stored, lease, ids, chain, receipts>>
  <2>1. PICK i \in DOMAIN mail[t] :
            /\ IF i = 1 THEN UNCHANGED mishaps ELSE Suffer("late")
            /\ mail' = [mail EXCEPT ![t] = RemoveAt(@, i)]
            /\ page' = [page EXCEPT ![t].checkpoint = mail[t][i]]
            /\ UNCHANGED <<stored, lease, ids, chain, receipts>>
    BY DEF ApplyCheckpoint
  <2>2. i = 1
    BY <1>0, <2>1 DEF Suffer, Punctual
  <2> QED
    BY <2>1, <2>2
<1> PICK s, rest : s = mail[t] /\ rest = RemoveAt(s, 1)
  OBVIOUS
<1>2. /\ s \in Seq(Checkpoints) /\ rest \in Seq(Checkpoints) /\ Len(rest) = Len(s) - 1
      /\ \A j \in 1..(Len(s) - 1) : rest[j] = IF j < 1 THEN s[j] ELSE s[j + 1]
  <2>1. s \in Seq(Checkpoints)
    BY DEF Typical, Typed
  <2>2. 1 \in DOMAIN s
    BY <1>1
  <2> QED
    BY <2>1, <2>2, RemoveAtType
<1>3. Len(s) \in Nat /\ Len(s) >= 1 /\ s[Len(s)] = stored
  BY <1>1, <1>2 DEF Orderly, Posted
<1>4. IF rest = << >> THEN s[1] = stored ELSE rest[Len(rest)] = stored
  <2>1. CASE rest = << >>
    BY <1>2, <1>3, <2>1
  <2>2. CASE rest # << >>
    BY <1>2, <1>3, <2>2, LastOfRest
  <2> QED
    BY <2>1, <2>2
<1>5. /\ mail'[t] = rest /\ page'[t].checkpoint = s[1]
      /\ \A u \in Tabs : u # t => mail'[u] = mail[u] /\ page'[u] = page[u]
      /\ page'[t].at = page[t].at /\ page'[t].side = page[t].side /\ page'[t].run = page[t].run
  <2>1. page \in [Tabs -> Page] /\ mail \in [Tabs -> Seq(Checkpoints)] /\ page[t] \in Page
    BY DEF Typical, Typed
  <2> QED
    BY <1>1, <2>1 DEF Page
<1>6. Posted'
  BY <1>1, <1>4, <1>5 DEF Posted, Orderly
<1> QED
  BY <1>1, <1>5, <1>6, ShowsOrderly

LEMMA ConfirmOrderly ==
    ASSUME Typical, Orderly, Punctual, NEW t \in Tabs, ConfirmPayment(t)
    PROVE  Posted' /\ Books' /\ AllCarried'
<1>1. page \in [Tabs -> Page] /\ page[t] \in Page /\ stored \in Checkpoints /\ Sound(stored)
      /\ stored.id <= ids
  BY DEF Typical, Typed, AllSound, Orderly, Books, Numbered
<1>2. page[t].checkpoint = stored
  BY ActsOnSaved DEF ConfirmPayment, Orderly
<1> PICK next, step : /\ step = IF stored = NoCheckpoint THEN "create" ELSE "guard"
                      /\ next = [page[t] EXCEPT !.run = stored, !.side = "public", !.at = step]
  OBVIOUS
<1>3. /\ page' = [page EXCEPT ![t] = next] /\ Acquirable(t)
      /\ UNCHANGED <<stored, mail, ids, chain, receipts>>
  BY <1>2 DEF ConfirmPayment
<1>4. next.checkpoint = page[t].checkpoint /\ next.run = stored /\ next.at = step
  BY <1>1 DEF Page
<1>5. Carried(next)
  BY <1>1, <1>4 DEF Carried
<1>6. /\ \A u \in Tabs : u # t => page[u].at \in Quiet
      /\ \A u \in Tabs : page'[u] = IF u = t THEN next ELSE page[u]
  BY <1>1, <1>3, TabAssumption DEF Exclusive, Acquirable, Orderly
<1>7. ASSUME NEW u \in Tabs PROVE Carried(page[u])'
  <2> PICK q : q = page'[u]
    OBVIOUS
  <2>1. Carried(q)
    BY <1>5, <1>6, QuietCarried
  <2>2. Carried(q)'
    BY <1>3, <2>1, CarriedKept
  <2> QED
    BY <2>2 DEF Carried
<1>8. Posted'
  BY <1>3, <1>4, <1>6, PostedKept DEF Orderly
<1> QED
  BY <1>3, <1>7, <1>8, BooksKept DEF AllCarried, Orderly

LEMMA TabOrderly ==
    ASSUME Typical, Orderly, Punctual, NEW t \in Tabs,
           \/ ConfirmPayment(t) \/ DiscardUnsentPayment(t) \/ ApplyCheckpoint(t)
           \/ Reload(t) \/ ConfirmUndo(t) \/ Heartbeat(t) \/ AwaitFails(t) \/ TabDies(t)
    PROVE  Posted' /\ Books' /\ AllCarried'
<1>1. page \in [Tabs -> Page] /\ page[t] \in Page /\ mail \in [Tabs -> Seq(Checkpoints)]
  BY DEF Typical, Typed
<1>2. CASE Reload(t) \/ TabDies(t)
  <2>1. /\ page'[t].at = "idle" /\ page'[t].checkpoint = stored /\ mail'[t] = << >>
        /\ \A u \in Tabs : u # t => page'[u] = page[u] /\ mail'[u] = mail[u]
        /\ UNCHANGED <<stored, ids, chain, receipts>>
    <3> PICK next : next = IF Reload(t) THEN [page[t] EXCEPT !.checkpoint = stored, !.at = "idle"]
                           ELSE [checkpoint |-> stored, run |-> NoCheckpoint,
                                 at |-> "idle", side |-> "public"]
      OBVIOUS
    <3>1. next.at = "idle" /\ next.checkpoint = stored
      BY <1>1 DEF Page
    <3>2. /\ page' = [page EXCEPT ![t] = next] /\ mail' = [mail EXCEPT ![t] = << >>]
          /\ UNCHANGED <<stored, ids, chain, receipts>>
      BY <1>2 DEF Reload, TabDies
    <3> QED
      BY <1>1, <3>1, <3>2
  <2>2. Posted'
    BY <2>1 DEF Posted, Orderly
  <2> QED
    BY <2>1, <2>2, ShowsOrderly DEF Quiet
<1>3. CASE ConfirmUndo(t)
  <2>1. /\ page'[t].at = "idle" /\ \A u \in Tabs : u # t => page'[u] = page[u]
        /\ page'[t].checkpoint = page[t].checkpoint
        /\ UNCHANGED <<stored, mail, ids, chain, receipts>>
    BY <1>1, <1>3 DEF ConfirmUndo, Moved, Unwritten, Page
  <2>2. Posted'
    BY <2>1, PostedKept DEF Orderly
  <2> QED
    BY <2>1, <2>2, ShowsOrderly DEF Quiet
<1>4. CASE Heartbeat(t)
  BY <1>4, PostedKept, ShowsOrderly DEF Heartbeat, Orderly
<1>5. CASE AwaitFails(t)
  BY <1>5, ThrowOrderly DEF AwaitFails
<1> QED
  BY <1>2, <1>3, <1>4, <1>5, ConfirmOrderly, DiscardOrderly, ApplyOrderly

\* The pages stand still: what can still land has become less, and what a tab
\* at "save" is about to create does not appear.
LEMMA StillCarried ==
    ASSUME Typical, Orderly, UNCHANGED <<stored, page, ids>>,
           \A x \in DOMAIN tx : CanLand(x)' => CanLand(x),
           \A t \in Tabs : At(t, "save") =>
               (Exists(page[t].side, page[t].run.id)' => Exists(page[t].side, page[t].run.id))
    PROVE  AllCarried'
<1> SUFFICES ASSUME NEW t \in Tabs PROVE Carried(page[t])'
  BY DEF AllCarried
<1>1. Carried(page[t]) /\ page'[t] = page[t] /\ page[t] \in Page /\ Sound(page[t].run)
  BY DEF Orderly, AllCarried, Typical, Typed, AllSound, Held
<1> PICK n : n = page[t].run[page[t].side]
  OBVIOUS
<1>2. page[t].at = "doubt" => n \in DOMAIN tx
  BY <1>1 DEF Carried, Sound, Page
<1>3. page[t].at = "doubt" => ~CanLand(n)'
  BY <1>1, <1>2 DEF Carried
<1> QED
  BY <1>1, <1>3 DEF Carried, Exists, CanLand, At

LEMMA LandsOrderly ==
    ASSUME Typical, Orderly, NEW x \in DOMAIN tx, Lands(x), TxKept
    PROVE  Books' /\ AllCarried'
<1>1. /\ CanLand(x) /\ tx[x].id = stored.id /\ stored[tx[x].side] = x
      /\ \A y \in DOMAIN tx : tx[y] \in Transaction
  BY DEF Lands, CanLand, Orderly, Books, Cited, Typical, Typed
<1> PICK id, side : id = tx[x].id /\ side = tx[x].side
  OBVIOUS
<1>2. id \in PaymentIds /\ side \in Sides /\ id # 0 /\ x # 0
  BY <1>1 DEF Transaction, PaymentIds, Typical, Typed
<1>3. PICK state \in {"landed", "failed"} :
          /\ tx' = [tx EXCEPT ![x].state = state]
          /\ IF state = "landed" THEN Accepted(side, id) ELSE UNCHANGED <<shell, escrow>>
  BY DEF Lands
<1>4. /\ DOMAIN tx' = DOMAIN tx /\ tx'[x].state = state
      /\ \A y \in DOMAIN tx : tx'[y].side = tx[y].side /\ tx'[y].id = tx[y].id
      /\ \A y \in DOMAIN tx : y # x => tx'[y] = tx[y]
  BY <1>1, <1>3 DEF Transaction
<1>5. /\ \A y \in DOMAIN tx : CanLand(y)' => CanLand(y) /\ y # x
      /\ \A y \in DOMAIN tx : tx[y].state = "landed" => tx'[y].state = "landed"
  BY <1>1, <1>3, <1>4 DEF CanLand
<1>6. /\ UNCHANGED <<stored, page, ids, receipts>>
      /\ \A i \in PaymentIds : \A s \in Sides :
            Exists(s, i)' => Exists(s, i) \/ (i = id /\ s = side /\ state = "landed")
  <2>1. UNCHANGED <<stored, page, ids, receipts>>
    BY DEF Lands
  <2>2. CASE state = "failed"
    BY <1>3, <2>1, <2>2 DEF Exists
  <2>3. CASE state = "landed" /\ Accepted(side, id)
    <3>1. \/ side = "public" /\ shell' = [shell EXCEPT ![id] = "confirmed"] /\ escrow' = escrow
          \/ side = "private" /\ escrow' = [escrow EXCEPT ![id] = "open"] /\ shell' = shell
      BY <1>2, <2>3 DEF Lands, Sides
    <3> QED
      BY <2>1, <2>3, <3>1 DEF Exists, Sides, Typical, Typed
  <2> QED
    BY <1>3, <2>1, <2>2, <2>3
<1>7. AllCarried'
  <2> SUFFICES ASSUME NEW t \in Tabs, At(t, "save"), ~Exists(page[t].side, page[t].run.id),
                      Exists(page[t].side, page[t].run.id)'
               PROVE  FALSE
    BY <1>5, <1>6, StillCarried
  <2>1. /\ page[t] \in Page /\ Carried(page[t]) /\ page[t].run.id # 0 /\ page'[t] = page[t]
    BY <1>6 DEF Typical, Typed, AllNamed, Named, Orderly, AllCarried, At, Working, Steps
  <2>2. page[t].run.id \in PaymentIds /\ page[t].side \in Sides
    BY <2>1, BoundAssumption DEF Page, Checkpoints, PaymentOperationCheckpoint, PaymentIds
  <2>3. page[t].run.id = id /\ page[t].side = side
    BY <1>6, <2>1, <2>2 DEF Exists
  <2>4. stored # NoCheckpoint
    BY <1>1, <1>2 DEF NoCheckpoint
  <2>5. stored = page[t].run /\ page[t].run[side] = 0
    BY <2>1, <2>3, <2>4 DEF Carried, At, Working, Steps
  <2> QED
    BY <1>1, <1>2, <2>5
<1>8. Cited'
  BY <1>4, <1>5, <1>6 DEF Cited, Orderly, Books
<1>9. NotYet'
  <2> SUFFICES ASSUME NEW y \in DOMAIN tx, CanLand(y)', Exists(tx[y].side, tx[y].id)' PROVE FALSE
    BY <1>4 DEF NotYet, Exists
  <2>1. CanLand(y) /\ y # x /\ tx[y].id = stored.id /\ stored[tx[y].side] = y
    BY <1>5 DEF Orderly, Books, Cited
  <2>2. tx[y].side # side
    BY <1>1, <2>1
  <2>3. ~Exists(tx[y].side, tx[y].id) /\ tx[y].side \in Sides /\ tx[y].id \in PaymentIds
    BY <1>1, <2>1 DEF Orderly, Books, NotYet, Transaction
  <2> QED
    BY <1>4, <1>6, <2>2, <2>3 DEF Exists
<1>10. /\ \A i \in PaymentIds : escrow[i] = "none" => escrow'[i] = "none"
                                   \/ (i = id /\ side = "private" /\ state = "landed")
       /\ \A i \in PaymentIds : shell[i] = "none" => shell'[i] = "none"
                                   \/ (i = id /\ side = "public" /\ state = "landed")
       /\ \A i \in PaymentIds : shell[i] # "none" => shell'[i] # "none"
  BY <1>2, <1>6 DEF Exists, Sides, Lands, Accepted, Typical, Typed
<1>11. Landed'
  <2>1. Sound(stored) /\ Landed
    BY DEF Typical, AllSound, Orderly, Books
  <2>2. escrow'[id] # "none" => stored.private # 0 /\ tx'[stored.private].state = "landed"
    <3>1. CASE escrow[id] # "none"
      BY <1>1, <1>2, <1>5, <2>1, <3>1 DEF Landed, Sound, Sides
    <3>2. CASE escrow[id] = "none"
      BY <1>1, <1>2, <1>4, <1>10, <3>2
    <3> QED
      BY <3>1, <3>2
  <2>3. shell'[id] # "none" => stored.public = 0 \/ tx'[stored.public].state = "landed"
    <3>1. CASE shell[id] # "none"
      BY <1>1, <1>2, <1>5, <2>1, <3>1 DEF Landed, Sound, Sides
    <3>2. CASE shell[id] = "none"
      BY <1>1, <1>2, <1>4, <1>10, <3>2
    <3> QED
      BY <3>1, <3>2
  <2> QED
    BY <1>1, <1>6, <2>2, <2>3 DEF Landed
<1>12. Opened'
  <2>1. state = "landed" /\ side = "private" => shell[id] # "none"
    BY <1>3 DEF Accepted
  <2> QED
    BY <1>10, <2>1 DEF Opened, Orderly, Books
<1>13. Numbered'
  <2>1. stored.id <= ids /\ ids \in Nat /\ id \in Nat
    BY <1>2 DEF Orderly, Books, Numbered, Typical, Typed, PaymentIds
  <2> QED
    BY <1>1, <1>6, <1>10, <2>1 DEF Numbered, Orderly, Books, PaymentIds
<1>14. NoLostEscrow'
  BY <1>1, <1>6, <1>10 DEF NoLostEscrow, Orderly, Books
<1>15. Receipted'
  <2>1. \A r \in receipts : r.public \in DOMAIN tx /\ r.private \in DOMAIN tx
    BY DEF Typical, AllSound, Sound, Sides, Orderly, Books, Receipted
  <2> QED
    BY <1>5, <1>6, <2>1 DEF Receipted, ReceiptsCiteLanded, Orderly, Books
<1> QED
  BY <1>7, <1>8, <1>9, <1>11, <1>12, <1>13, <1>14, <1>15 DEF Books

\* The other steps of the network: no transaction lands, no account appears.
LEMMA NetworkOrderly ==
    ASSUME Typical, Orderly, TxKept, UNCHANGED <<stored, page, ids, receipts>>, DOMAIN tx' = DOMAIN tx,
           \A x \in DOMAIN tx : tx'[x].state = tx[x].state /\ (CanLand(x)' => CanLand(x)),
           \A i \in PaymentIds : /\ (shell'[i] = "none") <=> (shell[i] = "none")
                                 /\ (escrow'[i] = "none") <=> (escrow[i] = "none")
    PROVE  Books' /\ AllCarried'
<1>1. \A x \in DOMAIN tx : tx[x] \in Transaction
  BY DEF Typical, Typed
<1>2. \A x \in DOMAIN tx : tx[x].id \in PaymentIds
  BY <1>1 DEF Transaction
<1>3. \A s, i : i \in PaymentIds => (Exists(s, i)' <=> Exists(s, i))
  BY DEF Exists
<1>4. AllCarried'
  <2> SUFFICES ASSUME NEW t \in Tabs, At(t, "save")
               PROVE  Exists(page[t].side, page[t].run.id)' => Exists(page[t].side, page[t].run.id)
    BY StillCarried
  <2>1. page[t] \in Page /\ page[t].run.id # 0
    BY DEF Typical, Typed, AllNamed, Named, At, Working, Steps
  <2>2. page[t].run.id \in PaymentIds
    BY <2>1, BoundAssumption DEF Page, Checkpoints, PaymentOperationCheckpoint, PaymentIds
  <2> QED
    BY <2>2 DEF Exists
<1>5. Cited'
  BY DEF Cited, TxKept, Orderly, Books
<1>6. NotYet'
  BY <1>2, <1>3 DEF NotYet, TxKept, Orderly, Books, Exists
<1>7. Landed'
  <2>1. Sound(stored) /\ Landed /\ stored \in Checkpoints
    BY DEF Typical, Typed, AllSound, Orderly, Books
  <2>2. stored.id # 0 => stored.id \in PaymentIds
    BY <2>1, BoundAssumption DEF Checkpoints, PaymentOperationCheckpoint, PaymentIds
  <2> QED
    BY <2>1, <2>2 DEF Landed, Sound, Sides
<1>8. Opened' /\ Numbered' /\ NoLostEscrow'
  BY DEF Opened, Numbered, NoLostEscrow, Orderly, Books
<1>9. Receipted'
  <2>1. \A r \in receipts : r.public \in DOMAIN tx /\ r.private \in DOMAIN tx
    BY DEF Typical, AllSound, Sound, Sides, Orderly, Books, Receipted
  <2> QED
    BY <2>1 DEF Receipted, ReceiptsCiteLanded, Orderly, Books
<1> QED
  BY <1>4, <1>5, <1>6, <1>7, <1>8, <1>9 DEF Books

LEMMA OrderlyStep ==
    ASSUME Typical, Orderly, Punctual, [Next]_vars
    PROVE  Orderly'
<1>1. TxKept /\ Exclusive'
  BY NextType, ExclusiveStep DEF Orderly, Punctual
<1>2. ASSUME NEW t \in Tabs, TabStep(t) PROVE Posted' /\ Books' /\ AllCarried'
  BY <1>1, <1>2, RunOrderly, TabOrderly DEF TabStep
<1>3. ASSUME UNCHANGED <<stored, mail, page, ids, chain, receipts>>
      PROVE  Posted' /\ Books' /\ AllCarried'
  BY <1>3, PostedKept, ShowsOrderly DEF Orderly
<1>4. ASSUME UNCHANGED <<stored, mail, page>> PROVE Posted'
  BY <1>4 DEF Posted, Orderly
<1>5. ASSUME NEW x \in DOMAIN tx, Lands(x) PROVE Posted' /\ Books' /\ AllCarried'
  BY <1>1, <1>4, <1>5, LandsOrderly DEF Lands
<1>6. ASSUME NEW x \in DOMAIN tx, PassesLastValid(x) PROVE Posted' /\ Books' /\ AllCarried'
  <2>1. \A y \in DOMAIN tx : tx[y] \in Transaction
    BY DEF Typical, Typed
  <2>2. /\ DOMAIN tx' = DOMAIN tx
        /\ \A y \in DOMAIN tx : tx'[y].state = tx[y].state /\ (tx[y].late => tx'[y].late)
    BY <1>6, <2>1 DEF PassesLastValid, Transaction
  <2>3. /\ UNCHANGED <<stored, mail, page, ids, receipts, shell, escrow>>
        /\ \A y \in DOMAIN tx : CanLand(y)' => CanLand(y)
    BY <1>6, <2>2 DEF PassesLastValid, CanLand
  <2> QED
    BY <1>1, <1>4, <2>2, <2>3, NetworkOrderly
<1>7. ASSUME NEW i \in PaymentIds, Finalizes(i) \/ Seals(i) PROVE Posted' /\ Books' /\ AllCarried'
  <2>1. /\ UNCHANGED <<stored, mail, page, ids, receipts, tx>>
        /\ \A j \in PaymentIds : /\ (shell'[j] = "none") <=> (shell[j] = "none")
                                 /\ (escrow'[j] = "none") <=> (escrow[j] = "none")
    BY <1>7 DEF Finalizes, Seals, Typical, Typed
  <2>2. \A y \in DOMAIN tx : CanLand(y)' => CanLand(y)
    BY <2>1 DEF CanLand
  <2> QED
    BY <1>1, <1>4, <2>1, <2>2, NetworkOrderly
<1>8. LeaseExpires \/ UNCHANGED vars => UNCHANGED <<stored, mail, page, ids, chain, receipts>>
  BY DEF LeaseExpires, vars
<1>9. Posted' /\ Books' /\ AllCarried'
  BY <1>2, <1>3, <1>5, <1>6, <1>7, <1>8 DEF Next, TabStep
<1> QED
  BY <1>1, <1>9 DEF Orderly

LEMMA InitOrderly == Init => Orderly
<1> SUFFICES ASSUME Init PROVE Orderly
  OBVIOUS
<1> USE DEF Init
<1>1. Exclusive /\ Posted
  BY DEF Exclusive, Posted, Quiet
<1>2. Books
  BY DEF Books, Cited, NotYet, Landed, Opened, Numbered, NoLostEscrow, Receipted,
         ReceiptsCiteLanded, NoCheckpoint
<1>3. AllCarried
  BY QuietCarried DEF AllCarried, Quiet
<1> QED
  BY <1>1, <1>2, <1>3 DEF Orderly

LEMMA AlwaysOrderly ==
    ASSUME Punctual PROVE Spec => []Orderly
<1>1. Typical /\ Orderly /\ [Next]_vars => Orderly'
  BY OrderlyStep
<1> QED
  BY <1>1, InitOrderly, AlwaysTypical, PTL DEF Spec

\* Every payment that took funds is in the saved checkpoint or in a receipt, as
\* long as no tab is frozen past its lease or behind its storage events, for
\* any number of tabs, failed requests and tabs that die
\* (persistPaymentCheckpoint, discardUnsentPayment, recordPaymentReceipt).
THEOREM NothingLost ==
    ASSUME Punctual PROVE Spec => []NoLostEscrow
<1>1. Orderly => NoLostEscrow
  BY DEF Orderly, Books
<1> QED
  BY <1>1, AlwaysOrderly, PTL

\* No transaction is sent for a step of a payment while an earlier one can
\* still land (pendingOutcome, sendPublicTransaction, sendPrivateTransaction).
THEOREM NothingResent ==
    ASSUME Punctual PROVE Spec => []WaitInsteadOfResending
<1>1. Orderly => WaitInsteadOfResending
  BY DEF Orderly, Books, Cited, WaitInsteadOfResending
<1> QED
  BY <1>1, AlwaysOrderly, PTL

\* A receipt cites two transactions that did land, although one of them may
\* have been believed dead (receiptFromCheckpoint, ReconcileExpired).
THEOREM ReceiptsTrue ==
    ASSUME Punctual PROVE Spec => []ReceiptsCiteLanded
<1>1. Orderly => ReceiptsCiteLanded
  BY DEF Orderly, Books, Receipted
<1> QED
  BY <1>1, AlwaysOrderly, PTL
=============================================================================
