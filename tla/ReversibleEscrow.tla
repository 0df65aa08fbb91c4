-------------------------- MODULE ReversibleEscrow --------------------------
(***************************************************************************)
(* What Protected Pay promises its users, with no accounts, runtimes,      *)
(* policies or Crank: a payment is held, its sender may undo it until it   *)
(* becomes final, the recipient must confirm before a deadline, and the    *)
(* amount held is collected once, by the one party it is then due to.      *)
(* Nothing else ever changes what a user owns.                             *)
(***************************************************************************)
EXTENDS Integers

CONSTANTS Users, Payments, NoUser, Times, Endowment

VARIABLES
    clock,
    funds,    \* funds[u]: what u owns, wherever it is kept, outside any escrow
    escrow    \* escrow[p]: the terms and the phase of payment p

vars == <<clock, funds, escrow>>

Idle == [phase |-> "idle", from |-> NoUser, to |-> NoUser, amount |-> 0,
         settle_after |-> 0, expires_at |-> 0]

Init ==
    /\ clock = 0
    /\ funds = Endowment
    /\ escrow = [p \in Payments |-> Idle]

Phase(p, phase) == escrow' = [escrow EXCEPT ![p].phase = phase]

Pay(p, party) == funds' = [funds EXCEPT ![party] = @ + escrow[p].amount]

Hold(p, from, to) ==
    /\ escrow[p].phase = "idle"
    /\ from # to
    /\ \E amount \in 1..funds[from], settle, expiry \in Times :
          /\ clock < settle /\ settle < expiry
          /\ funds' = [funds EXCEPT ![from] = @ - amount]
          /\ escrow' = [escrow EXCEPT ![p] =
                [phase |-> "held", from |-> from, to |-> to, amount |-> amount,
                 settle_after |-> settle, expires_at |-> expiry]]
    /\ UNCHANGED clock

Confirm(p) ==
    /\ escrow[p].phase = "held"
    /\ clock < escrow[p].expires_at
    /\ Phase(p, "confirmed")
    /\ UNCHANGED <<clock, funds>>

Undo(p) ==
    /\ escrow[p].phase \in {"held", "confirmed"}
    /\ Phase(p, "undone")
    /\ Pay(p, escrow[p].from)
    /\ UNCHANGED clock

Finalise(p) ==
    /\ escrow[p].phase = "confirmed"
    /\ clock >= escrow[p].settle_after
    /\ Phase(p, "final")
    /\ UNCHANGED <<clock, funds>>

Lapse(p) ==
    /\ escrow[p].phase = "held"
    /\ clock >= escrow[p].expires_at
    /\ Phase(p, "lapsed")
    /\ UNCHANGED <<clock, funds>>

Collect(p) ==
    /\ \/ escrow[p].phase = "final" /\ Phase(p, "paid") /\ Pay(p, escrow[p].to)
       \/ escrow[p].phase = "lapsed" /\ Phase(p, "recovered") /\ Pay(p, escrow[p].from)
    /\ UNCHANGED clock

Pass ==
    /\ clock' \in Times
    /\ clock' > clock
    /\ UNCHANGED <<funds, escrow>>

Next ==
    \/ \E p \in Payments :
          \/ \E from, to \in Users : Hold(p, from, to)
          \/ Confirm(p) \/ Undo(p) \/ Finalise(p) \/ Lapse(p) \/ Collect(p)
    \/ Pass

Spec == Init /\ [][Next]_vars
=============================================================================
