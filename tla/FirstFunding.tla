----------------------------- MODULE FirstFunding -----------------------------
(***************************************************************************)
(* paymentWorkflow.ts: fundFirstProtectedBalance, which deposits and       *)
(* delegates in two transactions without saving anything in between, and   *)
(* onboardRecipientDeposit, which a payee runs before acknowledging a      *)
(* payment.  Each action is what the code does from one await to the next. *)
(***************************************************************************)
EXTENDS DepositAccounts

VARIABLE setup    \* setup[t]: where t's setup is and the transaction it is at

SetupSteps == {"idle", "inspect", "source", "verify", "onboard", "simulate", "approve",
               "poll", "prepared"}

SetupTypeOK ==
    setup \in [Tabs -> [at : SetupSteps, kind : {"prepare", "delegate", "onboard"},
                        signature : Nat]]

NoSetup == [at |-> "idle", kind |-> "prepare", signature |-> 0]
SetupInit == setup = [t \in Tabs |-> NoSetup]

SetupAt(t, step) == setup[t].at = step
SetupGoes(t, step) == setup' = [setup EXCEPT ![t].at = step]
SetupSigns(t, kind) == setup' = [setup EXCEPT ![t] = [@ EXCEPT !.at = "simulate", !.kind = kind]]
SetupStops(t) == setup' = [setup EXCEPT ![t] = NoSetup]

\* Mutant: a funding that got half-way is not recognised.
FreshOrDelegated == LET deposit == Owner(account)  permission == account.permission IN
    CASE deposit = "nobody" /\ permission = "absent" -> "fresh"
      [] deposit = "delegation" /\ permission = "er" -> "delegated"
      [] OTHER -> "throws"

\* inspectFirstFundingAccounts at the confirmed commitment.
FundingState == LET deposit == Owner(account)  permission == account.permission IN
    CASE deposit = "nobody" /\ permission = "absent" -> "fresh"
      [] deposit = "delegation" /\ permission = "er" -> "delegated"
      [] deposit = "program" /\ permission = "base" -> "prepared"
      [] OTHER -> "throws"

\* confirmFunding: "Set up balance" is offered once the rollup showed no Deposit,
\* which it does, as usePrivateBalance expects of it, for one that lives elsewhere.
ConfirmFunding(t) ==
    /\ SetupAt(t, "idle")
    /\ account.deposit # "er"
    /\ SetupGoes(t, "inspect")
    /\ UNCHANGED <<chain, mishaps>>

InspectFunding(t) ==
    /\ SetupAt(t, "inspect")
    /\ CASE FundingState = "fresh" -> SetupGoes(t, "source")
         [] FundingState = "prepared" -> SetupSigns(t, "delegate")
         [] OTHER -> SetupStops(t)
    /\ UNCHANGED <<chain, mishaps>>

\* discoverUsdcFundingSource
DiscoverFundingSource(t) ==
    /\ SetupAt(t, "source")
    /\ IF finalized.wallet >= Funding THEN SetupGoes(t, "verify") ELSE SetupStops(t)
    /\ UNCHANGED <<chain, mishaps>>

\* verifyFirstFundingPlan: what is no longer fresh only remains to be delegated.
VerifyFundingPlan(t) ==
    /\ SetupAt(t, "verify")
    /\ CASE FundingState = "throws" -> SetupStops(t)
         [] FundingState = "fresh" -> IF finalized.wallet >= Funding
                                      THEN SetupSigns(t, "prepare") ELSE SetupStops(t)
         [] OTHER -> SetupSigns(t, "delegate")
    /\ UNCHANGED <<chain, mishaps>>

\* waitForPreparedFunding
WaitForPreparedFunding(t) ==
    /\ SetupAt(t, "prepared")
    /\ IF FundingState = "prepared" THEN SetupSigns(t, "delegate") ELSE SetupStops(t)
    /\ UNCHANGED <<chain, mishaps>>

\* RecipientPayment.performAction, for a payment somebody prepared.
AcknowledgeAsRecipient(t) ==
    /\ SetupAt(t, "idle")
    /\ paid
    /\ SetupGoes(t, "onboard")
    /\ UNCHANGED <<chain, mishaps>>

\* Mutant: onboarding counts on the permission of a first funding.
OnboardWithPermission(t) ==
    /\ SetupAt(t, "onboard")
    /\ IF finalized.owner = "program" /\ finalized.permission = "base"
       THEN SetupSigns(t, "delegate")
       ELSE SetupStops(t)
    /\ UNCHANGED <<chain, mishaps>>

\* onboardRecipientDeposit reads finalized state.
OnboardRecipientDeposit(t) ==
    /\ SetupAt(t, "onboard")
    /\ IF finalized.owner = "program" /\ finalized.permission # "er"
       THEN SetupSigns(t, IF finalized.permission = "absent" THEN "onboard" ELSE "delegate")
       ELSE SetupStops(t)
    /\ UNCHANGED <<chain, mishaps>>

\* sendPublicTransaction: simulate before the wallet is asked.
SimulateSetup(t) ==
    /\ SetupAt(t, "simulate")
    /\ IF Accepted(setup[t].kind, account) THEN SetupGoes(t, "approve") ELSE SetupStops(t)
    /\ UNCHANGED <<chain, mishaps>>

\* The wallet has signed: simulate again and send.
SendSetup(t) ==
    /\ SetupAt(t, "approve")
    /\ IF Accepted(setup[t].kind, account)
       THEN /\ Send(setup[t].kind, 0)
            /\ setup' = [setup EXCEPT ![t] = [@ EXCEPT !.at = "poll", !.signature = Len(tx) + 1]]
       ELSE SetupStops(t) /\ UNCHANGED tx
    /\ UNCHANGED <<account, finalized, paid, moves, mishaps>>

\* Poll until the transaction is confirmed, failed or expired.  Giving up on one
\* that can still land is a failure (SetupFails): the wallet then sees an error.
PollSetup(t) ==
    /\ SetupAt(t, "poll")
    /\ ~CanLand(setup[t].signature)
    /\ IF tx[setup[t].signature].state = "landed" /\ setup[t].kind = "prepare"
       THEN SetupGoes(t, "prepared")
       ELSE SetupStops(t)
    /\ UNCHANGED <<chain, mishaps>>

\* A request rejects, the user refuses to sign, or the tab dies.
SetupFails(t) ==
    /\ ~SetupAt(t, "idle")
    /\ Suffer("failure")
    /\ SetupStops(t)
    /\ UNCHANGED chain

SetupRuns(t) ==
    \/ InspectFunding(t) \/ DiscoverFundingSource(t) \/ VerifyFundingPlan(t)
    \/ WaitForPreparedFunding(t) \/ OnboardRecipientDeposit(t)
    \/ SimulateSetup(t) \/ SendSetup(t) \/ PollSetup(t)

SetUp(t) == \/ ConfirmFunding(t) \/ AcknowledgeAsRecipient(t)
            \/ SetupRuns(t) \/ SetupFails(t)

-----------------------------------------------------------------------------
(* Properties *)

\* Funds that reached the vault in a first funding become a private balance,
\* whatever failed in between, if the user keeps retrying
\* (protected-pay-prd.md: "Deposit succeeds but the interface loses connection:
\* balance appears after reconnection").
FundedBalanceIsProtected ==
    account.deposit = "base" /\ account.permission = "base" ~> account.deposit = "er"
=============================================================================
