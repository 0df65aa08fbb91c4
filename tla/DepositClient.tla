---------------------------- MODULE DepositClient ----------------------------
(***************************************************************************)
(* The client of one wallet as a whole: in each tab first funding or       *)
(* onboarding and a balance operation, against the wallet's Deposit.       *)
(***************************************************************************)
EXTENDS FirstFunding, BalanceOperation

vars == <<chain, mishaps, setup, client>>

TypeOK == AccountsTypeOK /\ SetupTypeOK /\ BalanceTypeOK

Init == AccountsInit(Unfunded) /\ SetupInit /\ BalanceInit
InitFunded == AccountsInit(Funded) /\ SetupInit /\ BalanceInit

\* The two dialogs are modal, and "Set up balance" is offered where no balance
\* is shown.
MaySetUp(t) == At(t, "idle") /\ (SetupAt(t, "idle") => page[t].shown = Unread)

\* The tab dies: what it was running is lost, and its session storage as well
\* unless it is reloaded.
TabDies(t) ==
    /\ Suffer("failure")
    /\ \E stored \in {page[t].stored, NoCheckpoint} :
          page' = [page EXCEPT ![t] = [NoPage EXCEPT !.stored = stored]]
    /\ setup' = [setup EXCEPT ![t] = NoSetup]
    /\ UNCHANGED <<chain, ops>>

Next ==
    \/ Network /\ UNCHANGED <<setup, client>>
    \/ \E t \in Tabs : \/ SetUp(t) /\ MaySetUp(t) /\ UNCHANGED client
                       \/ Balance(t) /\ SetupAt(t, "idle") /\ UNCHANGED setup
                       \/ TabDies(t)

Spec == Init /\ [][Next]_vars

\* The same from a first funding on, which MaxOps can then afford.
FundedSpec == InitFunded /\ [][Next]_vars

\* Tabs keep running, the network delivers, and the user keeps asking: retries
\* a first funding, resumes an operation.
Fairness ==
    /\ WF_vars((\E x \in DOMAIN tx : Lands(x)) /\ UNCHANGED <<setup, client>>)
    /\ WF_vars((ReturnCommits \/ Finalizes) /\ UNCHANGED <<setup, client>>)
    /\ \A t \in Tabs : /\ WF_vars(SetupRuns(t) /\ MaySetUp(t) /\ UNCHANGED client)
                       /\ SF_vars(ConfirmFunding(t) /\ MaySetUp(t) /\ UNCHANGED client)
                       /\ WF_vars(RunBalanceOperation(t) /\ SetupAt(t, "idle") /\ UNCHANGED setup)
                       /\ SF_vars(ResumeBalanceOperation(t) /\ SetupAt(t, "idle") /\ UNCHANGED setup)

FairSpec == Spec /\ Fairness
FairFundedSpec == FundedSpec /\ Fairness

-----------------------------------------------------------------------------
(* Properties of both together *)

\* A wallet whose Deposit somebody's payment created can use it in the end, if
\* its owner keeps acknowledging it: first funding refuses that Deposit ("setup is
\* incomplete") and onboarding alone brings it onto the rollup, with its permission
\* (onboardRecipientDeposit).
PaidWalletIsOnboarded ==
    []<>(\E t \in Tabs : SetupAt(t, "onboard")) =>
        (account.deposit = "base" /\ account.permission = "absent" ~> account.deposit = "er")
=============================================================================
