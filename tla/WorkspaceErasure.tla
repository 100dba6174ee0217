-------------------------- MODULE WorkspaceErasure --------------------------
(***************************************************************************)
(* Deleting one workspace (apps/api/src/account): its owner schedules the  *)
(* deletion and may cancel it; the retention job claims it once it is due, *)
(* deletes the Stripe customer and then the row, while checkouts give the  *)
(* workspace customers and subscriptions and accounts register.  One       *)
(* action per awaited call or transaction.                                 *)
(*                                                                         *)
(* createCustomer carries the customer it replaces as its idempotency key, *)
(* so customers are numbered: customer c + 1 is the one that replaces c,   *)
(* 0 is no customer.  Bound: a customer subscribes once; the subscription  *)
(* dies with it.  Instants are numbers from 1 up, 0 is a null column.      *)
(***************************************************************************)
EXTENDS Naturals

CONSTANTS Runs,           \* runs of eraseDue
          Requests,       \* calls that schedule the deletion
          Calls,          \* calls of checkout
          Grace,          \* ACCOUNT_DELETION_GRACE_DAYS
          MaxTime,        \* bound on the clock
          MaxCustomers    \* bound on the customers Stripe makes

ASSUME ErasureAssumption == Grace \in Nat \ {0} /\ MaxTime \in Nat \ {0} /\ MaxCustomers \in Nat

VARIABLES
  now,
  present, due, claimed, customer, trial,  \* the Workspace row
  operator, others,          \* is it the operator's, and do other workspaces hold accounts
  known, sub,                \* Stripe: its customers and their subscriptions
  run, ask, call,            \* the steps of runs, requests and checkouts
  payable,                   \* customers with a checkout session that was answered
  unsure                     \* a deletion at Stripe has ended without its answer

rowVars == <<present, due, claimed, customer, trial>>
accountVars == <<operator, others>>
stripeVars == <<known, sub, payable>>
vars == <<now, rowVars, accountVars, stripeVars, run, ask, call, unsure>>

Customers == 1..MaxCustomers
Alive(c) == c # 0 /\ known[c] = "alive"
Paid(c) == sub[c] \in {"trialing", "ending", "active"}

Resting == [step |-> "idle", at |-> 0, customer |-> 0]
Unasked == [step |-> "idle", at |-> 0, trial |-> 0]
NoCall == [step |-> "idle", customer |-> 0]

Init ==
  /\ now = 1
  /\ present = TRUE /\ due = 0 /\ claimed = FALSE /\ customer = 0 /\ trial = 0
  /\ operator \in BOOLEAN /\ others = FALSE
  /\ known = [c \in Customers |-> "unmade"] /\ sub = [c \in Customers |-> "none"]
  /\ payable = {}
  /\ run = [r \in Runs |-> Resting] /\ ask = [q \in Requests |-> Unasked]
  /\ call = [k \in Calls |-> NoCall]
  /\ unsure = FALSE

Tick == /\ now < MaxTime /\ now' = now + 1
        /\ UNCHANGED <<rowVars, accountVars, stripeVars, run, ask, call, unsure>>

\* leavesAccountsWithoutOperator
OperatorWouldBeLost == operator /\ others
-----------------------------------------------------------------------------
(* The owner *)

Asks(q, step, at, t) == ask' = [ask EXCEPT ![q] = [step |-> step, at |-> at, trial |-> t]]
AskEnds(q) == ask' = [ask EXCEPT ![q] = Unasked]

\* request is refused to the operator's workspace while other accounts exist.
RequestDeletion(q) ==
  /\ ask[q].step = "idle" /\ present /\ ~OperatorWouldBeLost
  /\ Asks(q, "read", now, 0)
  /\ UNCHANGED <<now, rowVars, accountVars, stripeVars, run, call, unsure>>

\* cancelRunningTrial reads what the row says of the subscription ...
ReadTrial(q) ==
  /\ ask[q].step = "read" /\ present
  /\ Asks(q, IF trial = 0 THEN "schedule" ELSE "cancelTrial", ask[q].at, trial)
  /\ UNCHANGED <<now, rowVars, accountVars, stripeVars, run, call, unsure>>

EndsAtPeriod(c) == sub' = IF Paid(c) THEN [sub EXCEPT ![c] = "ending"] ELSE sub

\* ... and lets a trial end at Stripe; a subscription Stripe does not know is passed over.
CancelTrial(q) ==
  /\ ask[q].step = "cancelTrial"
  /\ EndsAtPeriod(ask[q].trial)
  /\ Asks(q, "schedule", ask[q].at, ask[q].trial)
  /\ UNCHANGED <<now, rowVars, accountVars, known, payable, run, call, unsure>>

ScheduleDeletion(q) ==
  /\ ask[q].step = "schedule"
  /\ due' = IF present THEN ask[q].at + Grace ELSE due
  /\ AskEnds(q)
  /\ UNCHANGED <<now, present, claimed, customer, trial, accountVars, stripeVars, run, call, unsure>>

\* A call of the request throws or its process dies; Stripe may have done its part.
RequestFails(q) ==
  /\ ask[q].step # "idle" /\ AskEnds(q)
  /\ \/ UNCHANGED sub
     \/ ask[q].step = "cancelTrial" /\ EndsAtPeriod(ask[q].trial)
  /\ UNCHANGED <<now, rowVars, accountVars, known, payable, run, call, unsure>>

\* Mutant of CancelDeletion: the claim of an erasure under way is not looked at.
CancelAnyway ==
  /\ present /\ due' = 0
  /\ UNCHANGED <<now, present, claimed, customer, trial, accountVars, stripeVars, run, ask, call, unsure>>

\* cancel, which an erasure under way refuses.
CancelDeletion ==
  /\ present /\ ~claimed
  /\ due' = 0
  /\ UNCHANGED <<now, present, claimed, customer, trial, accountVars, stripeVars, run, ask, call, unsure>>
-----------------------------------------------------------------------------
(* The retention job *)

Running(r, step, at, c) == run' = [run EXCEPT ![r] = [step |-> step, at |-> at, customer |-> c]]
Goto(r, step) == Running(r, step, run[r].at, run[r].customer)
EndRun(r) == run' = [run EXCEPT ![r] = Resting]
Step(r, from, to) == run[r].step = from /\ Goto(r, to)
NothingDue == due' = 0 /\ claimed' = FALSE

\* eraseDue lists the workspaces that are due.
FindDue(r) ==
  /\ run[r].step = "idle" /\ present /\ due # 0 /\ due <= now
  /\ Running(r, "check", now, 0)
  /\ UNCHANGED <<now, rowVars, accountVars, stripeVars, ask, call, unsure>>

CheckOperator(r) ==
  /\ Step(r, "check", IF OperatorWouldBeLost THEN "withdraw" ELSE "claim")
  /\ UNCHANGED <<now, rowVars, accountVars, stripeVars, ask, call, unsure>>

Withdraw(r) ==
  /\ run[r].step = "withdraw" /\ EndRun(r)
  /\ IF present THEN NothingDue ELSE UNCHANGED <<due, claimed>>
  /\ UNCHANGED <<now, present, customer, trial, accountVars, stripeVars, ask, call, unsure>>

\* Mutant of StillDue: a claim left by a run that died keeps the next one out.
StillDueUnclaimed(r) == due # 0 /\ due <= run[r].at /\ ~claimed
StillDue(r) == due # 0 /\ due <= run[r].at

ClaimErasure(r) ==
  /\ run[r].step = "claim"
  /\ IF present /\ StillDue(r) THEN claimed' = TRUE /\ Goto(r, "look")
                               ELSE UNCHANGED claimed /\ EndRun(r)
  /\ UNCHANGED <<now, present, due, customer, trial, accountVars, stripeVars, ask, call, unsure>>

\* Mutant of ReadCustomer: a workspace without a customer is released too.
ReadAnyCustomer(r) ==
  /\ run[r].step = "look"
  /\ IF present THEN Running(r, "release", run[r].at, customer) ELSE EndRun(r)
  /\ UNCHANGED <<now, rowVars, accountVars, stripeVars, ask, call, unsure>>

\* The claimed row says which customer to release, if it is still there.
ReadCustomer(r) ==
  /\ run[r].step = "look"
  /\ IF present
       THEN Running(r, IF customer = 0 THEN "finish" ELSE "release", run[r].at, customer)
       ELSE EndRun(r)
  /\ UNCHANGED <<now, rowVars, accountVars, stripeVars, ask, call, unsure>>

DeleteCustomer(c) == /\ known' = [known EXCEPT ![c] = "deleted"]
                     /\ sub' = [sub EXCEPT ![c] = "over"]
                     /\ UNCHANGED payable

\* releaseBilling, with Stripe configured (without, it deletes nothing and goes
\* on): a customer Stripe does not know counts as deleted.
ReleaseBilling(r) ==
  /\ Step(r, "release", "finish")
  /\ DeleteCustomer(run[r].customer)
  /\ UNCHANGED <<now, rowVars, accountVars, ask, call, unsure>>

\* Stripe is not reached, or has deleted the customer and its answer is lost.
ReleaseFails(r) ==
  /\ Step(r, "release", "unclaim")
  /\ DeleteCustomer(run[r].customer) \/ UNCHANGED stripeVars
  /\ unsure' = TRUE
  /\ UNCHANGED <<now, rowVars, accountVars, ask, call>>

LetGo(r) ==
  /\ run[r].step = "unclaim" /\ EndRun(r)
  /\ claimed' = IF present THEN FALSE ELSE claimed
  /\ UNCHANGED <<now, present, due, customer, trial, accountVars, stripeVars, ask, call, unsure>>

Erase == present' = FALSE /\ due' = 0 /\ claimed' = FALSE /\ customer' = 0 /\ trial' = 0

\* Mutant of FinishErasure: the customer of the row is not compared with the released one.
FinishUncompared(r) ==
  /\ run[r].step = "finish" /\ EndRun(r)
  /\ IF ~present \/ ~claimed THEN UNCHANGED rowVars
     ELSE IF OperatorWouldBeLost THEN NothingDue /\ UNCHANGED <<present, customer, trial>>
     ELSE Erase
  /\ UNCHANGED <<now, accountVars, stripeVars, ask, call, unsure>>

\* Mutant of FinishErasure: the accounts are not counted again.
FinishUncounted(r) ==
  /\ run[r].step = "finish" /\ EndRun(r)
  /\ IF ~present \/ ~claimed \/ customer # run[r].customer THEN UNCHANGED rowVars ELSE Erase
  /\ UNCHANGED <<now, accountVars, stripeVars, ask, call, unsure>>

\* finish, a transaction that locks the row and, for the operator, registration.
FinishErasure(r) ==
  /\ run[r].step = "finish" /\ EndRun(r)
  /\ IF ~present \/ ~claimed \/ customer # run[r].customer THEN UNCHANGED rowVars
     ELSE IF OperatorWouldBeLost THEN NothingDue /\ UNCHANGED <<present, customer, trial>>
     ELSE Erase
  /\ UNCHANGED <<now, accountVars, stripeVars, ask, call, unsure>>

\* The process dies or the database fails; a claim stays where it is, and the
\* call to Stripe may have been made.
CrashRun(r) ==
  /\ run[r].step # "idle" /\ EndRun(r)
  /\ \/ UNCHANGED stripeVars
     \/ run[r].step = "release" /\ DeleteCustomer(run[r].customer)
  /\ UNCHANGED <<now, rowVars, accountVars, ask, call, unsure>>
-----------------------------------------------------------------------------
(* Checkout: a customer for the workspace, then a session *)

Calling(k, step, c) == call' = [call EXCEPT ![k] = [step |-> step, customer |-> c]]
Hangs(k, step) == call[k].step = step

\* customerFor reads the customer of the row ...
ReadStored(k) ==
  /\ Hangs(k, "idle") /\ present
  /\ Calling(k, "exists", customer)
  /\ UNCHANGED <<now, rowVars, accountVars, stripeVars, run, ask, unsure>>

\* ... asks Stripe for it, and has it replaced if it is not there.
CustomerExists(k) ==
  /\ Hangs(k, "exists")
  /\ Calling(k, IF Alive(call[k].customer) THEN "claim" ELSE "create", call[k].customer)
  /\ UNCHANGED <<now, rowVars, accountVars, stripeVars, run, ask, unsure>>

CreateCustomer(k) ==
  /\ Hangs(k, "create") /\ call[k].customer < MaxCustomers
  /\ known' = [known EXCEPT ![call[k].customer + 1] = IF @ = "unmade" THEN "alive" ELSE @]
  /\ Calling(k, "store", call[k].customer)
  /\ UNCHANGED <<now, rowVars, accountVars, sub, payable, run, ask, unsure>>

\* The row takes it unless another call was faster; then the stored one is used.
StoreCustomer(k) ==
  /\ Hangs(k, "store")
  /\ IF present /\ customer = call[k].customer
       THEN customer' = customer + 1 /\ Calling(k, "claim", customer + 1)
       ELSE /\ UNCHANGED customer
            /\ Calling(k, "claim", IF present /\ customer # 0 THEN customer
                                                              ELSE call[k].customer + 1)
  /\ UNCHANGED <<now, present, due, claimed, trial, accountVars, stripeVars, run, ask, unsure>>

\* claimCheckout needs the row; the lease itself is the matter of module Checkout.
ClaimCheckout(k) ==
  /\ Hangs(k, "claim")
  /\ IF present THEN Calling(k, "open", call[k].customer) ELSE Calling(k, "idle", 0)
  /\ UNCHANGED <<now, rowVars, accountVars, stripeVars, run, ask, unsure>>

\* The session needs a customer that is there and has not subscribed.
OpenSession(k) ==
  /\ Hangs(k, "open")
  /\ IF Alive(call[k].customer) /\ sub[call[k].customer] = "none"
       THEN Calling(k, "record", call[k].customer) ELSE Calling(k, "idle", 0)
  /\ UNCHANGED <<now, rowVars, accountVars, stripeVars, run, ask, unsure>>

\* recordCheckout: a session the row did not take is answered to nobody.
RecordSession(k) ==
  /\ Hangs(k, "record") /\ Calling(k, "idle", 0)
  /\ payable' = IF present THEN payable \cup {call[k].customer} ELSE payable
  /\ UNCHANGED <<now, rowVars, accountVars, known, sub, run, ask, unsure>>

CallEnds(k) ==
  /\ ~Hangs(k, "idle") /\ Calling(k, "idle", 0)
  /\ UNCHANGED <<now, rowVars, accountVars, stripeVars, run, ask, unsure>>
-----------------------------------------------------------------------------
(* Stripe, the webhook, and the accounts of the instance *)

\* The session is completed, with a trial or without.
Pay(c) ==
  /\ c \in payable /\ Alive(c) /\ sub[c] = "none"
  /\ \E s \in {"trialing", "active"} : sub' = [sub EXCEPT ![c] = s]
  /\ payable' = payable \ {c}
  /\ UNCHANGED <<now, rowVars, accountVars, known, run, ask, call, unsure>>

\* A trial is charged at its end, a subscription that was to end ends.
PeriodEnds(c) ==
  /\ sub[c] \in {"trialing", "ending"}
  /\ sub' = [sub EXCEPT ![c] = IF @ = "ending" THEN "over" ELSE "active"]
  /\ UNCHANGED <<now, rowVars, accountVars, known, payable, run, ask, call, unsure>>

\* The webhook, or the reconciliation, tells the row.
RowLearns ==
  /\ present /\ customer # 0
  /\ trial' = IF sub[customer] = "trialing" THEN customer ELSE 0
  /\ UNCHANGED <<now, present, due, claimed, customer, accountVars, stripeVars, run, ask, call, unsure>>

\* An account registers outside the operator's workspace, or the last one leaves.
\* With no account left the instance begins anew, which is another behaviour.
AccountsChange ==
  /\ operator /\ present
  /\ others' = ~others
  /\ UNCHANGED <<now, rowVars, operator, stripeVars, run, ask, call, unsure>>

RequestStep(q) == RequestDeletion(q) \/ ReadTrial(q) \/ CancelTrial(q) \/ ScheduleDeletion(q)
                  \/ RequestFails(q)
RunFails(r) == ReleaseFails(r) \/ CrashRun(r)
RunGoesOn(r) == FindDue(r) \/ CheckOperator(r) \/ Withdraw(r) \/ ClaimErasure(r)
                \/ ReadCustomer(r) \/ ReleaseBilling(r) \/ LetGo(r) \/ FinishErasure(r)
CallStep(k) == ReadStored(k) \/ CustomerExists(k) \/ CreateCustomer(k) \/ StoreCustomer(k)
               \/ ClaimCheckout(k) \/ OpenSession(k) \/ RecordSession(k) \/ CallEnds(k)

Next == \/ Tick \/ CancelDeletion \/ RowLearns \/ AccountsChange
        \/ \E q \in Requests : RequestStep(q)
        \/ \E r \in Runs : RunGoesOn(r) \/ RunFails(r)
        \/ \E k \in Calls : CallStep(k)
        \/ \E c \in Customers : Pay(c) \/ PeriodEnds(c)

Spec == Init /\ [][Next]_vars

\* The retention job comes every night, and from some night on nothing fails under it.
Fairness == /\ \A r \in Runs : WF_vars(RunGoesOn(r))
            /\ <>[][\A r \in Runs : RunGoesOn(r) \/ UNCHANGED run[r]]_vars

FairSpec == Spec /\ Fairness
-----------------------------------------------------------------------------
(* Types *)

AnyCustomer == {0} \cup Customers
RunSteps == {"idle", "check", "withdraw", "claim", "look", "release", "unclaim", "finish"}
AskSteps == {"idle", "read", "cancelTrial", "schedule"}
CallSteps == {"idle", "exists", "create", "store", "claim", "open", "record"}
RunType == [step : RunSteps, at : 0..MaxTime, customer : AnyCustomer]
AskType == [step : AskSteps, at : 0..MaxTime, trial : AnyCustomer]
CallType == [step : CallSteps, customer : AnyCustomer]

FlagsOK == /\ present \in BOOLEAN /\ claimed \in BOOLEAN /\ operator \in BOOLEAN
           /\ others \in BOOLEAN /\ unsure \in BOOLEAN
RowOK == /\ now \in 1..MaxTime /\ due \in 0..(MaxTime + Grace)
         /\ customer \in AnyCustomer /\ trial \in AnyCustomer
StripeOK == /\ known \in [Customers -> {"unmade", "alive", "deleted"}]
            /\ sub \in [Customers -> {"none", "trialing", "ending", "active", "over"}]
            /\ payable \subseteq Customers
RunsOK == /\ run \in [Runs -> RunType]
          /\ \A r \in Runs : run[r].step = "release" => run[r].customer # 0
AsksOK == /\ ask \in [Requests -> AskType]
          /\ \A q \in Requests : ask[q].step = "cancelTrial" => ask[q].trial # 0
CallsOK == /\ call \in [Calls -> CallType]
           /\ \A k \in Calls : /\ call[k].step = "store" => call[k].customer < MaxCustomers
                               /\ call[k].step = "record" => call[k].customer # 0

\* Every variable holds a value of its type; a call that stores a customer
\* replaces one that has a successor, a run that releases one knows which.
TypeOK == FlagsOK /\ RowOK /\ StripeOK /\ RunsOK /\ AsksOK /\ CallsOK
-----------------------------------------------------------------------------
(* Safety and liveness *)

\* Nobody is billed for a workspace that is gone: whatever a checkout, a crash, a
\* lost answer or a second run did on the way, no subscription outlives the row.
NoOrphanBilling == ~present => \A c \in Customers : ~Paid(c)

\* The operator's workspace is not erased from under other accounts, also when one
\* registers while the erasure is under way.
OperatorSurvives == operator /\ ~present => ~others

\* An erasure under way is one that is scheduled: nothing that was cancelled, and
\* not requested again, is ever erased.
ClaimedIsScheduled == claimed => present /\ due # 0

Scheduled == present /\ due # 0

\* As long as Stripe answered every deletion: a cancellation that is accepted finds
\* the customer of the workspace as it was.  (The operator's workspace may have
\* lost it to an erasure that was withdrawn, which the log says.)
CancelRemovesNothing ==
  [][Scheduled /\ present' /\ due' = 0 /\ ~operator /\ ~unsure =>
       customer = 0 \/ Alive(customer)]_vars

\* A deletion that is due is carried out, unless it is withdrawn, cancelled or put off.
DueIsErased == Scheduled /\ due <= now ~> ~Scheduled \/ due > now
=============================================================================
