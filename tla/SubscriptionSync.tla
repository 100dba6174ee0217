-------------------------- MODULE SubscriptionSync --------------------------
(***************************************************************************)
(* How a workspace row follows its Stripe subscription                     *)
(* (apps/api/src/billing): webhook events are stored once, queued, and     *)
(* applied by a worker that takes one job at a time; reconciliations, one  *)
(* in the nightly job and others in HTTP requests, repair the row from     *)
(* what Stripe answers.  One action per awaited call.                      *)
(*                                                                         *)
(* Stripe is modelled by what the code relies on: a customer holds at most *)
(* one live subscription, every change of one is an event with the second  *)
(* it happened in, and events are delivered late, twice, out of order or   *)
(* never.  A subscription is "active" (it entitles), "unpaid" (held, and   *)
(* entitles nothing), "gone", or "missing" from the Stripe account.        *)
(***************************************************************************)
EXTENDS Naturals, Sequences

CONSTANTS Subs,         \* subscription ids
          None,         \* a null column
          Calls,        \* reconciliations that HTTP requests start
          Nightly,      \* the reconciliation of the nightly job
          MaxEvents,    \* bound on the events Stripe sends
          MaxOutages,   \* bound on the reconciliations Stripe does not answer
          MaxReplays,   \* bound on the replays of an operator
          Attempts,     \* tries of a job (JOB_OPTIONS.attempts)
          MayForget,    \* whether Stripe may lose subscriptions
          LateEvents    \* whether a subscription that is gone still sends events

ASSUME SyncAssumption ==
  /\ None \notin Subs \cup {Nightly} \cup 1..MaxEvents
  /\ Nightly \notin Calls \cup 1..MaxEvents
  /\ MaxEvents \in Nat /\ MaxOutages \in Nat /\ MaxReplays \in Nat
  /\ Attempts \in Nat \ {0} /\ MayForget \in BOOLEAN /\ LateEvents \in BOOLEAN

Runs == Calls \cup {Nightly}
Live == {"active", "unpaid"}
SubStates == Live \cup {"none", "gone", "missing"}
NoSub == [sub |-> None, state |-> "none"]

VARIABLES
  stripe,               \* the state of each subscription at Stripe
  clock,                \* the second it is
  events,               \* the events sent so far, a sequence of [sub, at]
  inbox,                \* "unsent", "pending" or "settled": the stored event
  job, tries,           \* the job of each event and the tries it had
  row,                  \* the projection: [sub, state]
  eventAt,              \* subscriptionEventAt
  worker,               \* what the worker is at: None, an event or Nightly
  got,                  \* what Stripe answered the job
  run,                  \* each reconciliation: [step, read, desired]
  outages, replays,     \* how often an outage and a replay happened
  outdated              \* history: Stripe has changed since it answered the nightly run

stripeVars == <<stripe, clock, events, outdated>>
queueVars == <<inbox, job, tries>>
rowVars == <<row, eventAt>>
workVars == <<worker, got>>
budget == <<outages, replays>>
vars == <<stripeVars, queueVars, rowVars, workVars, run, budget>>

EventIds == 1..MaxEvents
Sent == DOMAIN events
Idle == [step |-> "idle", read |-> NoSub, desired |-> NoSub]

Init ==
  /\ stripe = [s \in Subs |-> "none"] /\ clock = 1
  /\ events = <<>>
  /\ inbox = [e \in EventIds |-> "unsent"]
  /\ job = [e \in EventIds |-> "none"] /\ tries = [e \in EventIds |-> 0]
  /\ row = NoSub /\ eventAt = 0
  /\ worker = None /\ got = "none"
  /\ run = [r \in Runs |-> Idle]
  /\ outages = 0 /\ replays = 0 /\ outdated = FALSE
-----------------------------------------------------------------------------
(* Stripe *)

HeldAtStripe == {s \in Subs : stripe[s] \in Live}

Send(s) == /\ Len(events) < MaxEvents
           /\ events' = Append(events, [sub |-> s, at |-> clock'])

Stirs(s, state) == /\ stripe' = [stripe EXCEPT ![s] = state]
                   /\ outdated' = (run[Nightly].step = "settle")

\* A checkout completes; the clock has moved on since the last subscription ended.
Subscribe(s) ==
  /\ stripe[s] = "none" /\ HeldAtStripe = {}
  /\ Stirs(s, "active")
  /\ clock' = clock + 1 /\ Send(s)
  /\ UNCHANGED <<queueVars, rowVars, workVars, run, budget>>

Change(s) ==
  /\ stripe[s] \in Live
  /\ \E to \in (Live \cup {"gone"}) \ {stripe[s]} : Stirs(s, to)
  /\ clock' \in {clock, clock + 1} /\ Send(s)
  /\ UNCHANGED <<queueVars, rowVars, workVars, run, budget>>

\* An event that changes nothing, such as a paid invoice; an old invoice may
\* still be paid after its subscription is gone.
Remark(s) ==
  /\ stripe[s] \in (IF LateEvents THEN Live \cup {"gone"} ELSE Live)
  /\ clock' \in {clock, clock + 1} /\ Send(s)
  /\ UNCHANGED <<stripe, outdated, queueVars, rowVars, workVars, run, budget>>

Forget(s) ==
  /\ MayForget /\ stripe[s] \notin {"none", "missing"}
  /\ Stirs(s, "missing")
  /\ UNCHANGED <<clock, events, queueVars, rowVars, workVars, run, budget>>
-----------------------------------------------------------------------------
(* Receiving and queueing an event *)

\* A delivery stores the event once and queues it while it is pending; the queue
\* drops a job id it still knows, and the enqueueing itself may fail.
Deliver(e) ==
  /\ e \in Sent
  /\ inbox' = [inbox EXCEPT ![e] = IF @ = "unsent" THEN "pending" ELSE @]
  /\ \/ /\ inbox'[e] = "pending" /\ job[e] = "none"
        /\ job' = [job EXCEPT ![e] = "queued"]
     \/ UNCHANGED job
  /\ UNCHANGED <<tries, stripeVars, rowVars, workVars, run, budget>>

\* An operator replays an event under a fresh job id.
Replay(e) ==
  /\ replays < MaxReplays /\ replays' = replays + 1
  /\ job[e] \in {"failed", "done"}
  /\ inbox' = [inbox EXCEPT ![e] = "pending"]
  /\ job' = [job EXCEPT ![e] = "queued"] /\ tries' = [tries EXCEPT ![e] = 0]
  /\ UNCHANGED <<stripeVars, rowVars, workVars, run, outages>>
-----------------------------------------------------------------------------
(* The worker and an event *)

\* A job whose event is settled has nothing to do.
StartJob(e) ==
  /\ worker = None /\ job[e] = "queued"
  /\ \/ /\ inbox[e] = "settled" /\ job' = [job EXCEPT ![e] = "done"]
        /\ UNCHANGED worker
     \/ /\ inbox[e] # "settled" /\ worker' = e
        /\ job' = [job EXCEPT ![e] = "retrieve"]
  /\ UNCHANGED <<inbox, tries, got, stripeVars, rowVars, run, budget>>

\* dispatch asks Stripe for the subscription as it is now.
Retrieve(e) ==
  /\ job[e] = "retrieve" /\ stripe[events[e].sub] # "missing"
  /\ got' = stripe[events[e].sub]
  /\ job' = [job EXCEPT ![e] = "apply"]
  /\ UNCHANGED <<inbox, tries, worker, stripeVars, rowVars, run, budget>>

\* Mutant of IsOlder: an event of the same second counts as old.
IsNotNewer(e) == eventAt >= events[e].at
IsOlder(e) == eventAt > events[e].at

\* applySubscription: an event older than the last one applied is ignored.
\* Only this worker writes subscriptionEventAt, so reading the row and writing
\* it are one step.
Apply(e) ==
  /\ job[e] = "apply"
  /\ IF IsOlder(e) THEN UNCHANGED rowVars
     ELSE /\ row' = [sub |-> events[e].sub, state |-> got]
          /\ eventAt' = events[e].at
  /\ job' = [job EXCEPT ![e] = "settle"]
  /\ UNCHANGED <<inbox, tries, workVars, stripeVars, run, budget>>

Settle(e) ==
  /\ job[e] = "settle"
  /\ inbox' = [inbox EXCEPT ![e] = "settled"]
  /\ job' = [job EXCEPT ![e] = "done"]
  /\ worker' = None /\ got' = "none"
  /\ UNCHANGED <<tries, stripeVars, rowVars, run, budget>>

\* Mutant of TriesLeft: one try too many.
TriesLeftAfterLast(e) == tries[e] < Attempts
TriesLeft(e) == tries[e] + 1 < Attempts

\* A call of the job fails, or its process dies: it is tried again, unless it
\* was the last try or its price is unknown to the catalog.
JobFails(e) ==
  /\ job[e] \in {"retrieve", "apply", "settle"}
  /\ tries' = [tries EXCEPT ![e] = @ + 1]
  /\ \/ TriesLeft(e) /\ job' = [job EXCEPT ![e] = "queued"]
     \/ job' = [job EXCEPT ![e] = "failed"]
  /\ worker' = None /\ got' = "none"
  /\ UNCHANGED <<inbox, stripeVars, rowVars, run, budget>>

\* What a fair worker does with a job it has: it does not fail for ever.
WorkOn(e) == StartJob(e) \/ Retrieve(e) \/ Apply(e) \/ Settle(e) \/ JobFails(e)
-----------------------------------------------------------------------------
(* Reconciling *)

Advance(r, step, read, desired) ==
  run' = [run EXCEPT ![r] = [step |-> step, read |-> read, desired |-> desired]]

\* The nightly run holds the worker, and finds nothing to do on a blank row.
ReadRow(r) ==
  /\ run[r].step = "idle"
  /\ IF r = Nightly THEN worker = None /\ worker' = Nightly ELSE UNCHANGED worker
  /\ Advance(r, "look", row, NoSub)
  /\ UNCHANGED <<got, stripeVars, queueVars, rowVars, budget>>

StripeHolds(s) == [sub |-> s, state |-> stripe[s]]

\* completedSubscription or storedSubscription: an HTTP request may name the
\* checkout it returns from.
Look(r) ==
  /\ run[r].step = "look"
  /\ \E s \in {run[r].read.sub} \cup (IF r = Nightly THEN {} ELSE Subs) :
       IF s = None \/ stripe[s] \in {"none", "missing"}
       THEN /\ s = run[r].read.sub
            /\ Advance(r, "list", run[r].read, NoSub)
       ELSE Advance(r, IF stripe[s] \in Live THEN "settle" ELSE "list",
                    run[r].read, StripeHolds(s))
  /\ UNCHANGED <<stripeVars, queueVars, rowVars, workVars, budget>>

\* Mutant of Adoptable: the customer is not asked what it holds.
NothingToAdopt == {}
Adoptable == HeldAtStripe

ListHeld(r) ==
  /\ run[r].step = "list"
  /\ \/ \E s \in Adoptable : Advance(r, "settle", run[r].read, StripeHolds(s))
     \/ Adoptable = {} /\ Advance(r, "settle", run[r].read, run[r].desired)
  /\ UNCHANGED <<stripeVars, queueVars, rowVars, workVars, budget>>

Plan(state) == IF state = "active" THEN "paid" ELSE "free"

\* Mutant of StillAsRead: the row is revoked whatever it has become.
AnyRow(r) == TRUE
StillAsRead(r) == /\ row.sub = run[r].read.sub
                  /\ Plan(row.state) = Plan(run[r].read.state)

End(r) == /\ run' = [run EXCEPT ![r] = IF r = Nightly THEN Idle
                                      ELSE [Idle EXCEPT !.step = "done"]]
          /\ worker' = IF r = Nightly THEN None ELSE worker
          /\ outdated' = IF r = Nightly THEN FALSE ELSE outdated

\* revokeUnknownSubscription, when Stripe knows nothing the row could name.
Revoke(r) ==
  /\ run[r].step = "settle" /\ run[r].desired = NoSub
  /\ row' = IF run[r].read.sub # None /\ StillAsRead(r) THEN NoSub ELSE row
  /\ End(r)
  /\ UNCHANGED <<got, eventAt, stripe, clock, events, queueVars, budget>>

\* Mutant of Matches: a change of its state alone is not noticed.
SameSubscription(r) == run[r].read.sub = run[r].desired.sub
Matches(r) == run[r].read = run[r].desired

\* align: the row is compared as it was read, and written as it now is.  What
\* correct does after it, settle the trial (TrialStarts) and, if that ended the
\* trial, write Stripe's answer to it over a fresh read of the row, is left out.
Project(r) ==
  /\ run[r].step = "settle" /\ run[r].desired # NoSub
  /\ row' = IF Matches(r) THEN row ELSE run[r].desired
  /\ End(r)
  /\ UNCHANGED <<got, eventAt, stripe, clock, events, queueVars, budget>>

\* Stripe or the database does not answer: the workspace is left as it is.
Unreachable(r) ==
  /\ outages < MaxOutages /\ outages' = outages + 1
  /\ run[r].step \in {"look", "list", "settle"}
  /\ End(r)
  /\ UNCHANGED <<got, stripe, clock, events, queueVars, rowVars, replays>>

Reconcile(r) == ReadRow(r) \/ Look(r) \/ ListHeld(r) \/ Revoke(r) \/ Project(r)

Next ==
  \/ \E s \in Subs : Subscribe(s) \/ Change(s) \/ Remark(s) \/ Forget(s)
  \/ \E e \in EventIds : Deliver(e) \/ Replay(e) \/ WorkOn(e)
  \/ \E r \in Runs : Reconcile(r) \/ Unreachable(r)

Spec == Init /\ [][Next]_vars

\* The worker takes its jobs and the nightly job comes every night; nothing is
\* asked of Stripe, of deliveries or of requests.
FairSpec == /\ Spec
            /\ \A e \in EventIds : WF_vars(WorkOn(e))
            /\ \A r \in Runs : WF_vars(run[r].step # "idle" /\ Reconcile(r))
            /\ WF_vars(ReadRow(Nightly))
-----------------------------------------------------------------------------
(* Types *)

Column == Subs \cup {None}
Projection == [sub : Column, state : SubStates]
RunStates == [step : {"idle", "look", "list", "settle", "done"},
              read : Projection, desired : Projection]
EventType == [sub : Subs, at : Nat]
JobStates == {"none", "queued", "retrieve", "apply", "settle", "failed", "done"}
AtWork == {"retrieve", "apply", "settle"}

StripeOK == /\ stripe \in [Subs -> SubStates] /\ clock \in Nat
            /\ events \in Seq(EventType) /\ Len(events) <= MaxEvents
QueueOK == /\ inbox \in [EventIds -> {"unsent", "pending", "settled"}]
           /\ job \in [EventIds -> JobStates] /\ tries \in [EventIds -> 0..Attempts]
RowOK == row \in Projection /\ eventAt \in Nat
RunsOK == /\ run \in [Runs -> RunStates]
          /\ outages \in 0..MaxOutages /\ replays \in 0..MaxReplays
          /\ outdated \in BOOLEAN
WorkerOK == /\ worker \in {None, Nightly} \cup EventIds /\ got \in SubStates
            /\ \A e \in EventIds : job[e] \in AtWork <=> worker = e
            /\ run[Nightly].step = "idle" <=> worker # Nightly

\* Every variable holds a value of its type, no job has more tries than the queue
\* allows, and at most one job or nightly run is at work, the one of the worker.
TypeOK == StripeOK /\ QueueOK /\ RowOK /\ RunsOK /\ WorkerOK
-----------------------------------------------------------------------------
(* Safety and liveness *)

\* The row says what Stripe holds, or that it holds nothing.
Agrees == IF HeldAtStripe = {} THEN row.state \notin Live
          ELSE \A s \in HeldAtStripe : row = StripeHolds(s)

Reconciling == \E r \in Runs : run[r].step \notin {"idle", "done"}

\* Events may arrive in any order, twice or after a failed try: once each of them
\* is settled, and nothing is reconciling, the row agrees with Stripe.
EventsAgree ==
  (\A e \in Sent : inbox[e] = "settled") /\ ~Reconciling => Agrees

\* A revoke never takes the plan of a workspace whose row names a subscription
\* that Stripe holds, whatever became of the row while the run asked Stripe.
RevokesOnlyUnbacked ==
  [][row.sub # None /\ row'.sub = None => stripe[row.sub] \notin Live]_vars

\* Whatever was lost, late or undone before: a nightly run that Stripe answers, and that
\* ends before Stripe changes again, leaves a row that agrees with it, unless the row was
\* written while it asked.
NightlyRepairs ==
  [][/\ Project(Nightly) \/ Revoke(Nightly)
     /\ row = run[Nightly].read /\ ~outdated
     => Agrees']_vars

\* A checkout that completes while a reconciliation is in progress, so that the row
\* names a subscription the run did not read, is never undone by it.
UndoesNoCheckout ==
  [][\A r \in Runs :
       /\ Project(r) \/ Revoke(r)
       /\ row.state = "active" /\ Agrees /\ row.sub # run[r].read.sub
       => Agrees']_vars

\* Whatever is lost, late or undone on the way: once Stripe has stopped changing,
\* the nightly reconciliation makes the row agree with it for good.
EventuallyAgrees == <>[]Agrees
=============================================================================
