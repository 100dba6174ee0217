----------------------- MODULE SubscriptionSyncProofs -----------------------
(***************************************************************************)
(* What SubscriptionSync promises for any number of subscriptions, events, *)
(* tries, replays and reconciliations.  TypeInv adds to the types that     *)
(* only what was sent is queued.  RevokeInv says that a run which would    *)
(* take a plan looked for what it had read, and that Stripe has lost it.   *)
(* RepairInv says what the nightly run knows of Stripe when it writes.     *)
(* AgreeInv says that the last event, once applied, has made the row what  *)
(* Stripe holds, and what a job or the nightly run must know to keep it.   *)
(***************************************************************************)
EXTENDS SubscriptionSync, SequenceTheorems, TLAPS

\* Only what Stripe has sent is stored or queued, and a job that may still run has a
\* try left.
JobsAreSent ==
  \A e \in EventIds : job[e] # "none" \/ inbox[e] # "unsent" => e \in Sent
TriesAreLeft == \A e \in EventIds :
  /\ job[e] = "none" => tries[e] = 0
  /\ job[e] \notin {"failed", "done"} => tries[e] < Attempts

TypeInv == TypeOK /\ JobsAreSent /\ TriesAreLeft
-----------------------------------------------------------------------------
(* What the steps of Stripe do *)

LEMMA EventsApart ==
  /\ None \notin EventIds /\ Nightly \notin EventIds /\ None # Nightly /\ None \notin Subs
  /\ Nightly \in Runs /\ Nightly \notin Calls
BY SyncAssumption DEF EventIds, Runs

LEMMA SentEvents ==
  ASSUME StripeOK
  PROVE  /\ Len(events) \in Nat /\ Sent = 1..Len(events) /\ Sent \subseteq EventIds
         /\ \A e \in Sent : events[e] \in EventType
<1>1. events \in Seq(EventType) /\ Len(events) <= MaxEvents BY DEF StripeOK
<1>2. Len(events) \in Nat /\ Sent = 1..Len(events) BY <1>1, LenProperties DEF Sent
<1> QED BY <1>1, <1>2, SyncAssumption, ElementOfSeq DEF EventIds

\* An event that is sent is the last one, and the others stay.
LEMMA SentIsLast ==
  ASSUME StripeOK, NEW s \in Subs, clock' \in Nat, Send(s)
  PROVE  /\ events' \in Seq(EventType) /\ Len(events') = Len(events) + 1
         /\ Len(events') <= MaxEvents /\ Sent' = 1..(Len(events) + 1)
         /\ events'[Len(events) + 1] = [sub |-> s, at |-> clock']
         /\ \A e \in Sent : events'[e] = events[e]
<1> DEFINE new == [sub |-> s, at |-> clock']
<1>1. new \in EventType BY DEF EventType
<1>2. events' = Append(events, new) /\ Len(events) < MaxEvents
  BY DEF Send
<1>3. events \in Seq(EventType) BY DEF StripeOK
<1> HIDE DEF new
<1>4. /\ events' \in Seq(EventType) /\ Len(events') = Len(events) + 1
      /\ events'[Len(events) + 1] = new
      /\ \A e \in 1..Len(events) : events'[e] = events[e]
  BY <1>1, <1>2, <1>3, AppendProperties
<1>5. Sent' = 1..Len(events') BY <1>4, LenProperties DEF Sent
<1> QED BY <1>2, <1>4, <1>5, SentEvents, SyncAssumption DEF new

\* Whatever Stripe does: it may send one event, and it alone moves.
StripeStep(s) == Subscribe(s) \/ Change(s) \/ Remark(s) \/ Forget(s)

LEMMA StripeMoves ==
  ASSUME StripeOK, NEW s \in Subs, StripeStep(s)
  PROVE  /\ StripeOK' /\ Sent \subseteq Sent'
         /\ \A e \in Sent : events'[e] = events[e]
         /\ UNCHANGED <<queueVars, rowVars, workVars, run, budget>>
         /\ outdated \in BOOLEAN => outdated' \in BOOLEAN
<1>1. clock' \in Nat /\ (Send(s) \/ UNCHANGED events)
  BY DEF StripeOK, StripeStep, Subscribe, Change, Remark, Forget, Stirs
<1>2. stripe' \in [Subs -> SubStates]
  BY DEF StripeOK, StripeStep, Subscribe, Change, Remark, Forget, Stirs, SubStates, Live
<1>3. /\ UNCHANGED <<queueVars, rowVars, workVars, run, budget>>
      /\ outdated \in BOOLEAN => outdated' \in BOOLEAN
  BY DEF StripeStep, Subscribe, Change, Remark, Forget, Stirs
<1>4. CASE Send(s)
  <2>1. /\ events' \in Seq(EventType) /\ Len(events') <= MaxEvents
        /\ Sent' = 1..(Len(events) + 1) /\ \A e \in Sent : events'[e] = events[e]
    BY <1>1, <1>4, SentIsLast
  <2>2. Sent \subseteq Sent' BY <2>1, SentEvents
  <2> QED BY <1>1, <1>2, <1>3, <2>1, <2>2 DEF StripeOK
<1>5. CASE UNCHANGED events
  BY <1>1, <1>2, <1>3, <1>5 DEF StripeOK, Sent
<1> QED BY <1>1, <1>4, <1>5
-----------------------------------------------------------------------------
(* Types *)

JobStep(e) == Deliver(e) \/ Replay(e) \/ WorkOn(e)
RunStep(r) == Reconcile(r) \/ Unreachable(r)

\* A job that is at work was queued and has a try left.
LEMMA QueueTypes ==
  ASSUME TypeInv, NEW e \in EventIds, JobStep(e)
  PROVE  QueueOK' /\ TriesAreLeft' /\ UNCHANGED stripeVars
<1> USE SyncAssumption DEF QueueOK, TriesAreLeft, JobStates
<1>0. QueueOK /\ TriesAreLeft BY DEF TypeInv, TypeOK
<1>1. CASE Deliver(e) BY <1>0, <1>1 DEF Deliver
<1>2. CASE Replay(e) BY <1>0, <1>2 DEF Replay
<1>3. CASE StartJob(e) BY <1>0, <1>3 DEF StartJob
<1>4. CASE Retrieve(e) BY <1>0, <1>4 DEF Retrieve
<1>5. CASE Apply(e) BY <1>0, <1>5 DEF Apply
<1>6. CASE Settle(e) BY <1>0, <1>6 DEF Settle
<1>7. CASE JobFails(e) BY <1>0, <1>7 DEF JobFails, TriesLeft
<1> QED BY <1>1, <1>2, <1>3, <1>4, <1>5, <1>6, <1>7 DEF JobStep, WorkOn

\* A job is of an event that was sent; the others stay.
LEMMA JobsStaySent ==
  ASSUME TypeInv, NEW e \in EventIds, JobStep(e)
  PROVE  JobsAreSent'
<1> USE DEF JobsAreSent, QueueOK, Sent, stripeVars
<1>0. QueueOK /\ JobsAreSent BY DEF TypeInv, TypeOK
<1>1. CASE Deliver(e) BY <1>0, <1>1 DEF Deliver
<1>2. CASE Replay(e) BY <1>0, <1>2 DEF Replay
<1>3. CASE StartJob(e) BY <1>0, <1>3 DEF StartJob
<1>4. CASE Retrieve(e) BY <1>0, <1>4 DEF Retrieve
<1>5. CASE Apply(e) BY <1>0, <1>5 DEF Apply
<1>6. CASE Settle(e) BY <1>0, <1>6 DEF Settle
<1>7. CASE JobFails(e) BY <1>0, <1>7 DEF JobFails
<1> QED BY <1>1, <1>2, <1>3, <1>4, <1>5, <1>6, <1>7 DEF JobStep, WorkOn

\* A job begins only when nothing is at work, and nothing else is while it is.
LEMMA WorkerTypes ==
  ASSUME TypeInv, NEW e \in EventIds, JobStep(e)
  PROVE  WorkerOK'
<1> USE EventsApart DEF WorkerOK, QueueOK, AtWork
<1>0. QueueOK /\ WorkerOK /\ stripe \in [Subs -> SubStates] BY DEF TypeInv, TypeOK, StripeOK
<1>1. CASE Deliver(e) BY <1>0, <1>1 DEF Deliver, workVars
<1>2. CASE Replay(e) BY <1>0, <1>2 DEF Replay, workVars
<1>3. CASE StartJob(e) BY <1>0, <1>3 DEF StartJob
<1>4. CASE Retrieve(e)
  <2>1. e \in Sent BY <1>4 DEF Retrieve, TypeInv, JobsAreSent
  <2>2. events[e].sub \in Subs BY <2>1, SentEvents DEF TypeInv, TypeOK, EventType
  <2> QED BY <1>0, <1>4, <2>2 DEF Retrieve
<1>5. CASE Apply(e) BY <1>0, <1>5 DEF Apply, workVars
<1>6. CASE Settle(e) BY <1>0, <1>6 DEF Settle, SubStates
<1>7. CASE JobFails(e) BY <1>0, <1>7 DEF JobFails, SubStates
<1> QED BY <1>1, <1>2, <1>3, <1>4, <1>5, <1>6, <1>7 DEF JobStep, WorkOn

LEMMA RowTypes ==
  ASSUME TypeInv, NEW e \in EventIds, JobStep(e)
  PROVE  RowOK' /\ RunsOK'
<1>1. RunsOK'
  BY SyncAssumption
  DEF TypeInv, TypeOK, RunsOK, JobStep, WorkOn, Deliver, Replay, StartJob, Retrieve, Apply,
      Settle, JobFails, budget, stripeVars
<1>2. CASE Apply(e)
  <2>1. e \in Sent BY <1>2 DEF Apply, TypeInv, JobsAreSent
  <2>2. events[e] \in EventType BY <2>1, SentEvents DEF TypeInv, TypeOK
  <2> QED BY <1>1, <1>2, <2>2
    DEF Apply, rowVars, TypeInv, TypeOK, RowOK, WorkerOK, Projection, Column, EventType
<1>3. CASE UNCHANGED rowVars
  BY <1>1, <1>3 DEF rowVars, TypeInv, TypeOK, RowOK
<1> QED BY <1>2, <1>3 DEF JobStep, WorkOn, Deliver, Replay, StartJob, Retrieve, Settle, JobFails

LEMMA JobTypes ==
  ASSUME TypeInv, NEW e \in EventIds, JobStep(e)
  PROVE  TypeInv'
<1>1. StripeOK' BY QueueTypes DEF TypeInv, TypeOK, StripeOK, stripeVars
<1> QED BY <1>1, QueueTypes, JobsStaySent, WorkerTypes, RowTypes DEF TypeInv, TypeOK

\* What a reconciliation may leave and where.
LEMMA RunWritten ==
  ASSUME TypeInv, NEW r \in Runs, NEW step \in {"look", "list", "settle"},
         NEW read \in Projection, NEW desired \in Projection, Advance(r, step, read, desired)
  PROVE  /\ run' \in [Runs -> RunStates]
         /\ run'[r] = [step |-> step, read |-> read, desired |-> desired]
         /\ \A o \in Runs \ {r} : run'[o] = run[o]
<1>1. [step |-> step, read |-> read, desired |-> desired] \in RunStates BY DEF RunStates
<1> QED BY <1>1 DEF Advance, TypeInv, TypeOK, RunsOK

LEMMA RunEnded ==
  ASSUME TypeInv, NEW r \in Runs, End(r)
  PROVE  /\ run' \in [Runs -> RunStates]
         /\ run'[r].step = (IF r = Nightly THEN "idle" ELSE "done")
         /\ \A o \in Runs \ {r} : run'[o] = run[o]
<1>1. Idle \in RunStates /\ [Idle EXCEPT !.step = "done"] \in RunStates
  BY DEF RunStates, Idle, NoSub, Projection, Column, SubStates
<1> QED BY <1>1 DEF End, TypeInv, TypeOK, RunsOK, Idle

\* Where each step of a reconciliation leads.
LEMMA RunMoves ==
  ASSUME TypeInv, NEW r \in Runs, RunStep(r)
  PROVE  \/ /\ ReadRow(r)
            /\ IF r = Nightly THEN worker = None /\ worker' = Nightly ELSE UNCHANGED worker
            /\ run[r].step = "idle" /\ Advance(r, "look", row, NoSub) /\ UNCHANGED rowVars
         \/ /\ Look(r) \/ ListHeld(r)
            /\ run[r].step \in {"look", "list"} /\ UNCHANGED <<worker, rowVars>>
            /\ \E step \in {"list", "settle"}, desired \in Projection :
                 Advance(r, step, run[r].read, desired)
         \/ /\ Revoke(r) \/ Project(r) \/ Unreachable(r)
            /\ run[r].step \in {"look", "list", "settle"} /\ End(r)
            /\ UNCHANGED eventAt /\ row' \in {row, NoSub, run[r].desired}
<1> USE DEF workVars, rowVars
<1>1. /\ NoSub \in Projection /\ run[r].read \in Projection /\ run[r].desired \in Projection
  BY DEF TypeInv, TypeOK, RunsOK, RunStates, NoSub, Projection, Column, SubStates
<1>2. \A s \in Subs : StripeHolds(s) \in Projection
  BY DEF TypeInv, TypeOK, StripeOK, StripeHolds, Projection, Column
<1>3. CASE ReadRow(r) BY <1>3 DEF ReadRow
<1>4. CASE Look(r)
  <2>1. \A s \in {run[r].read.sub} \cup Subs : s = None \/ s \in Subs
    BY <1>1 DEF Projection, Column
  <2> QED BY <1>1, <1>2, <1>4, <2>1 DEF Look
<1>5. CASE ListHeld(r) BY <1>1, <1>2, <1>5 DEF ListHeld, Adoptable, HeldAtStripe
<1>6. CASE Revoke(r) BY <1>6 DEF Revoke
<1>7. CASE Project(r) BY <1>7 DEF Project
<1>8. CASE Unreachable(r) BY <1>8 DEF Unreachable
<1> QED BY <1>3, <1>4, <1>5, <1>6, <1>7, <1>8 DEF RunStep, Reconcile

LEMMA RunTypes ==
  ASSUME TypeInv, NEW r \in Runs, RunStep(r)
  PROVE  TypeInv'
<1>1. /\ UNCHANGED <<stripe, clock, events, queueVars, got>>
      /\ outdated' \in BOOLEAN /\ outages' \in 0..MaxOutages /\ replays' \in 0..MaxReplays
  <2>1. UNCHANGED <<stripe, clock, events, queueVars, got>>
    BY DEF RunStep, Reconcile, ReadRow, Look, ListHeld, Revoke, Project, Unreachable, workVars,
      stripeVars
  <2>2. /\ UNCHANGED replays
        /\ UNCHANGED outages \/ (outages < MaxOutages /\ outages' = outages + 1)
    BY DEF RunStep, Reconcile, ReadRow, Look, ListHeld, Revoke, Project, Unreachable, budget
  <2>3. UNCHANGED outdated \/ outdated' = FALSE
    BY Zenon DEF RunStep, Reconcile, ReadRow, Look, ListHeld, Revoke, Project, Unreachable, End,
      stripeVars
  <2>4. outdated' \in BOOLEAN BY <2>3, Zenon DEF TypeInv, TypeOK, RunsOK
  <2> QED BY <2>1, <2>2, <2>4, SyncAssumption DEF TypeInv, TypeOK, RunsOK
<1>2. StripeOK' /\ QueueOK' /\ JobsAreSent' /\ TriesAreLeft'
  BY <1>1 DEF TypeInv, TypeOK, StripeOK, QueueOK, JobsAreSent, TriesAreLeft, queueVars,
              Sent
<1>3. /\ row \in Projection /\ NoSub \in Projection /\ eventAt \in Nat
      /\ run[r].desired \in Projection /\ run[r].read \in Projection
  BY DEF TypeInv, TypeOK, RowOK, RunsOK, RunStates, NoSub, Projection, Column, SubStates
<1>4. RowOK' BY <1>3, RunMoves DEF RowOK, rowVars
<1>5. run' \in [Runs -> RunStates] /\ WorkerOK'
  <2>1. /\ got' \in SubStates /\ UNCHANGED job /\ WorkerOK
    BY <1>1 DEF TypeInv, TypeOK, WorkerOK, queueVars
  <2>2. ASSUME NEW step \in {"look", "list", "settle"}, NEW read \in Projection,
               NEW desired \in Projection, Advance(r, step, read, desired),
               UNCHANGED worker, r = Nightly => run[r].step # "idle"
        PROVE  run' \in [Runs -> RunStates] /\ WorkerOK'
    <3>1. /\ run' \in [Runs -> RunStates]
          /\ run'[r] = [step |-> step, read |-> read, desired |-> desired]
          /\ \A o \in Runs \ {r} : run'[o] = run[o]
      BY <2>2, RunWritten
    <3>2. run'[r].step # "idle" BY <3>1
    <3>3. run'[Nightly].step = "idle" <=> run[Nightly].step = "idle"
      BY <2>2, <3>1, <3>2, EventsApart
    <3> QED BY <2>1, <2>2, <3>1, <3>3 DEF WorkerOK
  <2>3. CASE ReadRow(r)
    <3>1. CASE r = Nightly
      <4>1. worker = None /\ worker' = Nightly /\ Advance(r, "look", row, NoSub)
        BY <2>3, <3>1 DEF ReadRow
      <4>2. run' \in [Runs -> RunStates] /\ run'[Nightly].step = "look"
        <5>1. "look" \in {"look", "list", "settle"} OBVIOUS
        <5>2. /\ run' \in [Runs -> RunStates]
              /\ run'[r] = [step |-> "look", read |-> row, desired |-> NoSub]
          BY <1>3, <4>1, <5>1, RunWritten
        <5> QED BY <3>1, <5>2
      <4>3. Nightly \notin EventIds /\ None \notin EventIds /\ None # Nightly BY EventsApart
      <4> QED BY <2>1, <4>1, <4>2, <4>3 DEF WorkerOK
    <3> QED BY <1>3, <2>2, <2>3, <3>1 DEF ReadRow
  <2>4. CASE Revoke(r) \/ Project(r) \/ Unreachable(r)
    <3>1. End(r) /\ run[r].step # "idle" BY <2>4 DEF Revoke, Project, Unreachable
    <3>2. /\ worker' = IF r = Nightly THEN None ELSE worker
          /\ r # Nightly => run'[Nightly] = run[Nightly]
      BY <3>1, RunEnded, EventsApart DEF End
    <3> QED BY <2>1, <3>1, <3>2, RunEnded, EventsApart DEF WorkerOK
  <2> QED BY <1>3, <2>2, <2>3, <2>4, RunMoves
<1> QED BY <1>1, <1>2, <1>4, <1>5 DEF TypeInv, TypeOK, RunsOK

LEMMA TypeInvStep == TypeInv /\ [Next]_vars => TypeInv'
<1> SUFFICES ASSUME TypeInv, [Next]_vars PROVE TypeInv' OBVIOUS
<1>1. ASSUME NEW s \in Subs, StripeStep(s) PROVE TypeInv'
  <2>1. StripeOK BY DEF TypeInv, TypeOK
  <2> QED BY <1>1, <2>1, StripeMoves
    DEF TypeInv, TypeOK, QueueOK, RowOK, RunsOK, WorkerOK, JobsAreSent, TriesAreLeft,
        queueVars, rowVars, workVars, budget
<1>2. CASE UNCHANGED vars
  BY <1>2 DEF TypeInv, TypeOK, StripeOK, QueueOK, RowOK, RunsOK, WorkerOK, JobsAreSent,
    TriesAreLeft, Sent, vars, stripeVars, queueVars, rowVars, workVars, budget
<1> QED BY <1>1, <1>2, JobTypes, RunTypes DEF Next, StripeStep, JobStep, RunStep

LEMMA TypeInvInit == Init => TypeInv
<1> SUFFICES ASSUME Init PROVE TypeInv OBVIOUS
<1>1. StripeOK /\ QueueOK
  BY SyncAssumption DEF Init, StripeOK, QueueOK, SubStates, JobStates
<1>2. RowOK /\ RunsOK
  <2>1. NoSub \in Projection BY DEF NoSub, Projection, Column, SubStates
  <2>2. Idle \in RunStates BY <2>1 DEF RunStates, Idle
  <2>3. outdated \in BOOLEAN BY Zenon DEF Init
  <2> QED BY <2>1, <2>2, <2>3, SyncAssumption DEF Init, RowOK, RunsOK
<1>3. WorkerOK
  BY EventsApart DEF Init, WorkerOK, AtWork, SubStates, Idle
<1> QED BY <1>1, <1>2, <1>3, SyncAssumption DEF Init, TypeInv, TypeOK, JobsAreSent, TriesAreLeft

LEMMA TypeInvHolds == Spec => []TypeInv
BY TypeInvInit, TypeInvStep, PTL DEF Spec

\* Every variable keeps its type, and one job or nightly run is at work at a time.
THEOREM SyncTypes == Spec => []TypeOK
<1>1. TypeInv => TypeOK BY DEF TypeInv
<1> QED BY <1>1, TypeInvHolds, PTL
-----------------------------------------------------------------------------
(* Revoking *)

\* The subscriptions Stripe has had; a column that names none names nothing unknown.
Had == {s \in Subs : stripe[s] # "none"} \cup {None}

NamedWereHad == /\ row.sub \in Had
                /\ \A e \in Sent : events[e].sub \in Had
                /\ \A r \in Runs : run[r].read.sub \in Had

\* What a run would write names a subscription, and a run that would write nothing
\* looked for what it had read and did not find it.
DesiredIsNamed == \A r \in Runs : run[r].desired = NoSub \/ run[r].desired.sub \in Had \ {None}
NothingIsMissing == \A r \in Runs :
  run[r].step \in {"list", "settle"} /\ run[r].desired = NoSub /\ run[r].read.sub # None =>
    stripe[run[r].read.sub] = "missing"

RevokeInv == TypeInv /\ NamedWereHad /\ DesiredIsNamed /\ NothingIsMissing

\* Stripe has a subscription for good, and loses it for good.
LEMMA HadForGood ==
  ASSUME TypeInv, NEW s \in Subs, StripeStep(s)
  PROVE  /\ Had \subseteq Had'
         /\ \A t \in Subs : stripe[t] = "missing" => stripe'[t] = "missing"
BY DEF TypeInv, TypeOK, StripeOK, Had, StripeStep, Subscribe, Change, Remark, Forget, Stirs, Live

LEMMA StripeRevokes ==
  ASSUME RevokeInv, NEW s \in Subs, StripeStep(s)
  PROVE  RevokeInv'
<1>1. TypeInv /\ TypeInv' /\ StripeOK
  <2>1. TypeInv /\ [Next]_vars BY DEF RevokeInv, Next, StripeStep
  <2> QED BY <2>1, TypeInvStep DEF TypeInv, TypeOK
<1>2. /\ Had \subseteq Had'
      /\ \A t \in Subs : stripe[t] = "missing" => stripe'[t] = "missing"
  BY <1>1, HadForGood
<1>3. UNCHANGED <<row, run>> /\ \A e \in Sent : events'[e] = events[e]
  BY <1>1, StripeMoves DEF rowVars
<1>4. ASSUME NEW e \in Sent' \ Sent PROVE events'[e].sub \in Had'
  <2>1. Send(s) BY <1>4 DEF StripeStep, Subscribe, Change, Remark, Forget, Stirs, Sent
  <2>2. clock' \in Nat BY <1>1 DEF TypeInv, TypeOK, StripeOK
  <2>3. e = Len(events) + 1 /\ events'[e].sub = s
    <3>1. Sent' = 1..(Len(events) + 1) /\ events'[Len(events) + 1] = [sub |-> s, at |-> clock']
      BY <1>1, <2>1, <2>2, SentIsLast
    <3>2. Sent = 1..Len(events) /\ Len(events) \in Nat BY <1>1, SentEvents
    <3>3. e \in 1..(Len(events) + 1) /\ e \notin 1..Len(events) BY <1>4, <3>1, <3>2
    <3>4. e = Len(events) + 1 BY <3>2, <3>3
    <3> QED BY <3>1, <3>4
  <2>4. stripe'[s] # "none"
    BY <1>1, <2>1 DEF TypeInv, TypeOK, StripeOK, StripeStep, Subscribe, Change, Remark, Forget, Stirs, Live
  <2> QED BY <2>3, <2>4 DEF Had
<1>5. NamedWereHad'
  <2>1. \A e \in Sent' : events'[e].sub \in Had'
    BY <1>2, <1>3, <1>4 DEF RevokeInv, NamedWereHad
  <2> QED BY <1>2, <1>3, <2>1 DEF RevokeInv, NamedWereHad
<1>6. DesiredIsNamed' BY <1>2, <1>3 DEF RevokeInv, DesiredIsNamed
<1>7. NothingIsMissing'
  <2>1. \A r \in Runs : run[r].read.sub # None => run[r].read.sub \in Subs
    BY DEF RevokeInv, NamedWereHad, Had
  <2> QED BY <1>2, <1>3, <2>1 DEF RevokeInv, NothingIsMissing
<1> QED BY <1>1, <1>5, <1>6, <1>7 DEF RevokeInv

LEMMA JobRevokes ==
  ASSUME RevokeInv, NEW e \in EventIds, JobStep(e)
  PROVE  RevokeInv' /\ (row' # row => row'.sub # None)
<1>1. TypeInv /\ TypeInv' BY JobTypes DEF RevokeInv
<1>2. UNCHANGED <<stripe, events, run>>
  BY DEF JobStep, WorkOn, Deliver, Replay, StartJob, Retrieve, Apply, Settle, JobFails, stripeVars
<1>3. row' = row \/ row'.sub \in Had \ {None}
  <2>1. CASE Apply(e)
    <3>1. e \in Sent BY <1>1, <2>1 DEF Apply, TypeInv, JobsAreSent
    <3>2. events[e].sub \in Had \ {None}
      BY <1>1, <3>1, SentEvents, EventsApart DEF RevokeInv, NamedWereHad, TypeInv, TypeOK, EventType
    <3> QED BY <2>1, <3>2 DEF Apply, rowVars
  <2>2. CASE ~Apply(e)
    BY <2>2 DEF JobStep, WorkOn, Deliver, Replay, StartJob, Retrieve, Settle, JobFails, rowVars
  <2> QED BY <2>1, <2>2
<1>4. row'.sub \in Had BY <1>3 DEF RevokeInv, NamedWereHad
<1> QED BY <1>1, <1>2, <1>3, <1>4
  DEF RevokeInv, NamedWereHad, DesiredIsNamed, NothingIsMissing, Had, Sent

\* What a run would write after it has looked.
LEMMA LooksForNamed ==
  ASSUME RevokeInv, NEW r \in Runs, Look(r) \/ ListHeld(r)
  PROVE  \E step \in {"list", "settle"}, desired \in Projection :
           /\ Advance(r, step, run[r].read, desired)
           /\ desired = NoSub \/ desired.sub \in Had \ {None}
           /\ desired = NoSub /\ run[r].read.sub # None => stripe[run[r].read.sub] = "missing"
<1>1. /\ \A s \in Subs : StripeHolds(s) \in Projection /\ StripeHolds(s).sub = s /\ s # None
      /\ NoSub \in Projection /\ NoSub.sub = None /\ run[r].desired \in Projection
      /\ run[r].read.sub \in Had /\ Had \subseteq Subs \cup {None}
  BY EventsApart DEF RevokeInv, NamedWereHad, Had, TypeInv, TypeOK, StripeOK, StripeHolds, RunsOK,
    RunStates, Projection, Column, NoSub, SubStates
<1>2. CASE Look(r)
  <2>1. PICK s \in {run[r].read.sub} \cup Subs :
          IF s = None \/ stripe[s] \in {"none", "missing"}
          THEN s = run[r].read.sub /\ Advance(r, "list", run[r].read, NoSub)
          ELSE Advance(r, IF stripe[s] \in Live THEN "settle" ELSE "list",
                       run[r].read, StripeHolds(s))
    BY <1>2 DEF Look
  <2>2. CASE s = None \/ stripe[s] \in {"none", "missing"}
    BY <1>1, <2>1, <2>2 DEF Had
  <2>3. CASE ~(s = None \/ stripe[s] \in {"none", "missing"})
    <3>1. s \in Subs /\ s \in Had \ {None} BY <1>1, <2>3 DEF Had
    <3> QED BY <1>1, <2>1, <2>3, <3>1
  <2> QED BY <2>2, <2>3
<1>3. CASE ListHeld(r)
  <2>1. run[r].step = "list" BY <1>3 DEF ListHeld
  <2>2. /\ run[r].desired = NoSub \/ run[r].desired.sub \in Had \ {None}
        /\ run[r].desired = NoSub /\ run[r].read.sub # None => stripe[run[r].read.sub] = "missing"
    BY <2>1 DEF RevokeInv, DesiredIsNamed, NothingIsMissing
  <2>3. \A s \in HeldAtStripe : s \in Subs /\ s \in Had \ {None}
    BY EventsApart DEF HeldAtStripe, Had, Live
  <2>4. \A s \in HeldAtStripe : StripeHolds(s) # NoSub BY <1>1, <2>3
  <2> QED BY <1>1, <1>3, <2>2, <2>3, <2>4 DEF ListHeld, Adoptable
<1> QED BY <1>2, <1>3

LEMMA RunRevokes ==
  ASSUME RevokeInv, NEW r \in Runs, RunStep(r)
  PROVE  RevokeInv'
<1>1. TypeInv /\ TypeInv' BY RunTypes DEF RevokeInv
<1>2. UNCHANGED <<stripe, events>> /\ Had' = Had
  BY DEF RunStep, Reconcile, ReadRow, Look, ListHeld, Revoke, Project, Unreachable, stripeVars, Had
<1>3. NoSub.sub = None /\ None \in Had /\ NoSub \in Projection /\ row \in Projection
  BY <1>1 DEF NoSub, Had, TypeInv, TypeOK, RowOK, Projection, Column, SubStates
<1>4. row'.sub \in Had
  BY <1>3, RunMoves, <1>1 DEF RevokeInv, NamedWereHad, DesiredIsNamed, rowVars
<1>5. ASSUME NEW step \in {"look", "list", "settle"}, NEW read \in Projection,
             NEW desired \in Projection, Advance(r, step, read, desired), read.sub \in Had,
             desired = NoSub \/ desired.sub \in Had \ {None},
             step # "look" /\ desired = NoSub /\ read.sub # None => stripe[read.sub] = "missing"
      PROVE  RevokeInv'
  <2>1. /\ run'[r].step = step /\ run'[r].read = read /\ run'[r].desired = desired
        /\ \A o \in Runs \ {r} : run'[o] = run[o]
    <3>1. /\ run'[r] = [step |-> step, read |-> read, desired |-> desired]
          /\ \A o \in Runs \ {r} : run'[o] = run[o]
      BY <1>1, <1>5, RunWritten
    <3> QED BY <3>1
  <2> QED BY <1>1, <1>2, <1>4, <1>5, <2>1
    DEF RevokeInv, NamedWereHad, DesiredIsNamed, NothingIsMissing, Sent
<1>6. CASE ReadRow(r)
  <2>1. Advance(r, "look", row, NoSub) /\ row.sub \in Had
    BY <1>6 DEF ReadRow, RevokeInv, NamedWereHad
  <2> QED BY <1>3, <1>5, <2>1
<1>7. CASE Look(r) \/ ListHeld(r)
  <2>1. run[r].read \in Projection /\ run[r].read.sub \in Had
    BY <1>1 DEF RevokeInv, NamedWereHad, TypeInv, TypeOK, RunsOK, RunStates
  <2>2. PICK step \in {"list", "settle"}, desired \in Projection :
           /\ Advance(r, step, run[r].read, desired)
           /\ desired = NoSub \/ desired.sub \in Had \ {None}
           /\ desired = NoSub /\ run[r].read.sub # None => stripe[run[r].read.sub] = "missing"
    BY <1>7, LooksForNamed
  <2>3. step \in {"look", "list", "settle"} OBVIOUS
  <2> QED BY <1>5, <2>1, <2>2, <2>3
<1>8. CASE Revoke(r) \/ Project(r) \/ Unreachable(r)
  <2>1. /\ run'[r] \in {Idle, [Idle EXCEPT !.step = "done"]}
        /\ \A o \in Runs \ {r} : run'[o] = run[o]
    BY <1>1, <1>8 DEF Revoke, Project, Unreachable, End, TypeInv, TypeOK, RunsOK
  <2>2. run'[r].read = NoSub /\ run'[r].desired = NoSub /\ run'[r].step \in {"idle", "done"}
    BY <2>1 DEF Idle
  <2> QED BY <1>1, <1>2, <1>3, <1>4, <2>1, <2>2
    DEF RevokeInv, NamedWereHad, DesiredIsNamed, NothingIsMissing, Sent
<1> QED BY <1>6, <1>7, <1>8 DEF RunStep, Reconcile

LEMMA RevokeInvStep == RevokeInv /\ [Next]_vars => RevokeInv'
<1> SUFFICES ASSUME RevokeInv, [Next]_vars PROVE RevokeInv' OBVIOUS
<1>1. CASE UNCHANGED vars
  <2>1. TypeInv' BY TypeInvStep DEF RevokeInv
  <2> QED BY <1>1, <2>1 DEF RevokeInv, NamedWereHad, DesiredIsNamed, NothingIsMissing, Had, Sent,
    vars, stripeVars, rowVars
<1> QED BY <1>1, StripeRevokes, JobRevokes, RunRevokes DEF Next, StripeStep, JobStep, RunStep

LEMMA RevokeInvInit == Init => RevokeInv
BY TypeInvInit
DEF Init, RevokeInv, NamedWereHad, DesiredIsNamed, NothingIsMissing, Had, Idle, NoSub, Sent

LEMMA RevokeInvHolds == Spec => []RevokeInv
BY RevokeInvInit, RevokeInvStep, PTL DEF Spec

\* No step takes the plan of a workspace whose row names a subscription that Stripe
\* holds: a run revokes only what it looked for and did not find, and what Stripe has
\* lost it has lost for good.
THEOREM RevokesAreUnbacked == Spec => RevokesOnlyUnbacked
<1>1. ASSUME RevokeInv, [Next]_vars, row.sub # None, row'.sub = None
      PROVE  stripe[row.sub] \notin Live
  <2>1. PICK r \in Runs : RunStep(r)
    <3>1. ASSUME NEW s \in Subs, StripeStep(s) PROVE FALSE
      BY <1>1, <3>1, StripeMoves DEF RevokeInv, TypeInv, TypeOK, rowVars
    <3>2. ASSUME NEW e \in EventIds, JobStep(e) PROVE FALSE
      BY <1>1, <3>2, JobRevokes
    <3> QED BY <1>1, <3>1, <3>2 DEF Next, StripeStep, JobStep, RunStep, vars, rowVars
  <2>2. ~Project(r)
    BY <1>1 DEF Project, RevokeInv, DesiredIsNamed
  <2>3. Revoke(r)
    BY <1>1, <2>1, <2>2
    DEF RunStep, Reconcile, ReadRow, Look, ListHeld, Unreachable, rowVars
  <2>4. /\ run[r].step = "settle" /\ run[r].desired = NoSub
        /\ run[r].read.sub # None /\ row.sub = run[r].read.sub
    BY <1>1, <2>3 DEF Revoke, StillAsRead
  <2>5. stripe[row.sub] = "missing" BY <1>1, <2>4 DEF RevokeInv, NothingIsMissing
  <2> QED BY <2>5 DEF Live
<1> QED BY <1>1, RevokeInvHolds, PTL DEF Spec, RevokesOnlyUnbacked
-----------------------------------------------------------------------------
(* Repairing *)

\* A projection that says what Stripe holds, or that it holds nothing.
Tells(projection) == IF HeldAtStripe = {} THEN projection.state \notin Live
                     ELSE \A s \in HeldAtStripe : projection = StripeHolds(s)

\* A nightly run that goes on to ask what the customer holds knows that what it looked for
\* did not entitle or hold anything; what it has decided to write tells what Stripe holds
\* until Stripe changes.  Both rest on a customer holding one live subscription at most.
OneHeld == \A s, t \in HeldAtStripe : s = t
BlankIsNothing == row.sub = None => row.state \notin Live
NightlyKnows ==
  /\ run[Nightly].step = "list" => run[Nightly].desired.state \notin Live
  /\ run[Nightly].step = "settle" /\ ~outdated => Tells(run[Nightly].desired)

RepairInv == RevokeInv /\ OneHeld /\ BlankIsNothing /\ NightlyKnows

LEMMA StripeRepairs ==
  ASSUME RepairInv, NEW s \in Subs, StripeStep(s)
  PROVE  RepairInv'
<1>1. TypeInv /\ StripeOK /\ RevokeInv'
  BY StripeRevokes DEF RepairInv, RevokeInv, TypeInv, TypeOK
<1>2. UNCHANGED <<row, run>> BY <1>1, StripeMoves DEF rowVars
<1>3. OneHeld'
  BY <1>1 DEF StripeOK, RepairInv, OneHeld, HeldAtStripe, StripeStep, Subscribe, Change, Remark,
    Forget, Stirs, Live
<1>4. run[Nightly].step = "settle" => outdated' = TRUE \/ UNCHANGED <<stripe, outdated>>
  BY Zenon DEF StripeStep, Subscribe, Change, Remark, Forget, Stirs
<1>5. NightlyKnows'
  BY <1>2, <1>4 DEF RepairInv, NightlyKnows, Tells, HeldAtStripe, StripeHolds
<1> QED BY <1>1, <1>2, <1>3, <1>5 DEF RepairInv, BlankIsNothing

LEMMA JobRepairs ==
  ASSUME RepairInv, NEW e \in EventIds, JobStep(e)
  PROVE  RepairInv'
<1>1. RevokeInv' /\ (row' # row => row'.sub # None) BY JobRevokes DEF RepairInv
<1>2. UNCHANGED stripe /\ UNCHANGED run
  BY DEF JobStep, WorkOn, Deliver, Replay, StartJob, Retrieve, Apply, Settle, JobFails, stripeVars
<1>3. UNCHANGED outdated
  BY Zenon DEF JobStep, WorkOn, Deliver, Replay, StartJob, Retrieve, Apply, Settle, JobFails,
    stripeVars
<1>4. UNCHANGED HeldAtStripe /\ \A s \in Subs : UNCHANGED StripeHolds(s)
  BY <1>2 DEF HeldAtStripe, StripeHolds
<1>5. \A projection : Tells(projection)' <=> Tells(projection)
  BY <1>4 DEF Tells, HeldAtStripe
<1> QED BY <1>1, <1>2, <1>3, <1>4, <1>5 DEF RepairInv, OneHeld, BlankIsNothing, NightlyKnows

\* Where a run leaves Stripe, the row and the other runs.
LEMMA RunLeaves ==
  ASSUME RepairInv, NEW r \in Runs, RunStep(r)
  PROVE  /\ TypeInv /\ RevokeInv' /\ OneHeld' /\ BlankIsNothing'
         /\ \A projection : Tells(projection)' <=> Tells(projection)
<1>1. TypeInv /\ RevokeInv /\ RevokeInv' BY RunRevokes DEF RepairInv, RevokeInv
<1>2. UNCHANGED stripe
  BY DEF RunStep, Reconcile, ReadRow, Look, ListHeld, Revoke, Project, Unreachable, stripeVars
<1>3. UNCHANGED HeldAtStripe /\ \A s \in Subs : UNCHANGED StripeHolds(s)
  BY <1>2 DEF HeldAtStripe, StripeHolds
<1>4. \A projection : Tells(projection)' <=> Tells(projection)
  BY <1>3 DEF Tells, HeldAtStripe
<1>5. row' \in {row, NoSub, run[r].desired} BY <1>1, RunMoves DEF rowVars
<1>6. run[r].desired = NoSub \/ run[r].desired.sub # None
  BY <1>1 DEF RevokeInv, DesiredIsNamed
<1>7. BlankIsNothing' BY <1>5, <1>6 DEF RepairInv, BlankIsNothing, NoSub, Live
<1> QED BY <1>1, <1>3, <1>4, <1>7 DEF RepairInv, OneHeld

\* What the nightly run finds, at Stripe as it is while it looks.
LEMMA NightlyFinds ==
  ASSUME RepairInv, Look(Nightly) \/ ListHeld(Nightly)
  PROVE  \E step \in {"list", "settle"}, desired \in Projection :
           /\ run'[Nightly].step = step /\ run'[Nightly].desired = desired
           /\ IF step = "list" THEN desired.state \notin Live ELSE Tells(desired)
<1>1. TypeInv /\ Nightly \in Runs /\ run \in [Runs -> RunStates]
  BY EventsApart DEF RepairInv, RevokeInv, TypeInv, TypeOK, RunsOK
<1>2. /\ NoSub \in Projection /\ NoSub.state \notin Live /\ run[Nightly].desired \in Projection
      /\ run[Nightly].read.sub \in Column
      /\ \A s \in Subs : StripeHolds(s) \in Projection /\ StripeHolds(s).state = stripe[s]
  BY <1>1 DEF TypeInv, TypeOK, StripeOK, StripeHolds, RunStates, Projection, Column, NoSub,
    SubStates, Live
<1>3. \A s \in HeldAtStripe : s \in Subs /\ Tells(StripeHolds(s))
  BY DEF RepairInv, OneHeld, Tells, HeldAtStripe
<1>4. ASSUME NEW step \in {"list", "settle"}, NEW desired \in Projection, NEW read,
             Advance(Nightly, step, read, desired)
      PROVE  run'[Nightly].step = step /\ run'[Nightly].desired = desired
  BY <1>1, <1>4 DEF Advance
<1>5. CASE Look(Nightly)
  <2> DEFINE s == run[Nightly].read.sub
  <2>1. IF s = None \/ stripe[s] \in {"none", "missing"}
        THEN Advance(Nightly, "list", run[Nightly].read, NoSub)
        ELSE Advance(Nightly, IF stripe[s] \in Live THEN "settle" ELSE "list",
                     run[Nightly].read, StripeHolds(s))
    BY <1>5 DEF Look
  <2>2. CASE s = None \/ stripe[s] \in {"none", "missing"}
    BY <1>2, <1>4, <2>1, <2>2
  <2>3. CASE ~(s = None \/ stripe[s] \in {"none", "missing"})
    <3>1. s \in Subs BY <1>2, <2>3 DEF Column
    <3>2. stripe[s] \in Live => Tells(StripeHolds(s)) BY <1>3, <3>1 DEF HeldAtStripe
    <3> QED BY <1>2, <1>4, <2>1, <2>3, <3>1, <3>2
  <2> QED BY <2>2, <2>3
<1>6. CASE ListHeld(Nightly)
  <2>1. run[Nightly].step = "list" BY <1>6 DEF ListHeld
  <2>2. HeldAtStripe = {} => Tells(run[Nightly].desired)
    BY <2>1 DEF RepairInv, NightlyKnows, Tells
  <2> QED BY <1>2, <1>3, <1>4, <1>6, <2>2 DEF ListHeld, Adoptable
<1> QED BY <1>5, <1>6

LEMMA RunRepairs ==
  ASSUME RepairInv, NEW r \in Runs, RunStep(r)
  PROVE  RepairInv'
<1>1. /\ TypeInv /\ RevokeInv' /\ OneHeld' /\ BlankIsNothing'
      /\ \A projection : Tells(projection)' <=> Tells(projection)
  BY RunLeaves
<1>2. Nightly \in Runs /\ run \in [Runs -> RunStates]
  BY <1>1, EventsApart DEF TypeInv, TypeOK, RunsOK
<1>3. CASE r # Nightly
  <2>1. run'[Nightly] = run[Nightly]
    BY <1>2, <1>3 DEF RunStep, Reconcile, ReadRow, Look, ListHeld, Revoke, Project, Unreachable,
      Advance, End
  <2>2. UNCHANGED outdated
    BY <1>3, Zenon DEF RunStep, Reconcile, ReadRow, Look, ListHeld, Revoke, Project, Unreachable,
      End, stripeVars
  <2> QED BY <1>1, <2>1, <2>2 DEF RepairInv, NightlyKnows
<1>4. CASE r = Nightly
  <2>1. CASE ReadRow(Nightly)
    <3>1. run'[Nightly].step = "look" BY <1>2, <2>1 DEF ReadRow, Advance
    <3> QED BY <1>1, <3>1 DEF RepairInv, NightlyKnows
  <2>2. CASE Look(Nightly) \/ ListHeld(Nightly)
    <3>1. PICK step \in {"list", "settle"}, desired \in Projection :
            /\ run'[Nightly].step = step /\ run'[Nightly].desired = desired
            /\ IF step = "list" THEN desired.state \notin Live ELSE Tells(desired)
      BY <2>2, NightlyFinds
    <3>2. NightlyKnows' BY <1>1, <3>1 DEF NightlyKnows
    <3> QED BY <1>1, <3>2 DEF RepairInv
  <2>3. CASE Revoke(Nightly) \/ Project(Nightly) \/ Unreachable(Nightly)
    <3>1. run'[Nightly].step = "idle"
      BY <1>1, <1>2, <2>3, RunEnded DEF Revoke, Project, Unreachable
    <3> QED BY <1>1, <3>1 DEF RepairInv, NightlyKnows
  <2> QED BY <1>4, <2>1, <2>2, <2>3 DEF RunStep, Reconcile
<1> QED BY <1>3, <1>4

LEMMA RepairInvStep == RepairInv /\ [Next]_vars => RepairInv'
<1> SUFFICES ASSUME RepairInv, [Next]_vars PROVE RepairInv' OBVIOUS
<1>1. CASE UNCHANGED vars
  <2>1. UNCHANGED <<stripe, row, run>> /\ RevokeInv'
    BY <1>1, RevokeInvStep DEF RepairInv, vars, stripeVars, rowVars
  <2>2. UNCHANGED outdated BY <1>1, Zenon DEF vars, stripeVars
  <2> QED BY <2>1, <2>2 DEF RepairInv, OneHeld, BlankIsNothing, NightlyKnows, Tells, HeldAtStripe,
    StripeHolds
<1> QED BY <1>1, StripeRepairs, JobRepairs, RunRepairs DEF Next, StripeStep, JobStep, RunStep

LEMMA RepairInvInit == Init => RepairInv
<1> SUFFICES ASSUME Init PROVE RepairInv OBVIOUS
<1>1. HeldAtStripe = {} /\ RevokeInv BY RevokeInvInit DEF Init, HeldAtStripe, Live
<1>2. run[Nightly].step = "idle" BY EventsApart DEF Init, Idle
<1> QED BY <1>1, <1>2 DEF Init, RepairInv, OneHeld, BlankIsNothing, NightlyKnows, NoSub, Live

LEMMA RepairInvHolds == Spec => []RepairInv
BY RepairInvInit, RepairInvStep, PTL DEF Spec

\* Whatever Stripe lost, sent late or never sent, and whatever requests wrote: a nightly
\* run that Stripe answers, on a row that stays as read, leaves what Stripe holds.
THEOREM NightsRepair == Spec => NightlyRepairs
<1>1. ASSUME RepairInv, Project(Nightly) \/ Revoke(Nightly),
             row = run[Nightly].read, ~outdated
      PROVE  Agrees'
  <2>1. Nightly \in Runs /\ RunStep(Nightly)
    BY <1>1, EventsApart DEF RunStep, Reconcile
  <2>2. Tells(run[Nightly].desired)
    BY <1>1 DEF Project, Revoke, RepairInv, NightlyKnows
  <2>3. Tells(row')
    <3>1. CASE Project(Nightly) BY <1>1, <2>2, <3>1 DEF Project, Matches
    <3>2. CASE Revoke(Nightly)
      <4>1. HeldAtStripe = {}
        <5>1. \A s \in HeldAtStripe : NoSub # StripeHolds(s)
          BY EventsApart DEF StripeHolds, NoSub, HeldAtStripe
        <5>2. run[Nightly].desired = NoSub BY <3>2 DEF Revoke
        <5> QED BY <2>2, <5>1, <5>2 DEF Tells
      <4>2. row' = NoSub \/ (row.sub = None /\ row' = row)
        BY <1>1, <3>2 DEF Revoke, StillAsRead
      <4> QED BY <1>1, <4>1, <4>2 DEF Tells, NoSub, Live, RepairInv, BlankIsNothing
    <3> QED BY <1>1, <3>1, <3>2
  <2>4. PICK now : now = row' OBVIOUS
  <2>5. Tells(now)' BY <1>1, <2>1, <2>3, <2>4, RunLeaves
  <2> QED BY <2>4, <2>5 DEF Tells, Agrees
<1> QED BY <1>1, RepairInvHolds, PTL DEF Spec, NightlyRepairs
-----------------------------------------------------------------------------
(* Agreeing *)

Last == Len(events)
LastAt == IF Last = 0 THEN 0 ELSE events[Last].at

\* Events are sent in the order of their seconds, and those of the last second are of
\* one subscription.
EventsInOrder ==
  /\ \A i, j \in Sent : i <= j => events[i].at <= events[j].at
  /\ \A i \in Sent : /\ events[i].at <= clock
                     /\ events[i].at = LastAt => events[i].sub = events[Last].sub

\* What Stripe holds is what its last event is about.
HeldIsLast ==
  /\ Last = 0 => \A s \in Subs : stripe[s] = "none"
  /\ \A s \in HeldAtStripe : Last # 0 /\ s = events[Last].sub
  /\ \A s \in Subs : stripe[s] # "missing"

\* Whatever job has applied the last event, the row is as Stripe is now.
LastApplied == Last # 0 /\ (inbox[Last] = "settled" \/ job[Last] = "settle")
RowIsOfLast ==
  /\ eventAt <= LastAt /\ (Last = 0 => row = NoSub)
  /\ LastApplied => row = StripeHolds(events[Last].sub) /\ eventAt = LastAt

\* The answer to a job that began after the last event was sent is what Stripe holds now.
GotIsNow == \A e \in Sent :
  job[e] = "apply" /\ (e = Last \/ inbox[Last] = "settled") => got = stripe[events[e].sub]

\* So is the answer to a nightly run, and nothing has written the row since it read it.
Nightlies == {"look", "list", "settle"}
NightlyReadsRow == run[Nightly].step \in Nightlies =>
  /\ run[Nightly].read = row
  /\ run[Nightly].step # "look" /\ Last # 0 /\ inbox[Last] = "settled" =>
       run[Nightly].desired = StripeHolds(events[Last].sub)

AgreeInv == /\ RevokeInv /\ EventsInOrder /\ HeldIsLast /\ RowIsOfLast /\ GotIsNow
            /\ NightlyReadsRow

\* Only the nightly run reconciles, Stripe loses nothing, and a subscription that is gone
\* sends no more events: without these the row may disagree until the next night.
Undisturbed == Calls = {} /\ ~MayForget /\ ~LateEvents

LEMMA LastIsSent ==
  ASSUME TypeInv
  PROVE  /\ Last \in Nat /\ Last <= MaxEvents /\ Sent = 1..Last /\ Sent \subseteq EventIds
         /\ LastAt \in Nat /\ (Last # 0 => Last \in Sent)
         /\ \A e \in Sent : events[e].sub \in Subs /\ events[e].at \in Nat /\ e <= Last
<1>1. /\ Last \in Nat /\ Sent = 1..Last /\ Sent \subseteq EventIds
      /\ \A e \in Sent : events[e] \in EventType
  BY SentEvents DEF TypeInv, TypeOK, Last
<1>2. \A e \in Sent : events[e].sub \in Subs /\ events[e].at \in Nat BY <1>1 DEF EventType
<1> QED BY <1>1, <1>2 DEF LastAt, Last, TypeInv, TypeOK, StripeOK

\* Every change of Stripe is an event that nothing has stored yet.
LEMMA StripeAgrees ==
  ASSUME AgreeInv, Undisturbed, NEW s \in Subs, StripeStep(s)
  PROVE  AgreeInv'
<1> DEFINE n == Last
<1>1. TypeInv /\ StripeOK /\ RevokeInv'
  BY StripeRevokes DEF AgreeInv, RevokeInv, TypeInv, TypeOK
<1>2. /\ Send(s) /\ stripe'[s] \in Live \cup {"gone"}
      /\ \A t \in Subs \ {s} : stripe'[t] = stripe[t]
      /\ clock' \in Nat /\ clock <= clock' /\ clock \in Nat
      /\ stripe[s] \in Live \/ (HeldAtStripe = {} /\ clock' = clock + 1)
  BY <1>1 DEF StripeOK, StripeStep, Subscribe, Change, Remark, Forget, Stirs, Undisturbed, Live
<1>3. /\ Last' = n + 1 /\ Sent' = 1..(n + 1) /\ n + 1 <= MaxEvents
      /\ events'[n + 1] = [sub |-> s, at |-> clock']
      /\ \A e \in Sent : events'[e] = events[e]
      /\ n \in Nat /\ Sent = 1..n
  BY <1>1, <1>2, SentIsLast, LastIsSent DEF Last
<1>4. LastAt' = clock' /\ Last' # 0 BY <1>3 DEF LastAt
<1>5. \A i \in Sent : /\ events[i].at \in Nat /\ events[i].at <= LastAt
                      /\ LastAt <= clock /\ events[i].at <= clock
  <2>1. \A i \in Sent : i <= n /\ n \in Sent BY <1>1, LastIsSent
  <2>2. Sent # {} => LastAt = events[n].at BY <1>3 DEF LastAt
  <2> QED BY <1>1, <2>1, <2>2, LastIsSent DEF AgreeInv, EventsInOrder
<1>6. EventsInOrder'
  <2>1. ASSUME NEW i \in Sent', NEW j \in Sent', i <= j
        PROVE  events'[i].at <= events'[j].at
    <3>1. CASE j = n + 1 BY <1>2, <1>3, <1>5, <2>1, <3>1
    <3>2. CASE j # n + 1
      <4>1. i \in Sent /\ j \in Sent BY <1>3, <2>1, <3>2
      <4> QED BY <1>3, <2>1, <4>1 DEF AgreeInv, EventsInOrder
    <3> QED BY <3>1, <3>2
  <2>2. ASSUME NEW i \in Sent'
        PROVE  /\ events'[i].at <= clock'
               /\ events'[i].at = LastAt' => events'[i].sub = events'[Last'].sub
    <3>1. CASE i = n + 1 BY <1>2, <1>3, <1>4, <3>1
    <3>2. CASE i # n + 1
      <4>1. i \in Sent /\ events'[i] = events[i] BY <1>3, <2>2, <3>2
      <4>2. events[i].at \in Nat /\ events[i].at <= LastAt /\ LastAt <= clock
        BY <1>5, <4>1
      <4>3. LastAt \in Nat BY <1>1, LastIsSent
      <4>4. events'[i].at <= clock' BY <1>2, <4>1, <4>2, <4>3
      <4>5. ASSUME events[i].at = clock' PROVE events[i].sub = s
        <5>1. clock' = clock /\ events[i].at = LastAt BY <1>2, <4>2, <4>3, <4>5
        <5>2. stripe[s] \in Live BY <1>2, <5>1
        <5>3. s = events[Last].sub BY <5>2 DEF AgreeInv, HeldIsLast, HeldAtStripe
        <5> QED BY <4>1, <5>1, <5>3 DEF AgreeInv, EventsInOrder
      <4> QED BY <1>3, <1>4, <4>1, <4>4, <4>5
    <3> QED BY <3>1, <3>2
  <2> QED BY <2>1, <2>2 DEF EventsInOrder
<1>7. HeldIsLast'
  <2>1. \A t \in Subs \ {s} : t \notin HeldAtStripe' /\ stripe'[t] # "missing"
    <3>1. \A t \in Subs \ {s} : t \notin HeldAtStripe
      BY <1>2 DEF AgreeInv, HeldIsLast, HeldAtStripe
    <3> QED BY <1>2, <3>1 DEF AgreeInv, HeldIsLast, HeldAtStripe
  <2>2. \A t \in HeldAtStripe' : t = s BY <2>1 DEF HeldAtStripe
  <2>3. stripe'[s] # "missing" BY <1>2 DEF Live
  <2> QED BY <1>3, <1>4, <2>1, <2>2, <2>3 DEF HeldIsLast
<1>8. /\ inbox'[Last'] = "unsent" /\ job'[Last'] = "none" /\ UNCHANGED <<inbox, job, row, eventAt, got, run>>
  <2>1. UNCHANGED <<inbox, job, row, eventAt, got, run>>
    BY <1>1, StripeMoves DEF queueVars, rowVars, workVars
  <2>2. n + 1 \in EventIds /\ n + 1 \notin Sent BY <1>3, SyncAssumption DEF EventIds
  <2> QED BY <1>1, <1>3, <2>1, <2>2 DEF TypeInv, JobsAreSent
<1>9. RowIsOfLast'
  <2>1. eventAt' <= LastAt'
    <3>1. LastAt <= clock
      <4>1. CASE n = 0 BY <1>2, <4>1 DEF LastAt
      <4>2. CASE n # 0 BY <1>1, <1>5, <4>2, LastIsSent
      <4> QED BY <4>1, <4>2
    <3>2. eventAt \in Nat /\ LastAt \in Nat /\ eventAt <= LastAt
      BY <1>1, LastIsSent DEF AgreeInv, RowIsOfLast, TypeInv, TypeOK, RowOK
    <3> QED BY <1>2, <1>4, <1>8, <3>1, <3>2
  <2> QED BY <1>4, <1>8, <2>1 DEF RowIsOfLast, LastApplied
<1>10. GotIsNow'
  BY <1>8 DEF GotIsNow
<1>11. NightlyReadsRow'
  BY <1>8 DEF AgreeInv, NightlyReadsRow
<1> QED BY <1>1, <1>6, <1>7, <1>9, <1>10, <1>11 DEF AgreeInv

\* What only depends on Stripe is left by whoever else moves.
LEMMA OrderStays ==
  ASSUME AgreeInv, UNCHANGED <<stripe, clock, events>>
  PROVE  /\ EventsInOrder' /\ HeldIsLast' /\ UNCHANGED <<Last, LastAt, Sent>>
         /\ \A s \in Subs : StripeHolds(s)' = StripeHolds(s)
BY DEF AgreeInv, EventsInOrder, HeldIsLast, HeldAtStripe, Last, LastAt, Sent, StripeHolds, stripeVars

\* While a job is at work nothing else is.
LEMMA OneAtWork ==
  ASSUME TypeInv, NEW e \in EventIds, job[e] \in AtWork
  PROVE  /\ \A o \in EventIds \ {e} : job[o] \notin AtWork
         /\ run[Nightly].step \notin Nightlies
BY EventsApart DEF TypeInv, TypeOK, WorkerOK, Nightlies

LEMMA ApplyAgrees ==
  ASSUME AgreeInv, NEW e \in EventIds, Apply(e)
  PROVE  RowIsOfLast'
<1>1. /\ TypeInv /\ UNCHANGED stripeVars /\ job[e] = "apply" /\ UNCHANGED inbox
      /\ job' = [job EXCEPT ![e] = "settle"]
  BY DEF AgreeInv, RevokeInv, Apply
<1>2. /\ e \in Sent /\ Last # 0 /\ Last \in Sent /\ Sent \subseteq EventIds
      /\ events[e].at \in Nat /\ events[e].sub \in Subs /\ LastAt = events[Last].at
      /\ events[e].at <= LastAt /\ LastAt \in Nat /\ eventAt \in Nat /\ eventAt <= LastAt
  <2>1. e \in Sent BY <1>1 DEF TypeInv, JobsAreSent
  <2>2. Last # 0 /\ Last \in Sent /\ e <= Last
    <3>1. e \in 1..Last /\ Last \in Nat BY <1>1, <2>1, LastIsSent
    <3> QED BY <1>1, <3>1, LastIsSent
  <2> QED BY <1>1, <2>1, <2>2, LastIsSent
    DEF AgreeInv, EventsInOrder, RowIsOfLast, LastAt, TypeInv, TypeOK, RowOK
<1>3. /\ UNCHANGED <<Last, LastAt, stripe, events>>
      /\ \A s \in Subs : StripeHolds(s)' = StripeHolds(s)
  BY <1>1, OrderStays DEF stripeVars
<1>4. job[e] \in AtWork /\ \A o \in EventIds \ {e} : job[o] # "settle"
  BY <1>1, OneAtWork DEF AtWork
<1>5. LastApplied' => e = Last \/ inbox[Last] = "settled"
  BY <1>1, <1>2, <1>3, <1>4 DEF LastApplied, TypeInv, TypeOK, QueueOK
<1>6. eventAt' <= LastAt' /\ ~(Last' = 0)
  BY <1>2, <1>3 DEF Apply, IsOlder, rowVars
<1>7. ASSUME LastApplied' PROVE row' = StripeHolds(events[Last].sub) /\ eventAt' = LastAt
  <2>1. got = stripe[events[e].sub]
    BY <1>1, <1>2, <1>5, <1>7 DEF AgreeInv, GotIsNow
  <2>2. CASE e = Last
    <3>1. ~IsOlder(e) BY <1>2, <2>2 DEF IsOlder
    <3> QED BY <1>2, <2>1, <2>2, <3>1 DEF Apply, StripeHolds
  <2>3. CASE e # Last
    <3>1. inbox[Last] = "settled" BY <1>5, <1>7, <2>3
    <3>2. row = StripeHolds(events[Last].sub) /\ eventAt = LastAt
      BY <1>2, <3>1 DEF AgreeInv, RowIsOfLast, LastApplied
    <3>3. CASE IsOlder(e) BY <3>2, <3>3 DEF Apply, rowVars
    <3>4. CASE ~IsOlder(e)
      <4>1. events[e].at = LastAt BY <1>2, <3>2, <3>4 DEF IsOlder
      <4>2. events[e].sub = events[Last].sub BY <1>2, <4>1 DEF AgreeInv, EventsInOrder
      <4> QED BY <2>1, <3>4, <4>1, <4>2 DEF Apply, StripeHolds
    <3> QED BY <3>3, <3>4
  <2> QED BY <2>2, <2>3
<1>8. events[Last].sub \in Subs BY <1>1, <1>2, LastIsSent
<1> QED BY <1>3, <1>6, <1>7, <1>8 DEF RowIsOfLast

LEMMA JobAgrees ==
  ASSUME AgreeInv, Undisturbed, NEW e \in EventIds, JobStep(e)
  PROVE  AgreeInv'
<1>1. TypeInv /\ RevokeInv' /\ UNCHANGED stripeVars /\ UNCHANGED run
  BY JobRevokes, QueueTypes
  DEF AgreeInv, RevokeInv, JobStep, WorkOn, Deliver, Replay, StartJob, Retrieve, Apply, Settle,
      JobFails
<1>2. /\ EventsInOrder' /\ HeldIsLast' /\ UNCHANGED <<Last, LastAt, Sent, stripe, events>>
      /\ \A s \in Subs : StripeHolds(s)' = StripeHolds(s)
  BY <1>1, OrderStays DEF stripeVars
<1>3. /\ Sent \subseteq EventIds /\ (Last # 0 => Last \in EventIds)
      /\ (Last # 0 => events[Last].sub \in Subs)
      /\ \A o \in Sent : o # 0 /\ Last # 0 /\ events[o].sub \in Subs
  <2>1. \A o \in Sent : o # 0 /\ Last # 0 BY <1>1, LastIsSent
  <2> QED BY <1>1, <2>1, LastIsSent
<1>4. QueueOK BY <1>1 DEF TypeInv, TypeOK
<1>5. RowIsOfLast'
  <2>1. CASE Apply(e) BY <2>1, ApplyAgrees
  <2>2. CASE ~Apply(e)
    <3>1. UNCHANGED <<row, eventAt>>
      BY <2>2 DEF JobStep, WorkOn, Deliver, Replay, StartJob, Retrieve, Settle, JobFails, rowVars
    <3>2. LastApplied' => LastApplied
      BY <1>2, <1>3, <1>4, <2>2 DEF JobStep, WorkOn, Deliver, Replay, StartJob, Retrieve, Settle,
        JobFails, LastApplied, QueueOK
    <3> QED BY <1>2, <1>3, <3>1, <3>2 DEF AgreeInv, RowIsOfLast, LastApplied
  <2> QED BY <2>1, <2>2
<1>6. GotIsNow'
  <2>1. ASSUME NEW o \in Sent, job'[o] = "apply", o = Last \/ inbox'[Last] = "settled"
        PROVE  got' = stripe[events[o].sub]
    <3>1. o \in EventIds BY <1>3
    <3>2. CASE Retrieve(e)
      <4>1. job'[o] = "apply" /\ o # e => job[o] = "apply" /\ job[e] = "retrieve"
        BY <1>4, <2>1, <3>1, <3>2 DEF Retrieve, QueueOK
      <4>2. o = e BY <1>1, <2>1, <3>1, <4>1, OneAtWork DEF AtWork
      <4> QED BY <3>2, <4>2 DEF Retrieve
    <3>3. CASE ~Retrieve(e)
      <4>1. job[o] = "apply"
        BY <1>4, <2>1, <3>1, <3>3 DEF JobStep, WorkOn, Deliver, Replay, StartJob, Apply, Settle,
          JobFails, QueueOK
      <4>2. \A u \in EventIds \ {o} : job[u] \notin AtWork
        BY <1>1, <3>1, <4>1, OneAtWork DEF AtWork
      <4>3. ~Settle(e) /\ ~JobFails(e)
        BY <1>4, <2>1, <3>1, <4>1, <4>2 DEF Settle, JobFails, AtWork, QueueOK
      <4>4. got' = got /\ (inbox'[Last] = "settled" => inbox[Last] = "settled")
        BY <1>3, <1>4, <2>1, <3>3, <4>3 DEF JobStep, WorkOn, Deliver, Replay, StartJob, Apply, QueueOK,
          workVars
      <4> QED BY <2>1, <4>1, <4>4 DEF AgreeInv, GotIsNow
    <3> QED BY <3>2, <3>3
  <2> QED BY <1>2, <2>1 DEF GotIsNow
<1>7. NightlyReadsRow'
  <2>1. CASE run[Nightly].step \notin Nightlies BY <1>1, <2>1 DEF NightlyReadsRow
  <2>2. CASE run[Nightly].step \in Nightlies
    <3>1. job[e] \notin AtWork BY <1>1, <2>2, OneAtWork
    <3>2. UNCHANGED row /\ (Last # 0 /\ inbox'[Last] = "settled" => inbox[Last] = "settled")
      BY <1>3, <1>4, <3>1 DEF JobStep, WorkOn, Deliver, Replay, StartJob, Retrieve, Apply, Settle,
        JobFails, AtWork, QueueOK, rowVars
    <3> QED BY <1>1, <1>2, <1>3, <3>2 DEF AgreeInv, NightlyReadsRow
  <2> QED BY <2>1, <2>2
<1> QED BY <1>1, <1>2, <1>5, <1>6, <1>7 DEF AgreeInv

\* A nightly run writes what Stripe holds, if the last event has been settled.
LEMMA NightlyAgrees ==
  ASSUME AgreeInv, Undisturbed, RunStep(Nightly)
  PROVE  AgreeInv'
<1> DEFINE settled == Last # 0 /\ inbox[Last] = "settled"
           held == StripeHolds(events[Last].sub)
<1>1. /\ Nightly \in Runs /\ TypeInv /\ RevokeInv' /\ RevokeInv
      /\ UNCHANGED <<stripe, clock, events, inbox, job, eventAt, got>>
  BY EventsApart, RunRevokes
  DEF AgreeInv, RevokeInv, RunStep, Reconcile, ReadRow, Look, ListHeld, Revoke, Project,
      Unreachable, queueVars, rowVars, workVars, stripeVars
<1>2. /\ EventsInOrder' /\ HeldIsLast' /\ UNCHANGED <<Last, LastAt, Sent, stripe, events>>
      /\ \A s \in Subs : StripeHolds(s)' = StripeHolds(s)
  BY <1>1, OrderStays DEF stripeVars
<1>3. Last # 0 => events[Last].sub \in Subs /\ Last \in Sent BY <1>1, LastIsSent
<1>4. GotIsNow' BY <1>1, <1>2 DEF AgreeInv, GotIsNow
<1>5. settled => /\ row = held /\ row.sub \in Subs /\ row.sub = events[Last].sub
                 /\ stripe[row.sub] \notin {"none", "missing"}
                 /\ held # NoSub
  <2>1. ASSUME settled PROVE /\ row = held /\ row.sub \in Subs /\ row.sub = events[Last].sub
    BY <1>3, <2>1 DEF AgreeInv, RowIsOfLast, LastApplied, StripeHolds
  <2>2. ASSUME settled PROVE stripe[row.sub] \notin {"none", "missing"}
    BY <1>1, <2>1, <2>2, EventsApart DEF RevokeInv, NamedWereHad, Had, AgreeInv, HeldIsLast
  <2>3. ASSUME settled PROVE held # NoSub
    BY <2>1, <2>3, EventsApart DEF NoSub, StripeHolds
  <2> QED BY <2>1, <2>2, <2>3
<1>6. run \in [Runs -> RunStates] BY <1>1 DEF TypeInv, TypeOK, RunsOK
<1>7. CASE ReadRow(Nightly)
  <2>1. /\ run'[Nightly].read = row /\ run'[Nightly].step = "look" /\ UNCHANGED row
    BY <1>1, <1>6, <1>7 DEF ReadRow, Advance, rowVars
  <2>2. NightlyReadsRow' BY <2>1 DEF NightlyReadsRow
  <2>3. RowIsOfLast' BY <1>1, <1>2, <1>3, <2>1 DEF AgreeInv, RowIsOfLast, LastApplied
  <2> QED BY <1>1, <1>2, <1>4, <2>2, <2>3 DEF AgreeInv
<1>8. CASE Look(Nightly)
  <2>1. /\ UNCHANGED row /\ run[Nightly].step = "look" /\ run[Nightly].read = row
    BY <1>8 DEF Look, rowVars, AgreeInv, NightlyReadsRow, Nightlies
  <2>2. run'[Nightly].read = row /\ (settled => run'[Nightly].desired = held)
    <3>1. IF row.sub = None \/ stripe[row.sub] \in {"none", "missing"}
          THEN Advance(Nightly, "list", row, NoSub)
          ELSE Advance(Nightly, IF stripe[row.sub] \in Live THEN "settle" ELSE "list",
                       row, StripeHolds(row.sub))
      BY <1>8, <2>1 DEF Look
    <3>2. run'[Nightly].read = row BY <1>1, <1>6, <3>1 DEF Advance
    <3>3. ASSUME settled PROVE run'[Nightly].desired = held
      <4>1. ~(row.sub = None \/ stripe[row.sub] \in {"none", "missing"})
        BY <1>5, <3>3, EventsApart
      <4>2. run'[Nightly].desired = StripeHolds(row.sub) BY <1>1, <1>6, <3>1, <4>1 DEF Advance
      <4> QED BY <1>5, <3>3, <4>2
    <3> QED BY <3>2, <3>3
  <2>3. NightlyReadsRow' BY <1>1, <1>2, <1>3, <2>1, <2>2 DEF NightlyReadsRow
  <2>4. RowIsOfLast' BY <1>1, <1>2, <1>3, <2>1 DEF AgreeInv, RowIsOfLast, LastApplied
  <2> QED BY <1>1, <1>2, <1>4, <2>3, <2>4 DEF AgreeInv
<1>9. CASE ListHeld(Nightly)
  <2>1. /\ UNCHANGED row /\ run[Nightly].step = "list" /\ run[Nightly].read = row
        /\ settled => run[Nightly].desired = held
    BY <1>9 DEF ListHeld, rowVars, AgreeInv, NightlyReadsRow, Nightlies
  <2>2. run'[Nightly].read = row /\ (settled => run'[Nightly].desired = held)
    <3>1. \A s \in HeldAtStripe : s = events[Last].sub BY DEF AgreeInv, HeldIsLast
    <3> QED BY <1>1, <1>6, <1>9, <2>1, <3>1 DEF ListHeld, Adoptable, Advance
  <2>3. NightlyReadsRow' BY <1>1, <1>2, <1>3, <2>1, <2>2 DEF NightlyReadsRow
  <2>4. RowIsOfLast' BY <1>1, <1>2, <1>3, <2>1 DEF AgreeInv, RowIsOfLast, LastApplied
  <2> QED BY <1>1, <1>2, <1>4, <2>3, <2>4 DEF AgreeInv
<1>10. CASE Revoke(Nightly) \/ Project(Nightly) \/ Unreachable(Nightly)
  <2>1. run'[Nightly].step = "idle" /\ run[Nightly].step \in Nightlies
    <3>1. End(Nightly) /\ run[Nightly].step \in Nightlies
      BY <1>10 DEF Revoke, Project, Unreachable, Nightlies
    <3> QED BY <1>1, <3>1, RunEnded
  <2>2. NightlyReadsRow' BY <2>1 DEF NightlyReadsRow, Nightlies
  <2>3. run[Nightly].read = row BY <2>1 DEF AgreeInv, NightlyReadsRow
  <2>4. ASSUME settled PROVE row' = row
    <3>1. CASE Unreachable(Nightly) BY <3>1 DEF Unreachable, rowVars
    <3>2. CASE Revoke(Nightly) \/ Project(Nightly)
      <4>1. run[Nightly].desired = held
        BY <2>1, <2>4, <3>2 DEF Revoke, Project, AgreeInv, NightlyReadsRow
      <4> QED BY <1>5, <2>3, <2>4, <3>2, <4>1 DEF Revoke, Project, Matches
    <3> QED BY <1>10, <3>1, <3>2
  <2>5. ASSUME Last = 0 PROVE row' = NoSub
    <3>1. row = NoSub BY <2>5 DEF AgreeInv, RowIsOfLast
    <3>2. run[Nightly].desired = NoSub
      BY <1>1, <2>5 DEF RevokeInv, DesiredIsNamed, Had, AgreeInv, HeldIsLast
    <3> QED BY <1>10, <3>1, <3>2 DEF Revoke, Project, Matches, Unreachable, rowVars
  <2>6. LastApplied => settled
    <3>1. run[Nightly].step # "idle" BY <2>1 DEF Nightlies
    <3>2. \A o \in EventIds : job[o] \notin AtWork BY <1>1, <2>1, OneAtWork
    <3> QED BY <1>1, <3>2, LastIsSent DEF LastApplied, AtWork
  <2>7. RowIsOfLast'
    BY <1>1, <1>2, <1>3, <2>4, <2>5, <2>6 DEF AgreeInv, RowIsOfLast, LastApplied
  <2> QED BY <1>1, <1>2, <1>4, <2>2, <2>7 DEF AgreeInv
<1> QED BY <1>7, <1>8, <1>9, <1>10 DEF RunStep, Reconcile

LEMMA AgreeInvStep == ASSUME Undisturbed PROVE AgreeInv /\ [Next]_vars => AgreeInv'
<1> SUFFICES ASSUME AgreeInv, [Next]_vars PROVE AgreeInv' OBVIOUS
<1>1. CASE UNCHANGED vars
  <2>1. UNCHANGED <<stripeVars, inbox, job, row, eventAt, got, run>> /\ RevokeInv'
    BY <1>1, RevokeInvStep DEF vars, queueVars, rowVars, workVars, AgreeInv
  <2>2. EventsInOrder' /\ HeldIsLast' /\ UNCHANGED <<Last, LastAt, Sent, stripe, events>>
    BY <2>1, OrderStays DEF stripeVars
  <2> QED BY <2>1, <2>2
    DEF AgreeInv, RowIsOfLast, LastApplied, GotIsNow, NightlyReadsRow, StripeHolds
<1>2. Runs = {Nightly} BY DEF Undisturbed, Runs
<1> QED BY <1>1, <1>2, StripeAgrees, JobAgrees, NightlyAgrees DEF Next, StripeStep, JobStep, RunStep

LEMMA AgreeInvInit == Init => AgreeInv
<1> SUFFICES ASSUME Init PROVE AgreeInv OBVIOUS
<1>1. Len(events) = 0 /\ Sent = {} /\ Last = 0 /\ LastAt = 0
  BY DEF Init, Sent, Last, LastAt
<1>2. RevokeInv BY RevokeInvInit
<1>3. run[Nightly].step = "idle" BY EventsApart DEF Init, Idle
<1> QED BY <1>1, <1>2, <1>3
  DEF Init, AgreeInv, EventsInOrder, HeldIsLast, HeldAtStripe, Live, RowIsOfLast, LastApplied,
      GotIsNow, NightlyReadsRow, Nightlies

LEMMA AgreeInvHolds == ASSUME Undisturbed PROVE Spec => []AgreeInv
BY AgreeInvInit, AgreeInvStep, PTL DEF Spec

\* In whatever order, however often and after however many failed tries the events are
\* delivered, and however often they are replayed: once all are settled the row agrees
\* with Stripe.
THEOREM EventsMakeAgree == ASSUME Undisturbed PROVE Spec => []EventsAgree
<1>1. ASSUME AgreeInv PROVE EventsAgree
  <2> SUFFICES ASSUME \A e \in Sent : inbox[e] = "settled" PROVE Agrees BY DEF EventsAgree
  <2>1. TypeInv BY <1>1 DEF AgreeInv, RevokeInv
  <2>2. CASE Last = 0
    BY <1>1, <2>2 DEF AgreeInv, HeldIsLast, RowIsOfLast, Agrees, HeldAtStripe, NoSub, Live
  <2>3. CASE Last # 0
    <3>1. row = StripeHolds(events[Last].sub) /\ events[Last].sub \in Subs
      BY <1>1, <2>1, <2>3, LastIsSent DEF AgreeInv, RowIsOfLast, LastApplied
    <3> QED BY <1>1, <3>1 DEF AgreeInv, HeldIsLast, Agrees, HeldAtStripe, StripeHolds
  <2> QED BY <2>2, <2>3
<1> QED BY <1>1, AgreeInvHolds, PTL
=============================================================================
