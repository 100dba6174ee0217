--------------------------- MODULE DiscoveryWeek ---------------------------
(***************************************************************************)
(* The weekly cap of keyword discovery for one app (apps/api/src/keyword-  *)
(* discovery).  A plan (the weekly sweep, a refresh, an import) proposes   *)
(* phrases, reserves searches for some of them under a lock, spends an     *)
(* allowance, queues a job for each and takes the reservation back when    *)
(* that fails.  Users track and dismiss phrases and retention removes the  *)
(* ones nobody proposed for 60 days meanwhile.                             *)
(*                                                                         *)
(* Which phrases are due, their order and what the searches find are data: *)
(* a plan selects any of the phrases it read.  queuedAt is the instant of  *)
(* the plan that reserved, here the plan itself.  The model spans less     *)
(* than 60 days.                                                           *)
(***************************************************************************)
EXTENDS Naturals, FiniteSets

CONSTANTS Phrases,   \* keywords of the app's markets
          Plans,     \* calls of plan; each is made once
          NoPlan,    \* a row that is not queued
          Cap,       \* DISCOVERY_CHECKS_PER_RUN of the store
          MaxWeek    \* bound on the weeks

ASSUME WeekAssumption ==
  /\ IsFiniteSet(Phrases) /\ NoPlan \notin Plans
  /\ Cap \in Nat /\ MaxWeek \in Nat

VARIABLES
  week,       \* the week it is
  discovery,  \* the KeywordDiscovery rows
  plan,       \* the steps of the plans
  searches,   \* the jobs the queue was given: a phrase and the week of its plan
  escaped     \* whether something escaped the count: see WeeklyCap

weekVars == <<week, discovery, plan, searches, escaped>>

NoRow == [is |-> "none"]
Discovery(is, seen, by) == [is |-> is, seen |-> seen, queuedBy |-> by]
IsRow(k) == discovery[k].is # "none"
Unplanned == [step |-> "idle", week |-> 0, rows |-> {}]
PlanAt(p, step) == plan[p].step = step
PlanGoes(p, step) == plan' = [plan EXCEPT ![p].step = step]
PlanIsOver(p) == plan' = [plan EXCEPT ![p].step = "over", ![p].rows = {}]

\* Rows are of any age; none is queued.
WeekInit ==
  /\ week = 0
  /\ discovery \in [Phrases -> {NoRow} \cup {Discovery("open", seen, NoPlan) : seen \in BOOLEAN}]
  /\ plan = [p \in Plans |-> Unplanned]
  /\ searches = {} /\ escaped = FALSE

NextWeek ==
  /\ week < MaxWeek /\ week' = week + 1
  /\ UNCHANGED <<discovery, plan, searches, escaped>>
-----------------------------------------------------------------------------
(* A plan *)

\* The pool leaves out what is tracked and what was dismissed; a new row is not queued.
StorePool(p) ==
  /\ PlanAt(p, "idle")
  /\ plan' = [plan EXCEPT ![p].step = "read", ![p].week = week]
  /\ \E proposed \in SUBSET {k \in Phrases : discovery[k].is \in {"none", "open"}} :
       discovery' = [k \in Phrases |->
         IF k \notin proposed THEN discovery[k]
         ELSE IF IsRow(k) THEN [discovery[k] EXCEPT !.seen = TRUE]
         ELSE Discovery("open", TRUE, NoPlan)]
  /\ UNCHANGED <<week, searches, escaped>>

\* openRows, whether a plan proposed them now or long ago.
ReadOpen(p) ==
  /\ PlanAt(p, "read")
  /\ plan' = [plan EXCEPT ![p].step = "reserve",
                          ![p].rows = {k \in Phrases : discovery[k].is = "open"}]
  /\ UNCHANGED <<week, discovery, searches, escaped>>

\* Queued since the week of the plan began.
QueuedSince(k, w) ==
  IsRow(k) /\ discovery[k].queuedBy # NoPlan /\ plan[discovery[k].queuedBy].week >= w

\* Mutant of Taken: a plan skips its own week's count.
TakenBefore(p) == {k \in Phrases : QueuedSince(k, plan[p].week + 1)}
Taken(p) == {k \in Phrases : QueuedSince(k, plan[p].week)}

\* One transaction under the lock of the app.
ReserveChecks(p) ==
  /\ PlanAt(p, "reserve")
  /\ \E selected \in (SUBSET (plan[p].rows \ Taken(p))) \ {{}} :
       /\ Cardinality(Taken(p)) + Cardinality(selected) <= Cap
       /\ plan' = [plan EXCEPT ![p].step = "spend", ![p].rows = selected]
       /\ discovery' = [k \in Phrases |->
            IF k \in selected /\ IsRow(k) THEN [discovery[k] EXCEPT !.queuedBy = p]
            ELSE discovery[k]]
  /\ escaped' = (escaped \/ plan[p].week < week)
  /\ UNCHANGED <<week, searches>>

\* A job of the same phrase and week is not added twice.
ChecksOf(p) == {<<k, plan[p].week>> : k \in plan[p].rows}

EnqueueChecks(p) ==
  /\ PlanAt(p, "spend") /\ PlanIsOver(p)
  /\ searches' = searches \cup ChecksOf(p)
  /\ UNCHANGED <<week, discovery, escaped>>

\* A refresh has no allowance left, the queue is not reached, or its answer is lost.
EnqueueFails(p) ==
  /\ PlanAt(p, "spend") /\ PlanGoes(p, "release")
  /\ \/ UNCHANGED <<searches, escaped>>
     \/ searches' = searches \cup ChecksOf(p) /\ escaped' = TRUE
  /\ UNCHANGED <<week, discovery>>

\* Mutant of Reserved: whoever queued the row by now.
ReservedByAny(k, p) == IsRow(k) /\ k \in plan[p].rows
Reserved(k, p) == IsRow(k) /\ k \in plan[p].rows /\ discovery[k].queuedBy = p

ReleaseChecks(p) ==
  /\ PlanAt(p, "release") /\ PlanIsOver(p)
  /\ discovery' = [k \in Phrases |->
       IF Reserved(k, p) THEN [discovery[k] EXCEPT !.queuedBy = NoPlan] ELSE discovery[k]]
  /\ UNCHANGED <<week, searches, escaped>>

\* The app is delisted, nothing is selected, or the plan fails before it has reserved.  A
\* plan that dies later takes no further step: what it reserved stays.
PlanEnds(p) ==
  /\ PlanAt(p, "reserve") /\ PlanIsOver(p)
  /\ UNCHANGED <<week, discovery, searches, escaped>>
-----------------------------------------------------------------------------
(* Users and retention *)

RowBecomes(k, is) ==
  /\ discovery' = [discovery EXCEPT ![k].is = is]
  /\ UNCHANGED <<week, plan, searches, escaped>>

Dismiss(k) == discovery[k].is \in {"open", "tracked"} /\ RowBecomes(k, "dismissed")
TrackPhrase(k) == discovery[k].is = "open" /\ RowBecomes(k, "tracked")
UntrackPhrase(k) == discovery[k].is = "tracked" /\ RowBecomes(k, "open")

\* Mutant of MayPrune: by age alone.
IsUnseen(k) == discovery[k].is \in {"open", "tracked"} /\ ~discovery[k].seen
MayPrune(k) ==
  discovery[k].is \in {"open", "tracked"} /\ ~discovery[k].seen /\ ~QueuedSince(k, week)

\* pruneKeywordDiscoveries, one row at a time: the order does not matter.
PruneDiscovery(k) ==
  /\ MayPrune(k)
  /\ discovery' = [discovery EXCEPT ![k] = NoRow]
  /\ escaped' = (escaped \/ \E p \in Plans : PlanAt(p, "reserve") /\ k \in plan[p].rows)
  /\ UNCHANGED <<week, plan, searches>>

WeekNext ==
  \/ NextWeek
  \/ \E p \in Plans :
       \/ StorePool(p) \/ ReadOpen(p) \/ ReserveChecks(p) \/ EnqueueChecks(p)
       \/ EnqueueFails(p) \/ ReleaseChecks(p) \/ PlanEnds(p)
  \/ \E k \in Phrases : Dismiss(k) \/ TrackPhrase(k) \/ UntrackPhrase(k) \/ PruneDiscovery(k)

WeekSpec == WeekInit /\ [][WeekNext]_weekVars
-----------------------------------------------------------------------------
(* Types *)

DiscoveryType ==
  {NoRow} \cup [is : {"open", "tracked", "dismissed"}, seen : BOOLEAN, queuedBy : Plans \cup {NoPlan}]
PlanType == [step : {"idle", "read", "reserve", "spend", "release", "over"},
             week : 0..MaxWeek, rows : SUBSET Phrases]

\* Every variable holds a value of its type.
WeekTypeOK ==
  /\ week \in 0..MaxWeek
  /\ discovery \in [Phrases -> DiscoveryType]
  /\ plan \in [Plans -> PlanType]
  /\ searches \subseteq Phrases \X (0..MaxWeek)
  /\ escaped \in BOOLEAN
-----------------------------------------------------------------------------
(* Safety *)

\* "Each app gets at most 40 searches a week on the App Store and 20 on Google Play"
\* (docs/guides/keyword-discovery.mdx:35): plans of a week never queue more than the cap
\* together, however sweeps, refreshes, failures, plans that outlast their week and
\* retention overlap.  Three things escape the count and are left out: the queue took jobs
\* without an answer, a plan reserved after its week was over, or retention removed a row
\* that a plan had read and not reserved.
WeeklyCap == ~escaped =>
  \A w \in 0..MaxWeek : Cardinality({k \in Phrases : <<k, w>> \in searches}) <= Cap
=============================================================================
