----------------------------- MODULE CreativeRun -----------------------------
(***************************************************************************)
(* The creative analysis of one app (apps/api/src/audit) and the monthly   *)
(* allowance of AI calls it spends (apps/api/src/ai).  A request of the    *)
(* api reserves a call, writes the AuditInsight row and queues a job; the  *)
(* worker asks the model, counts the call and writes the result.  Other    *)
(* features spend from the same allowance within their request.  One       *)
(* action per awaited call or transaction.                                 *)
(*                                                                         *)
(* The row names its request by requestedAt, here the request itself.  A   *)
(* tick of the clock is longer than CREATIVE_RUN_TIMEOUT_MS.               *)
(***************************************************************************)
EXTENDS Naturals, FiniteSets

CONSTANTS Asks,          \* requests of the api; each reserves at most one call
          NoAsk,
          Limit,         \* aiCallsPerMonth of the plan
          RunAttempts,   \* CREATIVE_RUN_ATTEMPTS
          AbandonAfter,  \* ABANDONED_RESERVATION_MS
          MaxClock       \* bound on time

ASSUME RunAssumption == IsFiniteSet(Asks) /\ Limit \in Nat /\ RunAttempts \in Nat /\ MaxClock \in Nat

VARIABLES
  clock,
  ask,        \* the steps of the requests
  askedAt,    \* when each was made
  aiCall,     \* the status of the AiCall row of each
  insight,    \* the AuditInsight row, with the request whose result it shows
  job,        \* the creative analysis jobs of the queue
  givenBack,  \* history: calls that were released once
  uncounted   \* history: answered calls whose count the database did not take

runVars == <<clock, ask, askedAt, aiCall, insight, job, givenBack, uncounted>>

NoJob == [state |-> "none", left |-> 0, stalled |-> FALSE]
Asking(r, step) == ask[r] = step
AskGoes(r, step) == ask' = [ask EXCEPT ![r] = step]
JobIs(r, state) == job[r].state = state
JobGoes(r, state) == job' = [job EXCEPT ![r].state = state]

RunInit ==
  /\ clock = 0
  /\ ask = [r \in Asks |-> "new"] /\ askedAt = [r \in Asks |-> 0]
  /\ aiCall = [r \in Asks |-> "none"]
  /\ insight = [state |-> "none", request |-> NoAsk, result |-> NoAsk]
  /\ job = [r \in Asks |-> NoJob]
  /\ givenBack = {} /\ uncounted = {}

Tick ==
  /\ clock < MaxClock /\ clock' = clock + 1
  /\ UNCHANGED <<ask, askedAt, aiCall, insight, job, givenBack, uncounted>>
-----------------------------------------------------------------------------
(* The allowance *)

\* Mutant of Spent: calls that are still out are not looked at.
SpentCounted == {r \in Asks : aiCall[r] = "counted"}

\* spentIn: SPENDING_STATUSES
Spent == {r \in Asks : aiCall[r] \in {"reserved", "counted"}}

\* reserve, under the lock of the workspace.  The code asks the plan for the limit
\* before it takes the lock; here the plan stays the same for the month.  A plan
\* without a limit takes no lock and refuses nothing.
ReserveCall(r) ==
  /\ ask[r] \in {"reserve", "buy"}
  /\ IF Cardinality(Spent) < Limit
       THEN /\ aiCall' = [aiCall EXCEPT ![r] = "reserved"]
            /\ AskGoes(r, IF Asking(r, "reserve") THEN "store" ELSE "wait")
       ELSE UNCHANGED aiCall /\ AskGoes(r, "over")
  /\ UNCHANGED <<clock, askedAt, insight, job, givenBack, uncounted>>

\* settle to released; an error of the database is only logged.
GiveBack(calls) ==
  LET out == {r \in calls : aiCall[r] = "reserved"} IN
  \/ /\ aiCall' = [r \in Asks |-> IF r \in out THEN "released" ELSE aiCall[r]]
     /\ givenBack' = givenBack \cup out
  \/ UNCHANGED <<aiCall, givenBack>>

\* Mutant of MayCount: only a reserved call is counted.
StillReserved(r) == aiCall[r] = "reserved"

\* settle to counted, also of a call that was released meanwhile.
MayCount(r) == aiCall[r] # "counted"

Count(r) ==
  \/ /\ aiCall' = [aiCall EXCEPT ![r] = IF MayCount(r) THEN "counted" ELSE @]
     /\ UNCHANGED uncounted
  \/ UNCHANGED aiCall /\ uncounted' = uncounted \cup {r}

\* releaseAbandonedAiCalls of the nightly retention.
ReleaseAbandoned ==
  /\ GiveBack({r \in Asks : askedAt[r] + AbandonAfter <= clock})
  /\ UNCHANGED <<clock, ask, askedAt, insight, job, uncounted>>
-----------------------------------------------------------------------------
(* Requests *)

Active == insight.state \in {"queued", "running"}
Expired == askedAt[insight.request] < clock

\* The row is read; an unchanged listing reuses its result, an active run is answered.
Request(r) ==
  /\ Asking(r, "new")
  /\ askedAt' = [askedAt EXCEPT ![r] = clock]
  /\ \/ insight.state = "completed" /\ AskGoes(r, "over")
     \/ Active /\ ~Expired /\ AskGoes(r, "over")
     \/ ~(Active /\ ~Expired) /\ AskGoes(r, "reserve")
  /\ UNCHANGED <<clock, aiCall, insight, job, givenBack, uncounted>>

Store(r) ==
  /\ Asking(r, "store") /\ AskGoes(r, "add")
  /\ insight' = [insight EXCEPT !.state = "queued", !.request = r]
  /\ UNCHANGED <<clock, askedAt, aiCall, job, givenBack, uncounted>>

Add(r) ==
  /\ Asking(r, "add") /\ AskGoes(r, "over")
  /\ job' = [job EXCEPT ![r] = [state |-> "waiting", left |-> RunAttempts, stalled |-> FALSE]]
  /\ UNCHANGED <<clock, askedAt, aiCall, insight, givenBack, uncounted>>

\* The upsert or the add is answered by an error; it may have been done.
NotQueued(r) ==
  /\ ask[r] \in {"store", "add"} /\ AskGoes(r, "release")
  /\ \/ UNCHANGED <<insight, job>>
     \/ /\ Asking(r, "store") /\ UNCHANGED job
        /\ insight' = [insight EXCEPT !.state = "queued", !.request = r]
     \/ /\ Asking(r, "add") /\ UNCHANGED insight
        /\ job' = [job EXCEPT ![r] = [state |-> "waiting", left |-> RunAttempts, stalled |-> FALSE]]
  /\ UNCHANGED <<clock, askedAt, aiCall, givenBack, uncounted>>

ReleaseAsked(r) ==
  /\ Asking(r, "release") /\ AskGoes(r, "unqueue")
  /\ GiveBack({r})
  /\ UNCHANGED <<clock, askedAt, insight, job, uncounted>>

\* failUnqueued
Unqueue(r) ==
  /\ Asking(r, "unqueue") /\ AskGoes(r, "over")
  /\ \/ /\ insight.request = r /\ insight.state = "queued"
        /\ insight' = [insight EXCEPT !.state = "failed"]
     \/ UNCHANGED insight
  /\ UNCHANGED <<clock, askedAt, aiCall, job, givenBack, uncounted>>

AskDies(r) ==
  /\ ask[r] \notin {"new", "over"} /\ AskGoes(r, "over")
  /\ UNCHANGED <<clock, askedAt, aiCall, insight, job, givenBack, uncounted>>

\* spend: the other features, within their request.
Buy(r) ==
  /\ Asking(r, "new") /\ AskGoes(r, "buy")
  /\ askedAt' = [askedAt EXCEPT ![r] = clock]
  /\ UNCHANGED <<clock, aiCall, insight, job, givenBack, uncounted>>

\* The model answers, with something usable or not; an error gives the call back.
Bought(r) ==
  /\ Asking(r, "wait") /\ AskGoes(r, "over")
  /\ \/ Count(r) /\ UNCHANGED givenBack
     \/ GiveBack({r}) /\ UNCHANGED uncounted
  /\ UNCHANGED <<clock, askedAt, insight, job>>
-----------------------------------------------------------------------------
(* The worker *)

IsActiveRun(r) == insight.request = r /\ Active

\* start
StartRun(r) ==
  /\ JobIs(r, "waiting")
  /\ IF IsActiveRun(r)
       THEN JobGoes(r, "asking") /\ insight' = [insight EXCEPT !.state = "running"]
       ELSE JobGoes(r, "abandon") /\ UNCHANGED insight
  /\ UNCHANGED <<clock, ask, askedAt, aiCall, givenBack, uncounted>>

Abandon(r) ==
  /\ JobIs(r, "abandon") /\ JobGoes(r, "over")
  /\ GiveBack({r})
  /\ UNCHANGED <<clock, ask, askedAt, insight, uncounted>>

\* The attempt throws: another follows unless it was the last or the error is final.
AttemptFails(r) ==
  \/ job[r].left > 1 /\ job' = [job EXCEPT ![r].state = "waiting", ![r].left = @ - 1]
  \/ JobGoes(r, "fail")

\* observeReserved: the model does not answer, or refuses.
NoAnswer(r) ==
  /\ JobIs(r, "asking") /\ AttemptFails(r)
  /\ UNCHANGED <<clock, ask, askedAt, aiCall, insight, givenBack, uncounted>>

\* The answer is counted, also one that cannot be used.
Answered(r) ==
  /\ JobIs(r, "asking") /\ Count(r)
  /\ JobGoes(r, "record") \/ AttemptFails(r)
  /\ UNCHANGED <<clock, ask, askedAt, insight, givenBack>>

RecordRun(r) ==
  /\ JobIs(r, "record") /\ JobGoes(r, "over")
  /\ insight' = IF insight.request = r THEN [insight EXCEPT !.state = "completed", !.result = r] ELSE insight
  /\ UNCHANGED <<clock, ask, askedAt, aiCall, givenBack, uncounted>>

RecordFails(r) ==
  /\ JobIs(r, "record") /\ AttemptFails(r)
  /\ UNCHANGED <<clock, ask, askedAt, aiCall, insight, givenBack, uncounted>>

\* onFailed, after the last attempt; an error of the database is only logged.
FailRun(r) ==
  /\ JobIs(r, "fail")
  /\ \/ /\ JobGoes(r, "abandon")
        /\ insight' = IF IsActiveRun(r) THEN [insight EXCEPT !.state = "failed"] ELSE insight
     \/ JobGoes(r, "over") /\ UNCHANGED insight
  /\ UNCHANGED <<clock, ask, askedAt, aiCall, givenBack, uncounted>>

\* The worker dies: the queue runs a stalled job once more, then fails it, which the
\* handler takes for final or not.
Stall(r) ==
  /\ job[r].state \in {"asking", "record", "abandon"}
  /\ IF job[r].stalled
       THEN JobGoes(r, "fail") \/ JobGoes(r, "over")
       ELSE job' = [job EXCEPT ![r].state = "waiting", ![r].stalled = TRUE]
  /\ UNCHANGED <<clock, ask, askedAt, aiCall, insight, givenBack, uncounted>>

RunNext ==
  \/ Tick \/ ReleaseAbandoned
  \/ \E r \in Asks :
       \/ Request(r) \/ Buy(r) \/ ReserveCall(r) \/ Store(r) \/ Add(r) \/ NotQueued(r)
       \/ ReleaseAsked(r) \/ Unqueue(r) \/ AskDies(r) \/ Bought(r)
       \/ StartRun(r) \/ Abandon(r) \/ NoAnswer(r) \/ Answered(r)
       \/ RecordRun(r) \/ RecordFails(r) \/ FailRun(r) \/ Stall(r)

RunSpec == RunInit /\ [][RunNext]_runVars
-----------------------------------------------------------------------------
(* Types *)

JobType == [state : {"none", "waiting", "asking", "record", "abandon", "fail", "over"},
            left : 0..RunAttempts, stalled : BOOLEAN]
InsightType == [state : {"none", "queued", "running", "completed", "failed"},
                request : Asks \cup {NoAsk}, result : Asks \cup {NoAsk}]

\* Every variable holds a value of its type.
RunTypeOK ==
  /\ clock \in 0..MaxClock
  /\ ask \in [Asks -> {"new", "reserve", "buy", "store", "add", "release", "unqueue", "wait", "over"}]
  /\ askedAt \in [Asks -> 0..MaxClock]
  /\ aiCall \in [Asks -> {"none", "reserved", "counted", "released"}]
  /\ insight \in InsightType /\ job \in [Asks -> JobType]
  /\ givenBack \subseteq Asks /\ uncounted \subseteq Asks
-----------------------------------------------------------------------------
(* Safety *)

\* A month's calls exceed the allowance by no more than the calls that were answered
\* after they had been given back: neither requests that race, nor retries, nor a
\* failing queue or database spend a call that was not reserved.
AllowanceHolds ==
  Cardinality(Spent) <= Limit + Cardinality({r \in givenBack : aiCall[r] = "counted"})

\* A finished analysis shows the result of the request the row names, and that result
\* was paid for: a run that was replaced never finishes the newer one, also when it is
\* slower, retried or stalled, and unless the database refused to count it, its call is
\* counted, also when the call had been given back before.
ShownIsPaid == insight.state = "completed" =>
  /\ insight.result = insight.request
  /\ insight.request \notin uncounted => aiCall[insight.request] = "counted"
=============================================================================
