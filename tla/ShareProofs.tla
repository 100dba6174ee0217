----------------------------- MODULE ShareProofs -----------------------------
(***************************************************************************)
(* What CreativeRun promises of the monthly AI calls, ProxyLease of an     *)
(* egress endpoint, DiscoveryWeek of the searches of a week and            *)
(* QuotaAdmission of the room in a plan, for any number of requests, jobs, *)
(* plans and calls: each shares something out, and what is counted late or *)
(* given back late must not be spent twice.                                *)
(***************************************************************************)
EXTENDS CreativeRun, ProxyLease, DiscoveryWeek, QuotaAdmission, FiniteSetTheorems, TLAPS

-----------------------------------------------------------------------------
(* The creative analysis: types *)

LEMMA AskTypes ==
  ASSUME RunTypeOK, NEW r \in Asks, NEW s,
         s \in {"new", "reserve", "buy", "store", "add", "release", "unqueue", "wait", "over"},
         AskGoes(r, s)
  PROVE  /\ ask' \in [Asks -> {"new", "reserve", "buy", "store", "add", "release", "unqueue", "wait", "over"}]
         /\ ask'[r] = s /\ \A q \in Asks \ {r} : ask'[q] = ask[q]
BY DEF RunTypeOK, AskGoes

LEMMA JobTypes ==
  ASSUME RunTypeOK, NEW r \in Asks, NEW s,
         s \in {"none", "waiting", "asking", "record", "abandon", "fail", "over"},
         JobGoes(r, s)
  PROVE  /\ job' \in [Asks -> JobType]
         /\ job'[r].state = s /\ \A q \in Asks \ {r} : job'[q] = job[q]
<1>1. job[r] \in JobType BY DEF RunTypeOK
<1>2. [job[r] EXCEPT !.state = s] \in JobType BY <1>1 DEF JobType
<1>3. job' = [job EXCEPT ![r] = [job[r] EXCEPT !.state = s]] BY DEF JobGoes
<1> QED BY <1>1, <1>2, <1>3 DEF RunTypeOK, JobType

LEMMA JobQueued ==
  ASSUME RunTypeOK, NEW r \in Asks,
         job' = [job EXCEPT ![r] = [state |-> "waiting", left |-> RunAttempts, stalled |-> FALSE]]
  PROVE  /\ job' \in [Asks -> JobType]
         /\ job'[r].state = "waiting" /\ \A q \in Asks \ {r} : job'[q] = job[q]
BY RunAssumption DEF RunTypeOK, JobType

LEMMA AttemptTypes ==
  ASSUME RunTypeOK, NEW r \in Asks, AttemptFails(r)
  PROVE  /\ job' \in [Asks -> JobType]
         /\ job'[r].state \in {"waiting", "fail"} /\ \A q \in Asks \ {r} : job'[q] = job[q]
<1>1. CASE JobGoes(r, "fail") BY <1>1, JobTypes
<1>2. CASE job[r].left > 1 /\ job' = [job EXCEPT ![r].state = "waiting", ![r].left = @ - 1]
  <2>1. job[r] \in JobType BY DEF RunTypeOK
  <2>2. job' = [job EXCEPT ![r] = [job[r] EXCEPT !.state = "waiting", !.left = job[r].left - 1]]
    BY <1>2
  <2>3. [job[r] EXCEPT !.state = "waiting", !.left = job[r].left - 1] \in JobType
    <3>1. job[r].left - 1 \in 0..RunAttempts BY <1>2, <2>1, RunAssumption DEF JobType
    <3> QED BY <2>1, <3>1 DEF JobType
  <2> QED BY <2>1, <2>2, <2>3 DEF RunTypeOK, JobType
<1> QED BY <1>1, <1>2 DEF AttemptFails
-----------------------------------------------------------------------------
(* The creative analysis: what a call that is counted was before *)

CallType == {"none", "reserved", "counted", "released"}

\* A call is reserved before anything is done with it.
CallIsMade == \A r \in Asks :
  /\ ask[r] \in {"new", "reserve", "buy"} => aiCall[r] = "none" /\ job[r].state = "none"
  /\ job[r].state # "none" \/ ask[r] \in {"store", "add", "wait"} => aiCall[r] # "none"

ReleasedWasGiven == \A r \in Asks : aiCall[r] = "released" => r \in givenBack

RecordIsPaid == \A r \in Asks :
  job[r].state = "record" => aiCall[r] = "counted" \/ r \in uncounted

NamesItsRequest == insight.state # "none" => insight.request \in Asks

CountedBack == {r \in givenBack : aiCall[r] = "counted"}
ShareInv == /\ RunTypeOK /\ CallIsMade /\ ReleasedWasGiven /\ RecordIsPaid /\ NamesItsRequest
            /\ ShownIsPaid /\ AllowanceHolds

\* A step that counts or gives back calls, and makes none.
CallsMove ==
  /\ aiCall' \in [Asks -> CallType] /\ givenBack' \subseteq Asks /\ uncounted' \subseteq Asks
  /\ uncounted \subseteq uncounted'
  /\ \A r \in Asks : /\ aiCall[r] = "counted" => aiCall'[r] = "counted"
                     /\ aiCall'[r] = "none" <=> aiCall[r] = "none"
  /\ ReleasedWasGiven' /\ AllowanceHolds'

LEMMA Finite ==
  ASSUME RunTypeOK
  PROVE  /\ IsFiniteSet(Spent) /\ IsFiniteSet(CountedBack)
         /\ Cardinality(Spent) \in Nat /\ Cardinality(CountedBack) \in Nat
<1>1. Spent \subseteq Asks /\ CountedBack \subseteq Asks BY DEF Spent, CountedBack, RunTypeOK
<1> QED BY <1>1, RunAssumption, FS_Subset, FS_CardinalityType

LEMMA AllowanceIs ==
  /\ AllowanceHolds <=> Cardinality(Spent) <= Limit + Cardinality(CountedBack)
  /\ AllowanceHolds' <=> Cardinality(Spent') <= Limit + Cardinality(CountedBack')
BY DEF AllowanceHolds, CountedBack

LEMMA CallsWait ==
  ASSUME ShareInv, UNCHANGED <<aiCall, givenBack, uncounted>>
  PROVE  CallsMove
BY DEF ShareInv, CallsMove, RunTypeOK, CallType, ReleasedWasGiven, AllowanceHolds, Spent

LEMMA GiveBackMoves ==
  ASSUME ShareInv, NEW calls \in SUBSET Asks, GiveBack(calls), UNCHANGED uncounted
  PROVE  CallsMove
<1> DEFINE out == {r \in calls : aiCall[r] = "reserved"}
<1>1. CASE UNCHANGED <<aiCall, givenBack>> BY <1>1, CallsWait
<1>2. CASE /\ aiCall' = [r \in Asks |-> IF r \in out THEN "released" ELSE aiCall[r]]
           /\ givenBack' = givenBack \cup out
  <2>1. Spent' \subseteq Spent /\ CountedBack' = CountedBack
    BY <1>2 DEF Spent, CountedBack, ShareInv, RunTypeOK
  <2>2. Cardinality(Spent') <= Cardinality(Spent) /\ Cardinality(Spent') \in Nat
    BY <2>1, Finite, FS_Subset, FS_CardinalityType DEF ShareInv
  <2>3. AllowanceHolds'
    BY <2>1, <2>2, Finite, AllowanceIs, RunAssumption DEF ShareInv
  <2>4. ReleasedWasGiven' BY <1>2 DEF ShareInv, ReleasedWasGiven, RunTypeOK
  <2>5. aiCall' \in [Asks -> CallType] BY <1>2 DEF ShareInv, RunTypeOK, CallType
  <2> QED BY <1>2, <2>3, <2>4, <2>5 DEF CallsMove, ShareInv, RunTypeOK
<1> QED BY <1>1, <1>2 DEF GiveBack

LEMMA CountMoves ==
  ASSUME ShareInv, NEW r \in Asks, Count(r), UNCHANGED givenBack, aiCall[r] # "none"
  PROVE  CallsMove /\ (aiCall'[r] = "counted" \/ r \in uncounted')
<1>1. CASE UNCHANGED aiCall /\ uncounted' = uncounted \cup {r}
  <2>1. ReleasedWasGiven' /\ AllowanceHolds'
    BY <1>1 DEF ShareInv, ReleasedWasGiven, AllowanceHolds, Spent
  <2> QED BY <1>1, <2>1 DEF CallsMove, ShareInv, RunTypeOK, CallType
<1>2. CASE aiCall' = [aiCall EXCEPT ![r] = IF MayCount(r) THEN "counted" ELSE @] /\ UNCHANGED uncounted
  <2>1. aiCall'[r] = "counted" /\ \A q \in Asks \ {r} : aiCall'[q] = aiCall[q]
    BY <1>2 DEF MayCount, ShareInv, RunTypeOK
  <2>2. aiCall' \in [Asks -> CallType] BY <1>2 DEF ShareInv, RunTypeOK, CallType, MayCount
  <2>3. ReleasedWasGiven' BY <2>1 DEF ShareInv, ReleasedWasGiven
  <2>4. AllowanceHolds'
    <3>1. CASE aiCall[r] \in {"reserved", "counted"}
      <4>1. Spent' = Spent /\ CountedBack \subseteq CountedBack'
        BY <2>1, <3>1 DEF Spent, CountedBack, ShareInv, RunTypeOK
      <4>2. CountedBack' \subseteq Asks BY DEF CountedBack, ShareInv, RunTypeOK
      <4>3. Cardinality(CountedBack) <= Cardinality(CountedBack')
            /\ Cardinality(CountedBack') \in Nat
        BY <4>1, <4>2, RunAssumption, FS_Subset, FS_CardinalityType
      <4> QED BY <4>1, <4>3, Finite, AllowanceIs, RunAssumption DEF ShareInv
    <3>2. CASE aiCall[r] = "released"
      <4>1. r \in givenBack /\ r \notin Spent /\ r \notin CountedBack
        BY <3>2 DEF ShareInv, ReleasedWasGiven, Spent, CountedBack
      <4>2. Spent' = Spent \cup {r} /\ CountedBack' = CountedBack \cup {r}
        BY <2>1, <4>1 DEF Spent, CountedBack, ShareInv, RunTypeOK
      <4>3. /\ Cardinality(Spent') = Cardinality(Spent) + 1
            /\ Cardinality(CountedBack') = Cardinality(CountedBack) + 1
        BY <4>1, <4>2, Finite, FS_AddElement DEF ShareInv
      <4> QED BY <4>3, Finite, AllowanceIs, RunAssumption DEF ShareInv
    <3> QED BY <3>1, <3>2 DEF ShareInv, RunTypeOK
  <2> QED BY <1>2, <2>1, <2>2, <2>3, <2>4 DEF CallsMove, ShareInv, RunTypeOK
<1> QED BY <1>1, <1>2 DEF Count
-----------------------------------------------------------------------------
(* The creative analysis: every step *)

AskSteps == {"new", "reserve", "buy", "store", "add", "release", "unqueue", "wait", "over"}

LEMMA StepKeeps ==
  ASSUME ShareInv, CallsMove,
         clock' \in 0..MaxClock, askedAt' \in [Asks -> 0..MaxClock],
         ask' \in [Asks -> AskSteps], insight' \in InsightType, job' \in [Asks -> JobType],
         \A q \in Asks :
           /\ ask'[q] \in {"new", "reserve", "buy"} =>
                ask[q] \in {"new", "reserve", "buy"} /\ job'[q].state = job[q].state
           /\ job'[q].state # "none" \/ ask'[q] \in {"store", "add", "wait"} => aiCall[q] # "none"
           /\ job'[q].state = "record" =>
                job[q].state = "record" \/ aiCall'[q] = "counted" \/ q \in uncounted',
         insight' = insight \/ insight'.request \in Asks,
         insight'.state = "completed" =>
           insight' = insight \/ (/\ insight'.result = insight'.request /\ insight'.request \in Asks
                                  /\ job[insight'.request].state = "record")
  PROVE  ShareInv'
<1>1. RunTypeOK' BY DEF CallsMove, RunTypeOK, AskSteps, CallType
<1>2. CallIsMade'
  BY DEF ShareInv, CallIsMade, CallsMove
<1>3. RecordIsPaid' BY DEF ShareInv, RecordIsPaid, CallsMove
<1>4. ShownIsPaid'
  <2> SUFFICES ASSUME insight'.state = "completed"
               PROVE  /\ insight'.result = insight'.request
                      /\ insight'.request \notin uncounted' => aiCall'[insight'.request] = "counted"
    BY DEF ShownIsPaid
  <2>1. CASE insight' = insight
    BY <2>1 DEF ShareInv, ShownIsPaid, NamesItsRequest, CallsMove
  <2>2. CASE /\ insight'.result = insight'.request /\ insight'.request \in Asks
             /\ job[insight'.request].state = "record"
    BY <2>2 DEF ShareInv, RecordIsPaid, CallsMove
  <2> QED BY <2>1, <2>2
<1>5. NamesItsRequest' BY DEF ShareInv, NamesItsRequest
<1> QED BY <1>1, <1>2, <1>3, <1>4, <1>5 DEF ShareInv, CallsMove

LEMMA ReserveKeepsRun ==
  ASSUME ShareInv, NEW r \in Asks, ReserveCall(r)
  PROVE  ShareInv'
<1>1. ask[r] \in {"reserve", "buy"} /\ aiCall[r] = "none" /\ job[r].state = "none"
  BY DEF ReserveCall, ShareInv, CallIsMade
<1>2. UNCHANGED <<clock, askedAt, insight, job, givenBack, uncounted>> BY DEF ReserveCall
<1>3. CASE UNCHANGED aiCall /\ AskGoes(r, "over")
  <2>1. CallsMove BY <1>2, <1>3, CallsWait
  <2>2. ask' \in [Asks -> AskSteps] /\ ask'[r] = "over" /\ \A q \in Asks \ {r} : ask'[q] = ask[q]
    BY <1>3, AskTypes DEF ShareInv, AskSteps
  <2> QED BY <1>2, <2>1, <2>2, StepKeeps DEF ShareInv, RunTypeOK, CallIsMade
<1>4. CASE /\ Cardinality(Spent) < Limit /\ aiCall' = [aiCall EXCEPT ![r] = "reserved"]
           /\ AskGoes(r, IF Asking(r, "reserve") THEN "store" ELSE "wait")
  <2>1. PICK s \in {"store", "wait"} : AskGoes(r, s) BY <1>4
  <2>2. ask' \in [Asks -> AskSteps] /\ ask'[r] = s /\ \A q \in Asks \ {r} : ask'[q] = ask[q]
    BY <2>1, AskTypes DEF ShareInv, AskSteps
  <2>3. aiCall' \in [Asks -> CallType] /\ aiCall'[r] = "reserved"
        /\ \A q \in Asks \ {r} : aiCall'[q] = aiCall[q]
    BY <1>4 DEF ShareInv, RunTypeOK, CallType
  <2>4. RunTypeOK' BY <1>2, <2>2, <2>3 DEF ShareInv, RunTypeOK, AskSteps, CallType
  <2>5. CallIsMade' BY <1>2, <2>1, <2>2, <2>3 DEF ShareInv, CallIsMade
  <2>6. ReleasedWasGiven' BY <1>2, <2>3 DEF ShareInv, ReleasedWasGiven
  <2>7. RecordIsPaid' BY <1>1, <1>2, <2>3 DEF ShareInv, RecordIsPaid
  <2>8. NamesItsRequest' BY <1>2 DEF ShareInv, NamesItsRequest
  <2>9. ShownIsPaid'
    <3>1. \A q \in Asks : aiCall[q] = "counted" => aiCall'[q] = "counted" BY <1>1, <2>3
    <3> QED BY <1>2, <3>1 DEF ShareInv, ShownIsPaid, NamesItsRequest
  <2>10. AllowanceHolds'
    <3>1. Spent' = Spent \cup {r} /\ r \notin Spent /\ CountedBack' = CountedBack
      BY <1>1, <1>2, <2>3 DEF Spent, CountedBack, ShareInv, RunTypeOK
    <3>2. Cardinality(Spent') = Cardinality(Spent) + 1
      BY <3>1, Finite, FS_AddElement DEF ShareInv
    <3> QED BY <1>4, <3>1, <3>2, Finite, AllowanceIs, RunAssumption DEF ShareInv
  <2> QED BY <2>4, <2>5, <2>6, <2>7, <2>8, <2>9, <2>10 DEF ShareInv
<1> QED BY <1>3, <1>4 DEF ReserveCall

\* Steps of a request that leave the jobs and the calls alone.
LEMMA RequestKeeps ==
  ASSUME ShareInv, NEW r \in Asks,
         Request(r) \/ Buy(r) \/ Store(r) \/ Unqueue(r) \/ AskDies(r) \/ NotQueued(r) \/ Add(r)
  PROVE  ShareInv'
<1>1. CallsMove
  <2>1. UNCHANGED <<aiCall, givenBack, uncounted>>
    BY DEF Request, Buy, Store, Unqueue, AskDies, NotQueued, Add
  <2> QED BY <2>1, CallsWait
<1>2. RunTypeOK BY DEF ShareInv
<1>3. clock' \in 0..MaxClock /\ askedAt' \in [Asks -> 0..MaxClock]
  BY <1>2 DEF RunTypeOK, Request, Buy, Store, Unqueue, AskDies, NotQueued, Add
<1>4. PICK s \in AskSteps : AskGoes(r, s) /\ (s \in {"reserve", "buy"} => ask[r] = "new")
                            /\ (s = "add" => ask[r] = "store") /\ s \notin {"new", "store", "wait"}
  BY DEF Request, Buy, Store, Unqueue, AskDies, NotQueued, Add, Asking, AskSteps
<1>5. ask' \in [Asks -> AskSteps] /\ ask'[r] = s /\ \A q \in Asks \ {r} : ask'[q] = ask[q]
  BY <1>2, <1>4, AskTypes DEF AskSteps
<1>6. /\ insight' \in InsightType /\ (insight' = insight \/ insight'.request \in Asks)
      /\ insight'.state = "completed" => insight' = insight
  <2>1. insight \in InsightType BY <1>2 DEF RunTypeOK
  <2>2. CASE UNCHANGED insight BY <2>1, <2>2
  <2>3. CASE insight' = [insight EXCEPT !.state = "queued", !.request = r]
    BY <2>1, <2>3 DEF InsightType
  <2>4. CASE insight.request = r /\ insight' = [insight EXCEPT !.state = "failed"]
    BY <2>1, <2>4 DEF InsightType
  <2> QED BY <2>2, <2>3, <2>4 DEF Request, Buy, Store, Unqueue, AskDies, NotQueued, Add
<1>7. /\ job' \in [Asks -> JobType]
      /\ \A q \in Asks : job'[q] = job[q] \/ (q = r /\ ask[r] = "add" /\ job'[q].state = "waiting")
  <2>1. CASE UNCHANGED job BY <1>2, <2>1 DEF RunTypeOK
  <2>2. CASE ask[r] = "add"
             /\ job' = [job EXCEPT ![r] = [state |-> "waiting", left |-> RunAttempts, stalled |-> FALSE]]
    BY <1>2, <2>2, JobQueued
  <2> QED BY <2>1, <2>2 DEF Request, Buy, Store, Unqueue, AskDies, NotQueued, Add, Asking
<1>8. \A q \in Asks :
        /\ ask'[q] \in {"new", "reserve", "buy"} =>
             ask[q] \in {"new", "reserve", "buy"} /\ job'[q].state = job[q].state
        /\ job'[q].state # "none" \/ ask'[q] \in {"store", "add", "wait"} => aiCall[q] # "none"
        /\ job'[q].state = "record" =>
             job[q].state = "record" \/ aiCall'[q] = "counted" \/ q \in uncounted'
  BY <1>4, <1>5, <1>7 DEF ShareInv, CallIsMade
<1> QED BY <1>1, <1>3, <1>5, <1>6, <1>7, <1>8, StepKeeps

\* Steps that give a call back or count it.
LEMMA CallKeeps ==
  ASSUME ShareInv, NEW r \in Asks, Bought(r) \/ ReleaseAsked(r) \/ Abandon(r) \/ Answered(r)
  PROVE  ShareInv'
<1>1. RunTypeOK /\ {r} \in SUBSET Asks BY DEF ShareInv
<1>2. clock' \in 0..MaxClock /\ askedAt' \in [Asks -> 0..MaxClock] /\ insight' \in InsightType
      /\ insight' = insight
  BY <1>1 DEF RunTypeOK, Bought, ReleaseAsked, Abandon, Answered
<1>3. CASE Bought(r) \/ ReleaseAsked(r)
  <2>1. PICK s \in {"over", "unqueue"} : AskGoes(r, s)
    BY <1>3 DEF Bought, ReleaseAsked
  <2>2. ask' \in [Asks -> AskSteps] /\ ask'[r] = s /\ \A q \in Asks \ {r} : ask'[q] = ask[q]
    BY <1>1, <2>1, AskTypes DEF AskSteps
  <2>3. UNCHANGED job /\ job \in [Asks -> JobType] BY <1>1, <1>3 DEF Bought, ReleaseAsked, RunTypeOK
  <2>4. CallsMove
    <3>1. CASE GiveBack({r}) /\ UNCHANGED uncounted BY <1>1, <3>1, GiveBackMoves
    <3>2. CASE Bought(r) /\ Count(r) /\ UNCHANGED givenBack
      <4>1. aiCall[r] # "none" BY <3>2 DEF Bought, Asking, ShareInv, CallIsMade
      <4> QED BY <3>2, <4>1, CountMoves
    <3> QED BY <1>3, <3>1, <3>2 DEF Bought, ReleaseAsked
  <2>5. \A q \in Asks :
        /\ ask'[q] \in {"new", "reserve", "buy"} =>
             ask[q] \in {"new", "reserve", "buy"} /\ job'[q].state = job[q].state
        /\ job'[q].state # "none" \/ ask'[q] \in {"store", "add", "wait"} => aiCall[q] # "none"
        /\ job'[q].state = "record" =>
             job[q].state = "record" \/ aiCall'[q] = "counted" \/ q \in uncounted'
    BY <2>1, <2>2, <2>3 DEF ShareInv, CallIsMade
  <2> QED BY <1>2, <2>2, <2>3, <2>4, <2>5, StepKeeps
<1>4. CASE Abandon(r)
  <2>1. UNCHANGED ask /\ ask \in [Asks -> AskSteps] /\ job[r].state = "abandon"
    BY <1>1, <1>4 DEF Abandon, RunTypeOK, AskSteps, JobIs
  <2>2. job' \in [Asks -> JobType] /\ job'[r].state = "over" /\ \A q \in Asks \ {r} : job'[q] = job[q]
    BY <1>1, <1>4, JobTypes DEF Abandon
  <2>3. CallsMove BY <1>1, <1>4, GiveBackMoves DEF Abandon
  <2>5. \A q \in Asks :
        /\ ask'[q] \in {"new", "reserve", "buy"} =>
             ask[q] \in {"new", "reserve", "buy"} /\ job'[q].state = job[q].state
        /\ job'[q].state # "none" \/ ask'[q] \in {"store", "add", "wait"} => aiCall[q] # "none"
        /\ job'[q].state = "record" =>
             job[q].state = "record" \/ aiCall'[q] = "counted" \/ q \in uncounted'
    BY <2>1, <2>2 DEF ShareInv, CallIsMade
  <2> QED BY <1>2, <2>1, <2>2, <2>3, <2>5, StepKeeps
<1>5. CASE Answered(r)
  <2>1. UNCHANGED ask /\ ask \in [Asks -> AskSteps] /\ job[r].state = "asking"
    BY <1>1, <1>5 DEF Answered, RunTypeOK, AskSteps, JobIs
  <2>2. JobGoes(r, "record") \/ AttemptFails(r) BY <1>5 DEF Answered
  <2>3. job' \in [Asks -> JobType] /\ job'[r].state \in {"record", "waiting", "fail"}
        /\ \A q \in Asks \ {r} : job'[q] = job[q]
    BY <1>1, <2>2, JobTypes, AttemptTypes
  <2>4. CallsMove /\ (aiCall'[r] = "counted" \/ r \in uncounted')
    <3>1. aiCall[r] # "none" BY <2>1 DEF ShareInv, CallIsMade
    <3> QED BY <1>5, <3>1, CountMoves DEF Answered
  <2>5. \A q \in Asks :
        /\ ask'[q] \in {"new", "reserve", "buy"} =>
             ask[q] \in {"new", "reserve", "buy"} /\ job'[q].state = job[q].state
        /\ job'[q].state # "none" \/ ask'[q] \in {"store", "add", "wait"} => aiCall[q] # "none"
        /\ job'[q].state = "record" =>
             job[q].state = "record" \/ aiCall'[q] = "counted" \/ q \in uncounted'
    BY <2>1, <2>3, <2>4 DEF ShareInv, CallIsMade
  <2> QED BY <1>2, <2>1, <2>3, <2>4, <2>5, StepKeeps
<1> QED BY <1>3, <1>4, <1>5

\* Steps of the worker that leave the calls alone.
LEMMA WorkerKeeps ==
  ASSUME ShareInv, NEW r \in Asks,
         StartRun(r) \/ NoAnswer(r) \/ RecordRun(r) \/ RecordFails(r) \/ FailRun(r) \/ Stall(r)
  PROVE  ShareInv'
<1>1. CallsMove
  <2>1. UNCHANGED <<aiCall, givenBack, uncounted>>
    BY DEF StartRun, NoAnswer, RecordRun, RecordFails, FailRun, Stall
  <2> QED BY <2>1, CallsWait
<1>2. RunTypeOK BY DEF ShareInv
<1>3. /\ clock' \in 0..MaxClock /\ askedAt' \in [Asks -> 0..MaxClock]
      /\ UNCHANGED ask /\ ask' \in [Asks -> AskSteps]
  BY <1>2 DEF RunTypeOK, AskSteps, StartRun, NoAnswer, RecordRun, RecordFails, FailRun, Stall
<1>4. job[r].state # "none"
  BY DEF JobIs, StartRun, NoAnswer, RecordRun, RecordFails, FailRun, Stall
<1> DEFINE JobMoved ==
             /\ job' \in [Asks -> JobType] /\ \A q \in Asks \ {r} : job'[q] = job[q]
             /\ job'[r].state \in {"waiting", "asking", "abandon", "fail", "over"}
<1>5. JobMoved
  <2>1. ASSUME NEW s \in {"asking", "abandon", "fail", "over"}, JobGoes(r, s) PROVE JobMoved
    BY <1>2, <2>1, JobTypes
  <2>2. ASSUME AttemptFails(r) PROVE JobMoved BY <1>2, <2>2, AttemptTypes
  <2>3. ASSUME job' = [job EXCEPT ![r].state = "waiting", ![r].stalled = TRUE] PROVE JobMoved
    <3>1. job[r] \in JobType BY <1>2 DEF RunTypeOK
    <3>2. job' = [job EXCEPT ![r] = [job[r] EXCEPT !.state = "waiting", !.stalled = TRUE]] BY <2>3
    <3>3. [job[r] EXCEPT !.state = "waiting", !.stalled = TRUE] \in JobType BY <3>1 DEF JobType
    <3> QED BY <1>2, <3>1, <3>2, <3>3 DEF RunTypeOK, JobType
  <2> QED BY <2>1, <2>2, <2>3 DEF StartRun, NoAnswer, RecordRun, RecordFails, FailRun, Stall
<1>6. /\ insight' \in InsightType /\ (insight' = insight \/ insight'.request \in Asks)
      /\ insight'.state = "completed" =>
           insight' = insight \/ (/\ insight'.result = insight'.request /\ insight'.request \in Asks
                                  /\ job[insight'.request].state = "record")
  <2>1. insight \in InsightType BY <1>2 DEF RunTypeOK
  <2>2. CASE UNCHANGED insight BY <2>1, <2>2
  <2>3. CASE insight.request = r /\ insight' = [insight EXCEPT !.state = "running"]
    BY <2>1, <2>3 DEF InsightType
  <2>4. CASE insight.request = r /\ insight' = [insight EXCEPT !.state = "failed"]
    BY <2>1, <2>4 DEF InsightType
  <2>5. CASE /\ insight.request = r /\ job[r].state = "record"
             /\ insight' = [insight EXCEPT !.state = "completed", !.result = r]
    BY <2>1, <2>5 DEF InsightType
  <2> QED BY <2>2, <2>3, <2>4, <2>5
          DEF StartRun, NoAnswer, RecordRun, RecordFails, FailRun, Stall, IsActiveRun, JobIs
<1>7. \A q \in Asks :
        /\ ask'[q] \in {"new", "reserve", "buy"} =>
             ask[q] \in {"new", "reserve", "buy"} /\ job'[q].state = job[q].state
        /\ job'[q].state # "none" \/ ask'[q] \in {"store", "add", "wait"} => aiCall[q] # "none"
        /\ job'[q].state = "record" =>
             job[q].state = "record" \/ aiCall'[q] = "counted" \/ q \in uncounted'
  BY <1>3, <1>4, <1>5 DEF ShareInv, CallIsMade
<1> QED BY <1>1, <1>3, <1>5, <1>6, <1>7, StepKeeps

LEMMA ShareStep ==
  ASSUME ShareInv, [RunNext]_runVars
  PROVE  ShareInv'
<1>1. RunTypeOK BY DEF ShareInv
<1>2. CASE UNCHANGED runVars
  <2>1. CallsMove BY <1>2, CallsWait DEF runVars
  <2> QED BY <1>1, <1>2, <2>1, StepKeeps DEF runVars, RunTypeOK, AskSteps, ShareInv, CallIsMade
<1>3. CASE Tick
  <2>1. CallsMove BY <1>3, CallsWait DEF Tick
  <2>2. clock' \in 0..MaxClock BY <1>1, <1>3, RunAssumption DEF Tick, RunTypeOK
  <2> QED BY <1>1, <1>3, <2>1, <2>2, StepKeeps DEF Tick, RunTypeOK, AskSteps, ShareInv, CallIsMade
<1>4. CASE ReleaseAbandoned
  <2>1. {r \in Asks : askedAt[r] + AbandonAfter <= clock} \in SUBSET Asks OBVIOUS
  <2>2. CallsMove BY <1>4, <2>1, GiveBackMoves DEF ReleaseAbandoned
  <2> QED BY <1>1, <1>4, <2>2, StepKeeps DEF ReleaseAbandoned, RunTypeOK, AskSteps, ShareInv, CallIsMade
<1> QED BY <1>2, <1>3, <1>4, ReserveKeepsRun, RequestKeeps, CallKeeps, WorkerKeeps DEF RunNext

LEMMA ShareStart == RunInit => ShareInv
<1> SUFFICES ASSUME RunInit PROVE ShareInv OBVIOUS
<1>1. NoJob \in JobType BY RunAssumption DEF NoJob, JobType
<1>2. clock \in 0..MaxClock /\ 0 \in 0..MaxClock BY RunAssumption DEF RunInit
<1>3. RunTypeOK BY <1>1, <1>2 DEF RunInit, RunTypeOK, InsightType
<1>4. CallIsMade /\ ReleasedWasGiven /\ RecordIsPaid
  BY DEF RunInit, CallIsMade, ReleasedWasGiven, RecordIsPaid, NoJob
<1>5. NamesItsRequest /\ ShownIsPaid BY DEF RunInit, NamesItsRequest, ShownIsPaid
<1>6. Spent = {} /\ CountedBack = {} BY DEF RunInit, Spent, CountedBack
<1>7. AllowanceHolds BY <1>6, FS_EmptySet, AllowanceIs, RunAssumption
<1> QED BY <1>3, <1>4, <1>5, <1>7 DEF ShareInv

\* What is known of calls, jobs and results holds in every state: ShareInv is inductive.
THEOREM ShareInvHolds == RunSpec => []ShareInv
BY ShareStart, ShareStep, PTL DEF RunSpec

\* Every variable of the creative analysis keeps its type.
THEOREM RunTypes == RunSpec => []RunTypeOK
<1>1. ShareInv => RunTypeOK BY DEF ShareInv
<1> QED BY <1>1, ShareInvHolds, PTL

\* A month spends no more calls than the allowance and those that were answered after
\* they had been given back, for any number of requests and retries.
THEOREM AllowancesHold == RunSpec => []AllowanceHolds
<1>1. ShareInv => AllowanceHolds BY DEF ShareInv
<1> QED BY <1>1, ShareInvHolds, PTL

\* A finished analysis shows the result of the request it names, which was counted
\* unless the database refused to.
THEOREM ResultsArePaid == RunSpec => []ShownIsPaid
<1>1. ShareInv => ShownIsPaid BY DEF ShareInv
<1> QED BY <1>1, ShareInvHolds, PTL
-----------------------------------------------------------------------------
(* The proxy pool: a lease that is out is never newer than the last claim, *)
(* and all of them were taken at different instants                        *)

Held(j) == lease[j].step \in {"open", "release", "read", "write"}
Returned(j) == LeaseAt(j, "over") /\ lease[j].kept
Out(j) == Held(j) \/ Returned(j)

OutIsPast == \A j \in Jobs : Out(j) => lease[j].at <= health.used
OutDiffer == \A i, j \in Jobs : i # j /\ Out(i) /\ Out(j) => lease[i].at # lease[j].at

\* The endpoint is paced for the last claim, or the hold of that claim is over.
OpenIsPaced == ~overrun => \A i \in Jobs : LeaseAt(i, "open") =>
  IF health.used = lease[i].at THEN health.paced = lease[i].at + Hold
                               ELSE lease[i].at + Hold <= health.used

ReturnedIsPaced == ~overrun => \A i \in Jobs : Returned(i) =>
  LET next == IF health.used = lease[i].at THEN health.paced ELSE health.used IN
  lease[i].at + lease[i].sent <= next /\ lease[i].last < next

PoolInv == /\ LeaseTypeOK /\ OutIsPast /\ OutDiffer /\ OpenIsPaced /\ ReturnedIsPaced
           /\ HeldAlone /\ FitsRate

\* The other jobs wait.
JobsWait(j) == \A i \in Jobs \ {j} : lease'[i] = lease[i]

LEMMA LeaseGoes ==
  ASSUME LeaseTypeOK, NEW j \in Jobs, NEW l \in LeaseType, lease' = [lease EXCEPT ![j] = l]
  PROVE  lease' \in [Jobs -> LeaseType] /\ lease'[j] = l /\ JobsWait(j)
BY DEF LeaseTypeOK, JobsWait

\* The endpoint keeps its claim; a job holds on to its lease or drops it.
LEMMA QuietKeeps ==
  ASSUME PoolInv, NEW j \in Jobs, JobsWait(j), LeaseTypeOK', UNCHANGED overrun,
         health'.used = health.used, health'.paced = health.paced,
         Out(j)' => Out(j) /\ lease'[j].at = lease[j].at,
         Returned(j)' => lease'[j] = lease[j],
         LeaseAt(j, "open")' => LeaseAt(j, "open")
  PROVE  PoolInv'
<1>1. \A i \in Jobs : /\ Out(i)' => Out(i) /\ lease'[i].at = lease[i].at
                      /\ Returned(i)' => Returned(i) /\ lease'[i] = lease[i]
                      /\ LeaseAt(i, "open")' => LeaseAt(i, "open") /\ lease'[i].at = lease[i].at
  BY DEF JobsWait, Out, Held, Returned, LeaseAt
<1>2. OutIsPast' BY <1>1 DEF PoolInv, OutIsPast
<1>3. OutDiffer' BY <1>1 DEF PoolInv, OutDiffer
<1>4. OpenIsPaced' BY <1>1 DEF PoolInv, OpenIsPaced
<1>5. ReturnedIsPaced' BY <1>1 DEF PoolInv, ReturnedIsPaced
<1>6. HeldAlone' BY <1>1 DEF PoolInv, HeldAlone
<1>7. FitsRate' BY <1>1 DEF PoolInv, FitsRate, Returned
<1> QED BY <1>2, <1>3, <1>4, <1>5, <1>6, <1>7 DEF PoolInv

LEMMA PoolKeeps ==
  ASSUME PoolInv, Passes \/ Retire \/ Probe \/ UNCHANGED poolVars
  PROVE  PoolInv'
<1>1. UNCHANGED <<lease, overrun>> /\ health'.used = health.used /\ health'.paced = health.paced
  BY DEF Passes, Retire, Probe, poolVars, PoolInv, LeaseTypeOK
<1>2. LeaseTypeOK'
  <2>1. now \in Nat /\ health \in [used : Nat, paced : Nat, cool : Nat] /\ admitted \in BOOLEAN
    BY DEF PoolInv, LeaseTypeOK
  <2>2. now' \in Nat
    <3>1. now' = now \/ now' = now + 1 BY DEF Passes, Retire, Probe, poolVars
    <3> QED BY <2>1, <3>1
  <2>3. admitted' \in BOOLEAN BY <2>1 DEF Passes, Retire, Probe, poolVars
  <2>4. health' = health \/ \E t \in Nat : health' = [health EXCEPT !.cool = t]
    <3>1. 0 \in Nat /\ now + Cooldown \in Nat BY <2>1, LeaseAssumption
    <3> QED BY <3>1 DEF Passes, Retire, Probe, poolVars
  <2>5. health' \in [used : Nat, paced : Nat, cool : Nat] BY <2>1, <2>4
  <2> QED BY <1>1, <2>2, <2>3, <2>5 DEF PoolInv, LeaseTypeOK
<1>3. OutIsPast' BY <1>1 DEF PoolInv, OutIsPast, Out, Held, Returned, LeaseAt
<1>4. OutDiffer' BY <1>1 DEF PoolInv, OutDiffer, Out, Held, Returned, LeaseAt
<1>5. OpenIsPaced' BY <1>1 DEF PoolInv, OpenIsPaced, LeaseAt
<1>6. ReturnedIsPaced' BY <1>1 DEF PoolInv, ReturnedIsPaced, Returned, LeaseAt
<1>7. HeldAlone' /\ FitsRate' BY <1>1 DEF PoolInv, HeldAlone, FitsRate, LeaseAt
<1> QED BY <1>2, <1>3, <1>4, <1>5, <1>6, <1>7 DEF PoolInv

LEMMA LeaseQuiet ==
  ASSUME PoolInv, NEW j \in Jobs,
         Ask(j) \/ ClaimFails(j) \/ SendRequest(j) \/ EndWork(j) \/ ReadHealth(j) \/ LeaseDies(j)
  PROVE  PoolInv'
<1>1. LeaseTypeOK /\ lease[j] \in LeaseType /\ now \in Nat BY DEF PoolInv, LeaseTypeOK
<1>2. UNCHANGED <<now, health, admitted, overrun>>
  BY DEF Ask, ClaimFails, SendRequest, EndWork, ReadHealth, LeaseDies
<1>3. PICK l \in LeaseType :
        /\ lease' = [lease EXCEPT ![j] = l]
        /\ l.step = "over" => ~l.kept
        /\ l.step \in {"open", "release", "read", "write"} =>
             Held(j) /\ l.at = lease[j].at /\ (l.step = "open" => LeaseAt(j, "open"))
  <2>1. NoLease \in LeaseType /\ [NoLease EXCEPT !.step = "over"] \in LeaseType
    BY DEF NoLease, LeaseType
  <2>2. CASE Ask(j)
    <3>1. [lease[j] EXCEPT !.step = "claim", !.at = now] \in LeaseType BY <1>1 DEF LeaseType
    <3>2. lease' = [lease EXCEPT ![j] = [lease[j] EXCEPT !.step = "claim", !.at = now]]
      BY <2>2 DEF Ask
    <3>3. [lease[j] EXCEPT !.step = "claim", !.at = now].step = "claim" BY <1>1 DEF LeaseType
    <3> QED BY <3>1, <3>2, <3>3
  <2>3. CASE ClaimFails(j)
    BY <2>1, <2>3 DEF ClaimFails, NoLease
  <2>4. CASE SendRequest(j)
    <3> DEFINE m == [lease[j] EXCEPT !.sent = @ + 1, !.last = now]
    <3>1. m \in LeaseType /\ m.step = lease[j].step /\ m.at = lease[j].at
      <4>1. lease[j].sent + 1 \in Nat BY <1>1 DEF LeaseType
      <4>2. m = [lease[j] EXCEPT !.sent = lease[j].sent + 1, !.last = now] OBVIOUS
      <4> QED BY <1>1, <4>1, <4>2 DEF LeaseType
    <3>2. lease' = [lease EXCEPT ![j] = m] /\ LeaseAt(j, "open") BY <2>4 DEF SendRequest
    <3> QED BY <3>1, <3>2 DEF Held, LeaseAt
  <2>5. CASE EndWork(j)
    <3>1. PICK verdict \in {"no", "good", "bad"} :
            lease' = [lease EXCEPT ![j].step = IF verdict = "no" THEN "release" ELSE "read",
                                   ![j].judged = verdict]
      BY <2>5 DEF EndWork
    <3> DEFINE m == [lease[j] EXCEPT !.step = IF verdict = "no" THEN "release" ELSE "read",
                                     !.judged = verdict]
    <3>2. m \in LeaseType /\ m.step \in {"release", "read"} /\ m.at = lease[j].at
      BY <1>1 DEF LeaseType
    <3>3. lease' = [lease EXCEPT ![j] = m] /\ LeaseAt(j, "open") BY <2>5, <3>1 DEF EndWork
    <3> QED BY <3>2, <3>3 DEF Held, LeaseAt
  <2>6. CASE ReadHealth(j)
    <3> DEFINE until == IF lease[j].judged = "good" THEN 0 ELSE now + Cooldown
               m == [lease[j] EXCEPT !.step = "write", !.kept = Leases(j), !.judged = "no", !.cool = until]
    <3>1. Leases(j) \in BOOLEAN /\ until \in Nat BY <1>1, LeaseAssumption DEF Leases
    <3>2. m \in LeaseType /\ m.step = "write" /\ m.at = lease[j].at BY <1>1, <3>1 DEF LeaseType
    <3>3. lease' = [lease EXCEPT ![j] = m] /\ LeaseAt(j, "read") BY <2>6 DEF ReadHealth
    <3> QED BY <3>2, <3>3 DEF Held, LeaseAt
  <2>7. CASE LeaseDies(j)
    <3>1. lease' = [lease EXCEPT ![j] = [NoLease EXCEPT !.step = "over"]]
      BY <2>7 DEF LeaseDies, LeaseOver
    <3>2. [NoLease EXCEPT !.step = "over"].step = "over" /\ ~[NoLease EXCEPT !.step = "over"].kept
      BY DEF NoLease
    <3> QED BY <2>1, <3>1, <3>2
  <2> QED BY <2>2, <2>3, <2>4, <2>5, <2>6, <2>7
<1>4. lease' \in [Jobs -> LeaseType] /\ lease'[j] = l /\ JobsWait(j) BY <1>1, <1>3, LeaseGoes
<1>5. LeaseTypeOK' BY <1>1, <1>2, <1>4 DEF LeaseTypeOK
<1>6. Out(j)' => Out(j) /\ lease'[j].at = lease[j].at
  BY <1>3, <1>4 DEF Out, Held, Returned, LeaseAt
<1>7. ~Returned(j)' BY <1>3, <1>4 DEF Returned, LeaseAt
<1>8. LeaseAt(j, "open")' => LeaseAt(j, "open") BY <1>3, <1>4 DEF LeaseAt
<1> QED BY <1>2, <1>4, <1>5, <1>6, <1>7, <1>8, QuietKeeps

\* The claim is later than every lease that is out, and than what paces the endpoint.
LEMMA ClaimKeepsPool ==
  ASSUME PoolInv, NEW j \in Jobs, Claim(j)
  PROVE  PoolInv'
<1> DEFINE l == [lease[j] EXCEPT !.step = "open", !.last = lease[j].at]
<1>1. LeaseTypeOK /\ lease[j] \in LeaseType /\ health \in [used : Nat, paced : Nat, cool : Nat]
  BY DEF PoolInv, LeaseTypeOK
<1>2. PICK t \in Nat : t = lease[j].at BY <1>1 DEF LeaseType
<1>3. health.used + 1 <= t /\ health.paced <= t /\ lease[j].step = "claim"
  BY <1>2 DEF Claim, Claimable, LeaseAt
<1>4. /\ health' = [health EXCEPT !.used = t, !.paced = t + Hold]
      /\ lease' = [lease EXCEPT ![j] = l] /\ UNCHANGED <<now, admitted, overrun>>
  BY <1>2 DEF Claim
<1>5. l \in LeaseType /\ l.step = "open" /\ l.at = t BY <1>1, <1>2 DEF LeaseType
<1>6. lease' \in [Jobs -> LeaseType] /\ lease'[j] = l /\ JobsWait(j) BY <1>1, <1>4, <1>5, LeaseGoes
<1>7. health'.used = t /\ health'.paced = t + Hold /\ health' \in [used : Nat, paced : Nat, cool : Nat]
  <2>1. t + Hold \in Nat BY LeaseAssumption
  <2> QED BY <1>1, <1>4, <2>1
<1>8. LeaseTypeOK' BY <1>1, <1>4, <1>6, <1>7 DEF LeaseTypeOK
<1> HIDE DEF l
<1>9. \A i \in Jobs \ {j} : /\ lease'[i] = lease[i] /\ lease[i] \in LeaseType
                            /\ Out(i)' <=> Out(i)
                            /\ Returned(i)' <=> Returned(i)
                            /\ LeaseAt(i, "open")' <=> LeaseAt(i, "open")
  BY <1>1, <1>6 DEF JobsWait, Out, Held, Returned, LeaseAt, LeaseTypeOK
<1>10. ~Returned(j)' /\ ~Out(j) /\ lease'[j].at = t
  BY <1>3, <1>5, <1>6 DEF Returned, Out, Held, LeaseAt
<1>11. \A i \in Jobs \ {j} : Out(i) => lease[i].at <= health.used /\ lease[i].at < t /\ lease[i].at \in Nat
  <2>1. \A i \in Jobs \ {j} : lease[i].at \in Nat BY <1>9 DEF LeaseType
  <2>2. health.used \in Nat BY <1>1
  <2> QED BY <1>3, <2>1, <2>2 DEF PoolInv, OutIsPast
<1>12. OutIsPast'
  <2> SUFFICES ASSUME NEW i \in Jobs, Out(i)' PROVE lease'[i].at <= t
    BY <1>7 DEF OutIsPast
  <2> QED BY <1>9, <1>10, <1>11
<1>13. OutDiffer'
  BY <1>9, <1>10, <1>11 DEF PoolInv, OutDiffer
<1>14. ~overrun' => \A i \in Jobs \ {j} :
         /\ LeaseAt(i, "open") => lease[i].at + Hold <= t
         /\ Returned(i) => lease[i].at + lease[i].sent <= t /\ lease[i].last < t
  <2> SUFFICES ASSUME ~overrun, NEW i \in Jobs \ {j}
               PROVE  /\ LeaseAt(i, "open") => lease[i].at + Hold <= t
                      /\ Returned(i) => lease[i].at + lease[i].sent <= t /\ lease[i].last < t
    BY <1>4
  <2>1. /\ lease[i].at \in Nat /\ lease[i].sent \in Nat /\ lease[i].last \in Nat
        /\ health.used \in Nat /\ health.paced \in Nat
    BY <1>1, <1>9 DEF LeaseType
  <2>2. LeaseAt(i, "open") => lease[i].at + Hold <= t
    BY <1>3, <2>1, LeaseAssumption DEF PoolInv, OpenIsPaced
  <2>3. Returned(i) => lease[i].at + lease[i].sent <= t /\ lease[i].last < t
    BY <1>3, <2>1 DEF PoolInv, ReturnedIsPaced
  <2> QED BY <2>2, <2>3
<1>15. OpenIsPaced'
  <2> SUFFICES ASSUME ~overrun', NEW i \in Jobs, LeaseAt(i, "open")'
               PROVE  IF health'.used = lease'[i].at THEN health'.paced = lease'[i].at + Hold
                                                     ELSE lease'[i].at + Hold <= health'.used
    BY DEF OpenIsPaced
  <2>1. CASE i = j BY <1>7, <1>10, <2>1
  <2>2. CASE i # j BY <1>7, <1>9, <1>14, <2>2
  <2> QED BY <2>1, <2>2
<1>16. ReturnedIsPaced'
  <2> SUFFICES ASSUME ~overrun', NEW i \in Jobs, Returned(i)', NEW next,
                      next = IF health'.used = lease'[i].at THEN health'.paced ELSE health'.used
               PROVE  lease'[i].at + lease'[i].sent <= next /\ lease'[i].last < next
    BY DEF ReturnedIsPaced
  <2>1. i # j /\ lease'[i] = lease[i] /\ Returned(i) BY <1>9, <1>10
  <2>2. lease[i].at < t BY <1>11, <2>1 DEF Out
  <2>3. next = t BY <1>7, <1>11, <2>1, <2>2 DEF Out
  <2> QED BY <1>14, <2>1, <2>3
<1>17. HeldAlone'
  <2> SUFFICES ASSUME NEW i \in Jobs, NEW k \in Jobs, LeaseAt(i, "open")', LeaseAt(k, "open")',
                      lease'[i].at < lease'[k].at, ~overrun'
               PROVE  lease'[i].at + Hold <= lease'[k].at
    BY DEF HeldAlone
  <2>1. CASE k = j /\ i # j BY <1>9, <1>10, <1>14, <2>1
  <2>2. CASE i = j /\ k # j
    <3>1. Out(k) /\ lease'[k] = lease[k] BY <1>9, <2>2 DEF Out, Held, LeaseAt
    <3> QED BY <1>10, <1>11, <2>2, <3>1
  <2>3. CASE i # j /\ k # j BY <1>4, <1>9, <2>3 DEF PoolInv, HeldAlone
  <2>4. CASE i = j /\ k = j BY <1>10, <2>4
  <2> QED BY <2>1, <2>2, <2>3, <2>4
<1>18. FitsRate'
  <2> SUFFICES ASSUME NEW i \in Jobs, NEW k \in Jobs, i # k, LeaseAt(k, "open")', ~overrun'
               PROVE  /\ LeaseAt(i, "open")' => lease'[i].at # lease'[k].at
                      /\ Returned(i)' /\ lease'[i].at < lease'[k].at =>
                           lease'[i].at + lease'[i].sent <= lease'[k].at /\ lease'[i].last < lease'[k].at
    BY DEF FitsRate, Returned
  <2>1. LeaseAt(i, "open")' => lease'[i].at # lease'[k].at
    BY <1>13 DEF OutDiffer, Out, Held, LeaseAt
  <2>2. ASSUME Returned(i)', lease'[i].at < lease'[k].at
        PROVE  lease'[i].at + lease'[i].sent <= lease'[k].at /\ lease'[i].last < lease'[k].at
    <3>1. i # j /\ lease'[i] = lease[i] /\ Returned(i) BY <1>9, <1>10, <2>2
    <3>2. CASE k = j BY <1>10, <1>14, <3>1, <3>2
    <3>3. CASE k # j BY <1>4, <1>9, <2>2, <3>1, <3>3 DEF PoolInv, FitsRate, Returned
    <3> QED BY <3>2, <3>3
  <2> QED BY <2>1, <2>2
<1> QED BY <1>8, <1>12, <1>13, <1>15, <1>16, <1>17, <1>18 DEF PoolInv

\* A lease is given back: its pacing stands only while no later lease was claimed.
LEMMA ReturnKeeps ==
  ASSUME PoolInv, NEW j \in Jobs, GiveUp(j) \/ WriteHealth(j)
  PROVE  PoolInv'
<1> DEFINE l == [lease[j] EXCEPT !.step = "over", !.cool = 0, !.kept = TRUE]
           gone == [NoLease EXCEPT !.step = "over"]
<1>1. /\ LeaseTypeOK /\ lease[j] \in LeaseType /\ health \in [used : Nat, paced : Nat, cool : Nat]
      /\ now \in Nat /\ overrun \in BOOLEAN /\ Held(j)
  BY DEF PoolInv, LeaseTypeOK, GiveUp, WriteHealth, LeaseAt, Held
<1>2. PICK t \in Nat, p \in Nat : t = lease[j].at /\ p = PacedUntil(j)
  BY <1>1 DEF LeaseType, PacedUntil, Later
<1>3. t + lease[j].sent <= p /\ lease[j].last < p
  BY <1>1, <1>2 DEF LeaseType, PacedUntil, Later
<1>4. PICK kept \in BOOLEAN : LeaseOver(j, kept) /\
        /\ health'.used = health.used /\ health' \in [used : Nat, paced : Nat, cool : Nat]
        /\ health'.paced = IF kept THEN p ELSE health.paced
        /\ overrun' \in BOOLEAN /\ (overrun => overrun')
        /\ ~overrun' /\ kept => health.used = t
        /\ UNCHANGED <<now, admitted>>
  <2>1. CASE GiveUp(j)
    <3>1. Leases(j) \in BOOLEAN BY DEF Leases
    <3>2. /\ health' = IF Leases(j) THEN [health EXCEPT !.paced = p] ELSE health
          /\ LeaseOver(j, Leases(j)) /\ UNCHANGED <<now, admitted, overrun>>
      BY <1>2, <2>1 DEF GiveUp
    <3> QED BY <1>1, <1>2, <3>1, <3>2 DEF Leases
  <2>2. CASE WriteHealth(j)
    <3>1. lease[j].kept \in BOOLEAN BY <1>1 DEF LeaseType
    <3>2. PICK cool \in Nat :
            health' = [health EXCEPT !.paced = IF lease[j].kept THEN p ELSE health.paced, !.cool = cool]
      <4>1. lease[j].cool \in Nat BY <1>1 DEF LeaseType
      <4> QED BY <1>2, <2>2, <4>1 DEF WriteHealth
    <3>3. /\ health'.used = health.used /\ health' \in [used : Nat, paced : Nat, cool : Nat]
          /\ health'.paced = IF lease[j].kept THEN p ELSE health.paced
      BY <1>1, <3>2
    <3>4. overrun' = (overrun \/ (lease[j].kept /\ health.used # t)) BY <1>2, <2>2 DEF WriteHealth
    <3>5. overrun' \in BOOLEAN /\ (overrun => overrun') /\ (~overrun' /\ lease[j].kept => health.used = t)
      BY <1>1, <3>4
    <3>6. LeaseOver(j, lease[j].kept) /\ UNCHANGED <<now, admitted>> BY <2>2 DEF WriteHealth
    <3> QED BY <3>1, <3>3, <3>5, <3>6
  <2> QED BY <2>1, <2>2
<1>5. l \in LeaseType /\ l.step = "over" /\ l.kept /\ l.at = t
      /\ l.sent = lease[j].sent /\ l.last = lease[j].last
  BY <1>1, <1>2 DEF LeaseType
<1>6. gone \in LeaseType /\ gone.step = "over" /\ ~gone.kept BY DEF NoLease, LeaseType
<1>7. lease' = [lease EXCEPT ![j] = IF kept THEN l ELSE gone] BY <1>4 DEF LeaseOver
<1>8. lease' \in [Jobs -> LeaseType] /\ lease'[j] = (IF kept THEN l ELSE gone) /\ JobsWait(j)
  BY <1>1, <1>5, <1>6, <1>7, LeaseGoes
<1> HIDE DEF l, gone
<1>9. LeaseTypeOK' BY <1>1, <1>4, <1>8 DEF LeaseTypeOK
<1>10. \A i \in Jobs \ {j} : /\ lease'[i] = lease[i] /\ lease[i] \in LeaseType
                             /\ Out(i)' <=> Out(i)
                             /\ Returned(i)' <=> Returned(i)
                             /\ LeaseAt(i, "open")' <=> LeaseAt(i, "open")
  BY <1>1, <1>8 DEF JobsWait, Out, Held, Returned, LeaseAt, LeaseTypeOK
<1>11. /\ Out(j) /\ ~LeaseAt(j, "open")'
       /\ Out(j)' => kept /\ lease'[j] = l
       /\ Returned(j)' => kept /\ lease'[j] = l
  BY <1>1, <1>5, <1>6, <1>8 DEF Out, Held, Returned, LeaseAt
<1>12. t <= health.used /\ \A i \in Jobs \ {j} : Out(i) => lease[i].at # t /\ lease[i].at <= health.used
  BY <1>2, <1>11 DEF PoolInv, OutIsPast, OutDiffer
<1>13. OutIsPast' BY <1>4, <1>5, <1>10, <1>11, <1>12 DEF OutIsPast
<1>14. OutDiffer' BY <1>5, <1>10, <1>11, <1>12 DEF PoolInv, OutDiffer
\* What paces the endpoint changes only if j holds the last claim, so for no other job.
<1>15. ASSUME ~overrun', NEW i \in Jobs \ {j}, Out(i), health.used = lease[i].at
       PROVE  health'.paced = health.paced
  BY <1>4, <1>12, <1>15
<1>16. OpenIsPaced'
  <2> SUFFICES ASSUME ~overrun', NEW i \in Jobs, LeaseAt(i, "open")'
               PROVE  IF health'.used = lease'[i].at THEN health'.paced = lease'[i].at + Hold
                                                     ELSE lease'[i].at + Hold <= health'.used
    BY DEF OpenIsPaced
  <2>1. i # j /\ lease'[i] = lease[i] /\ LeaseAt(i, "open") BY <1>10, <1>11
  <2>2. Out(i) BY <2>1 DEF Out, Held, LeaseAt
  <2>3. IF health.used = lease[i].at THEN health.paced = lease[i].at + Hold
                                     ELSE lease[i].at + Hold <= health.used
    BY <1>4, <2>1 DEF PoolInv, OpenIsPaced
  <2> QED BY <1>4, <1>15, <2>1, <2>2, <2>3
<1>17. ReturnedIsPaced'
  <2> SUFFICES ASSUME ~overrun', NEW i \in Jobs, Returned(i)', NEW next,
                      next = IF health'.used = lease'[i].at THEN health'.paced ELSE health'.used
               PROVE  lease'[i].at + lease'[i].sent <= next /\ lease'[i].last < next
    BY DEF ReturnedIsPaced
  <2>1. CASE i = j
    <3>1. kept /\ lease'[i] = l BY <1>11, <2>1
    <3>2. next = p BY <1>4, <1>5, <3>1
    <3> QED BY <1>3, <1>5, <3>1, <3>2
  <2>2. CASE i # j
    <3>1. lease'[i] = lease[i] /\ Returned(i) /\ Out(i) BY <1>10, <2>2 DEF Out
    <3>2. next = IF health.used = lease[i].at THEN health.paced ELSE health.used
      BY <1>4, <1>15, <2>2, <3>1
    <3> QED BY <1>4, <3>1, <3>2 DEF PoolInv, ReturnedIsPaced
  <2> QED BY <2>1, <2>2
<1>18. HeldAlone'
  <2> SUFFICES ASSUME NEW i \in Jobs, NEW k \in Jobs, LeaseAt(i, "open")', LeaseAt(k, "open")',
                      lease'[i].at < lease'[k].at, ~overrun'
               PROVE  lease'[i].at + Hold <= lease'[k].at
    BY DEF HeldAlone
  <2> QED BY <1>4, <1>10, <1>11 DEF PoolInv, HeldAlone
<1>19. FitsRate'
  <2> SUFFICES ASSUME NEW i \in Jobs, NEW k \in Jobs, i # k, LeaseAt(k, "open")', ~overrun'
               PROVE  /\ LeaseAt(i, "open")' => lease'[i].at # lease'[k].at
                      /\ Returned(i)' /\ lease'[i].at < lease'[k].at =>
                           lease'[i].at + lease'[i].sent <= lease'[k].at /\ lease'[i].last < lease'[k].at
    BY DEF FitsRate, Returned
  <2>1. k # j /\ lease'[k] = lease[k] /\ LeaseAt(k, "open") /\ Out(k) /\ lease[k] \in LeaseType
    BY <1>10, <1>11 DEF Out, Held, LeaseAt
  <2>2. LeaseAt(i, "open")' => lease'[i].at # lease'[k].at
    BY <1>14 DEF OutDiffer, Out, Held, LeaseAt
  <2>3. ASSUME Returned(i)', lease'[i].at < lease'[k].at
        PROVE  lease'[i].at + lease'[i].sent <= lease'[k].at /\ lease'[i].last < lease'[k].at
    <3>1. CASE i # j BY <1>4, <1>10, <2>1, <2>3, <3>1 DEF PoolInv, FitsRate, Returned
    <3>2. CASE i = j
      \* The job gives back the last claim, so nobody holds a later one.
      <4>1. lease'[i].at = t /\ health.used = t BY <1>4, <1>5, <1>11, <2>3, <3>2
      <4>2. lease[k].at <= t /\ lease[k].at \in Nat BY <1>12, <2>1, <4>1 DEF LeaseType
      <4> QED BY <2>1, <2>3, <4>1, <4>2
    <3> QED BY <3>1, <3>2
  <2> QED BY <2>2, <2>3
<1> QED BY <1>9, <1>13, <1>14, <1>16, <1>17, <1>18, <1>19 DEF PoolInv

LEMMA PoolStep ==
  ASSUME PoolInv, [LeaseNext]_poolVars
  PROVE  PoolInv'
BY PoolKeeps, LeaseQuiet, ClaimKeepsPool, ReturnKeeps DEF LeaseNext

LEMMA PoolStart == LeaseInit => PoolInv
<1> SUFFICES ASSUME LeaseInit PROVE PoolInv OBVIOUS
<1>1. \A j \in Jobs : lease[j] = NoLease BY DEF LeaseInit
<1>2. NoLease \in LeaseType BY DEF NoLease, LeaseType
<1>3. LeaseTypeOK BY <1>2 DEF LeaseInit, LeaseTypeOK
<1>4. \A j \in Jobs : ~Out(j) /\ ~Returned(j) /\ ~LeaseAt(j, "open")
  BY <1>1 DEF Out, Held, Returned, LeaseAt, NoLease
<1>5. OutIsPast /\ OutDiffer /\ OpenIsPaced /\ ReturnedIsPaced
  BY <1>4 DEF OutIsPast, OutDiffer, OpenIsPaced, ReturnedIsPaced
<1>6. HeldAlone /\ FitsRate BY <1>4 DEF HeldAlone, FitsRate
<1> QED BY <1>3, <1>5, <1>6 DEF PoolInv

\* What is known of the leases of an endpoint holds in every state: PoolInv is inductive.
THEOREM PoolInvHolds == LeaseSpec => []PoolInv
BY PoolStart, PoolStep, PTL DEF LeaseSpec

\* Every variable of an endpoint's leases keeps its type.
THEOREM LeaseTypes == LeaseSpec => []LeaseTypeOK
<1>1. PoolInv => LeaseTypeOK BY DEF PoolInv
<1> QED BY <1>1, PoolInvHolds, PTL

\* Two jobs never use one endpoint for one store at once unless the older one has outlived
\* its hold, for any number of jobs and any hold.
THEOREM EndpointsAreHeldAlone == LeaseSpec => []HeldAlone
<1>1. PoolInv => HeldAlone BY DEF PoolInv
<1> QED BY <1>1, PoolInvHolds, PTL

\* A lease starts only when the requests of the leases given back before fit the rate.
THEOREM RequestsFitTheRate == LeaseSpec => []FitsRate
<1>1. PoolInv => FitsRate BY DEF PoolInv
<1> QED BY <1>1, PoolInvHolds, PTL
-----------------------------------------------------------------------------
(* The searches of a week *)

\* What was queued for a week, or is about to be.
Pending(w) == {k \in Phrases :
  \/ <<k, w>> \in searches
  \/ \E p \in Plans : PlanAt(p, "spend") /\ plan[p].week = w /\ k \in plan[p].rows}

\* Nothing is of a week to come.
NoneAhead == /\ \A p \in Plans : plan[p].week <= week
             /\ \A k \in Phrases, w \in 0..MaxWeek : <<k, w>> \in searches => w <= week

\* What a plan has read still has its row.
ReadAreRows == \A p \in Plans : PlanAt(p, "reserve") => \A k \in plan[p].rows : IsRow(k)

\* What a plan of this week reserved is marked as its own until it has released it.
ReservedAreOwn == \A p \in Plans :
  plan[p].step \in {"spend", "release"} /\ plan[p].week = week =>
    \A k \in plan[p].rows : IsRow(k) /\ discovery[k].queuedBy = p

\* What was queued this week is marked by a plan of this week that is over.
QueuedAreMarked == \A k \in Phrases : <<k, week>> \in searches =>
  /\ IsRow(k) /\ discovery[k].queuedBy \in Plans
  /\ PlanAt(discovery[k].queuedBy, "over") /\ plan[discovery[k].queuedBy].week = week

PendingFits == \A w \in 0..MaxWeek : Cardinality(Pending(w)) <= Cap

WeekInv ==
  /\ WeekTypeOK /\ NoneAhead
  /\ ~escaped => ReadAreRows /\ ReservedAreOwn /\ QueuedAreMarked /\ PendingFits

LEMMA PhrasesAreCounted ==
  ASSUME NEW S \in SUBSET Phrases
  PROVE  /\ IsFiniteSet(S) /\ Cardinality(S) \in Nat
         /\ \A T \in SUBSET S : Cardinality(T) \in Nat /\ Cardinality(T) <= Cardinality(S)
<1>1. IsFiniteSet(S) /\ \A T \in SUBSET S : IsFiniteSet(T) BY WeekAssumption, FS_Subset
<1> QED BY <1>1, FS_Subset, FS_CardinalityType

\* Fewer pending phrases fit too.
LEMMA FewerFit ==
  ASSUME PendingFits, \A w \in 0..MaxWeek : Pending(w)' \subseteq Pending(w)
  PROVE  PendingFits'
<1> SUFFICES ASSUME NEW w \in 0..MaxWeek PROVE Cardinality(Pending(w)') <= Cap BY DEF PendingFits, Pending
<1>1. Pending(w) \in SUBSET Phrases BY DEF Pending
<1>2. /\ Cardinality(Pending(w)') \in Nat /\ Cardinality(Pending(w)) \in Nat
      /\ Cardinality(Pending(w)') <= Cardinality(Pending(w))
  BY <1>1, PhrasesAreCounted
<1> QED BY <1>2, WeekAssumption DEF PendingFits

LEMMA PlanWritten ==
  ASSUME WeekTypeOK, NEW p \in Plans, NEW v \in PlanType, plan' = [plan EXCEPT ![p] = v]
  PROVE  /\ plan' \in [Plans -> PlanType] /\ plan'[p] = v
         /\ \A q \in Plans \ {p} : plan'[q] = plan[q]
BY DEF WeekTypeOK

LEMMA PlanStepped ==
  ASSUME WeekTypeOK, NEW p \in Plans,
         NEW step \in {"idle", "read", "reserve", "spend", "release", "over"},
         \/ PlanGoes(p, step)
         \/ step = "over" /\ PlanIsOver(p)
  PROVE  /\ plan' \in [Plans -> PlanType] /\ PlanAt(p, step)'
         /\ plan'[p].week = plan[p].week
         /\ PlanGoes(p, step) => plan'[p].rows = plan[p].rows
         /\ plan'[p].rows \subseteq plan[p].rows
         /\ \A q \in Plans \ {p} : plan'[q] = plan[q]
<1>1. plan[p] \in PlanType BY DEF WeekTypeOK
<1>2. CASE PlanGoes(p, step)
  <2> DEFINE v == [plan[p] EXCEPT !.step = step]
  <2>1. v \in PlanType /\ v.step = step /\ v.week = plan[p].week /\ v.rows = plan[p].rows
    BY <1>1 DEF PlanType
  <2>2. plan' = [plan EXCEPT ![p] = v] BY <1>2 DEF PlanGoes
  <2> QED BY <2>1, <2>2, PlanWritten DEF PlanAt
<1>3. CASE step = "over" /\ PlanIsOver(p)
  <2> DEFINE v == [plan[p] EXCEPT !.step = "over", !.rows = {}]
  <2>1. v \in PlanType /\ v.step = "over" /\ v.week = plan[p].week /\ v.rows = {}
    BY <1>1 DEF PlanType
  <2>2. plan' = [plan EXCEPT ![p] = v] BY <1>3 DEF PlanIsOver
  <2>3. PlanGoes(p, step) => plan'[p].rows = plan[p].rows
    BY <1>1, <1>3 DEF PlanGoes, PlanType, WeekTypeOK
  <2> QED BY <1>3, <2>1, <2>2, <2>3, PlanWritten DEF PlanAt
<1> QED BY <1>2, <1>3

\* Whatever leaves the reservations and the jobs alone.
LEMMA BesideReserved ==
  ASSUME WeekInv, WeekTypeOK', UNCHANGED <<week, searches>>, escaped => escaped',
         \A q \in Plans : \/ plan'[q] = plan[q]
                          \/ /\ plan[q].step \in {"idle", "read", "reserve"}
                             /\ plan'[q].step \in {"read", "reserve", "over"}
                             /\ plan'[q].week <= week,
         \A k \in Phrases : QueuedSince(k, week) =>
           IsRow(k)' /\ discovery'[k].queuedBy = discovery[k].queuedBy,
         ~escaped' => ReadAreRows'
  PROVE  WeekInv'
<1>1. NoneAhead' BY DEF WeekInv, NoneAhead
<1>2. ASSUME ~escaped' PROVE ReservedAreOwn' /\ QueuedAreMarked' /\ PendingFits'
  <2>1. ReservedAreOwn /\ QueuedAreMarked /\ PendingFits BY <1>2 DEF WeekInv
  <2>2. plan \in [Plans -> PlanType] /\ week \in Nat BY WeekAssumption DEF WeekInv, WeekTypeOK
  <2>3. ReservedAreOwn'
    <3> SUFFICES ASSUME NEW p \in Plans, plan'[p].step \in {"spend", "release"}, plan'[p].week = week',
                        NEW k \in plan'[p].rows
                 PROVE  IsRow(k)' /\ discovery'[k].queuedBy = p
      BY DEF ReservedAreOwn
    <3>1. plan'[p] = plan[p] /\ k \in Phrases BY DEF WeekTypeOK, PlanType
    <3>2. IsRow(k) /\ discovery[k].queuedBy = p /\ plan[p].week = week BY <2>1, <3>1 DEF ReservedAreOwn
    <3>3. QueuedSince(k, week) BY <2>2, <3>2, WeekAssumption DEF QueuedSince
    <3> QED BY <3>1, <3>2, <3>3
  <2>4. QueuedAreMarked'
    <3> SUFFICES ASSUME NEW k \in Phrases, <<k, week>> \in searches
                 PROVE  /\ IsRow(k)' /\ discovery'[k].queuedBy \in Plans
                        /\ plan'[discovery'[k].queuedBy].step = "over"
                        /\ plan'[discovery'[k].queuedBy].week = week
      BY DEF QueuedAreMarked, PlanAt
    <3>1. /\ IsRow(k) /\ discovery[k].queuedBy \in Plans
          /\ plan[discovery[k].queuedBy].step = "over" /\ plan[discovery[k].queuedBy].week = week
      BY <2>1 DEF QueuedAreMarked, PlanAt
    <3>2. QueuedSince(k, week) BY <2>2, <3>1, WeekAssumption DEF QueuedSince
    <3> QED BY <3>1, <3>2
  <2>5. PendingFits'
    <3>1. \A w \in 0..MaxWeek : Pending(w)' \subseteq Pending(w) BY DEF Pending, PlanAt
    <3> QED BY <2>1, <3>1, FewerFit
  <2> QED BY <2>3, <2>4, <2>5
<1> QED BY <1>1, <1>2 DEF WeekInv

LEMMA ReadKeepsWeek ==
  ASSUME WeekInv, NEW p \in Plans, StorePool(p) \/ ReadOpen(p) \/ PlanEnds(p)
  PROVE  WeekInv'
<1>1. WeekTypeOK /\ plan[p] \in PlanType /\ week \in 0..MaxWeek /\ week \in Nat
  BY WeekAssumption DEF WeekInv, WeekTypeOK
<1>2. CASE StorePool(p)
  <2> DEFINE v == [plan[p] EXCEPT !.step = "read", !.week = week]
  <2>1. v \in PlanType /\ v.step = "read" /\ v.week = week BY <1>1 DEF PlanType
  <2>2. plan' = [plan EXCEPT ![p] = v] BY <1>2 DEF StorePool
  <2>3. /\ plan' \in [Plans -> PlanType] /\ plan'[p] = v
        /\ \A q \in Plans \ {p} : plan'[q] = plan[q]
    BY <1>1, <2>1, <2>2, PlanWritten
  <2>4. ASSUME NEW k \in Phrases
        PROVE  /\ discovery'[k] \in DiscoveryType
               /\ IsRow(k) => IsRow(k)' /\ discovery'[k].queuedBy = discovery[k].queuedBy
    <3>1. discovery[k] \in DiscoveryType BY <1>1 DEF WeekTypeOK
    <3>2. Discovery("open", TRUE, NoPlan) \in DiscoveryType BY DEF Discovery, DiscoveryType
    <3>3. \/ discovery'[k] = discovery[k]
          \/ IsRow(k) /\ discovery'[k] = [discovery[k] EXCEPT !.seen = TRUE]
          \/ ~IsRow(k) /\ discovery'[k] = Discovery("open", TRUE, NoPlan)
      BY <1>2 DEF StorePool
    <3>4. IsRow(k) => discovery[k] \in DiscoveryType \ {NoRow} BY <3>1 DEF IsRow, NoRow
    <3> QED BY <3>1, <3>2, <3>3, <3>4 DEF IsRow, DiscoveryType
  <2>5. discovery' \in [Phrases -> DiscoveryType] BY <1>2, <2>4 DEF StorePool
  <2>6. WeekTypeOK' BY <1>1, <1>2, <2>3, <2>5 DEF StorePool, WeekTypeOK
  <2>7. ~escaped' => ReadAreRows'
    BY <1>1, <1>2, <2>1, <2>3, <2>4 DEF StorePool, WeekInv, ReadAreRows, PlanAt, WeekTypeOK, PlanType
  <2>8. \A q \in Plans :
          \/ plan'[q] = plan[q]
          \/ plan[q].step = "idle" /\ plan'[q].step = "read" /\ plan'[q].week = week
    <3>1. plan[p].step = "idle" BY <1>2 DEF StorePool, PlanAt
    <3>2. plan'[p].step = "read" /\ plan'[p].week = week BY <2>1, <2>3
    <3> QED BY <2>3, <3>1, <3>2
  <2>9. \A q \in Plans :
          \/ plan'[q] = plan[q]
          \/ /\ plan[q].step \in {"idle", "read", "reserve"}
             /\ plan'[q].step \in {"read", "reserve", "over"}
             /\ plan'[q].week <= week
    BY <1>1, <2>8
  <2>10. UNCHANGED <<week, searches, escaped>> BY <1>2 DEF StorePool
  <2> QED BY <2>4, <2>6, <2>7, <2>9, <2>10, BesideReserved DEF QueuedSince
<1>3. CASE ReadOpen(p)
  <2> DEFINE v == [plan[p] EXCEPT !.step = "reserve",
                                  !.rows = {k \in Phrases : discovery[k].is = "open"}]
  <2>1. /\ v \in PlanType /\ v.step = "reserve" /\ v.week = plan[p].week
        /\ \A k \in v.rows : IsRow(k)
    BY <1>1 DEF PlanType, IsRow
  <2>2. plan' = [plan EXCEPT ![p] = v] BY <1>3 DEF ReadOpen
  <2>3. /\ plan' \in [Plans -> PlanType] /\ plan'[p] = v
        /\ \A q \in Plans \ {p} : plan'[q] = plan[q]
    BY <1>1, <2>1, <2>2, PlanWritten
  <2>4. WeekTypeOK' BY <1>1, <1>3, <2>3 DEF ReadOpen, WeekTypeOK
  <2>5. ~escaped' => ReadAreRows'
    BY <1>3, <2>1, <2>3 DEF ReadOpen, WeekInv, ReadAreRows, PlanAt, IsRow
  <2>6. plan[p].step = "read" /\ plan[p].week <= week BY <1>3 DEF ReadOpen, PlanAt, WeekInv, NoneAhead
  <2> QED BY <1>3, <2>1, <2>3, <2>4, <2>5, <2>6, BesideReserved DEF ReadOpen, QueuedSince, IsRow
<1>4. CASE PlanEnds(p)
  <2>1. /\ plan' \in [Plans -> PlanType] /\ plan'[p].step = "over"
        /\ plan'[p].week = plan[p].week /\ \A q \in Plans \ {p} : plan'[q] = plan[q]
    BY <1>1, <1>4, PlanStepped DEF PlanEnds, PlanAt
  <2>2. WeekTypeOK' BY <1>1, <1>4, <2>1 DEF PlanEnds, WeekTypeOK
  <2>3. ~escaped' => ReadAreRows' BY <1>4, <2>1 DEF PlanEnds, WeekInv, ReadAreRows, PlanAt, IsRow
  <2>4. plan[p].step = "reserve" /\ plan[p].week <= week
    BY <1>4 DEF PlanEnds, PlanAt, WeekInv, NoneAhead
  <2> QED BY <1>4, <2>1, <2>2, <2>3, <2>4, BesideReserved DEF PlanEnds, QueuedSince, IsRow
<1> QED BY <1>2, <1>3, <1>4

LEMMA RowKeepsWeek ==
  ASSUME WeekInv, NEW k \in Phrases,
         Dismiss(k) \/ TrackPhrase(k) \/ UntrackPhrase(k) \/ PruneDiscovery(k)
  PROVE  WeekInv'
<1>1. WeekTypeOK /\ discovery[k] \in DiscoveryType BY DEF WeekInv, WeekTypeOK
<1>2. CASE PruneDiscovery(k)
  <2>1. /\ discovery' = [discovery EXCEPT ![k] = NoRow] /\ UNCHANGED <<week, plan, searches>>
        /\ ~QueuedSince(k, week)
        /\ escaped' = (escaped \/ \E p \in Plans : PlanAt(p, "reserve") /\ k \in plan[p].rows)
    BY <1>2 DEF PruneDiscovery, MayPrune
  <2>2. NoRow \in DiscoveryType BY DEF DiscoveryType
  <2>3. WeekTypeOK' BY <1>1, <2>1, <2>2 DEF WeekTypeOK
  <2>4. \A j \in Phrases \ {k} : discovery'[j] = discovery[j] BY <1>1, <2>1 DEF WeekTypeOK
  <2>5. ~escaped' => ReadAreRows'
    BY <1>1, <2>1, <2>4 DEF WeekInv, ReadAreRows, PlanAt, IsRow, WeekTypeOK, PlanType
  <2> QED BY <2>1, <2>3, <2>4, <2>5, BesideReserved DEF QueuedSince, IsRow
<1>3. CASE Dismiss(k) \/ TrackPhrase(k) \/ UntrackPhrase(k)
  <2>1. PICK is \in {"open", "tracked", "dismissed"} : RowBecomes(k, is) /\ IsRow(k)
    BY <1>3 DEF Dismiss, TrackPhrase, UntrackPhrase, IsRow
  <2> DEFINE v == [discovery[k] EXCEPT !.is = is]
  <2>2. discovery[k] # NoRow BY <2>1 DEF IsRow, NoRow
  <2>3. v \in DiscoveryType /\ v.is # "none" /\ v.queuedBy = discovery[k].queuedBy
    BY <1>1, <2>2 DEF DiscoveryType
  <2>4. discovery' = [discovery EXCEPT ![k] = v] /\ UNCHANGED <<week, plan, searches, escaped>>
    BY <2>1 DEF RowBecomes
  <2>5. /\ discovery' \in [Phrases -> DiscoveryType] /\ discovery'[k] = v
        /\ \A j \in Phrases \ {k} : discovery'[j] = discovery[j]
    BY <1>1, <2>3, <2>4 DEF WeekTypeOK
  <2>6. WeekTypeOK' BY <1>1, <2>4, <2>5 DEF WeekTypeOK
  <2>7. \A j \in Phrases : IsRow(j) => IsRow(j)' /\ discovery'[j].queuedBy = discovery[j].queuedBy
    BY <2>3, <2>5 DEF IsRow
  <2>8. ~escaped' => ReadAreRows'
    BY <1>1, <2>4, <2>7 DEF WeekInv, ReadAreRows, PlanAt, WeekTypeOK, PlanType
  <2> QED BY <2>4, <2>6, <2>7, <2>8, BesideReserved DEF QueuedSince
<1> QED BY <1>2, <1>3

\* What is pending this week is counted by a plan of this week.
LEMMA PendingAreTaken ==
  ASSUME WeekInv, ~escaped, NEW p \in Plans, plan[p].week = week
  PROVE  Pending(week) \subseteq Taken(p)
<1> SUFFICES ASSUME NEW k \in Pending(week) PROVE k \in Taken(p) OBVIOUS
<1>1. k \in Phrases /\ week \in Nat BY WeekAssumption DEF Pending, WeekInv, WeekTypeOK
<1>2. CASE <<k, week>> \in searches
  BY <1>1, <1>2, WeekAssumption DEF WeekInv, QueuedAreMarked, Taken, QueuedSince
<1>3. CASE <<k, week>> \notin searches
  <2>1. PICK q \in Plans : PlanAt(q, "spend") /\ plan[q].week = week /\ k \in plan[q].rows
    BY <1>3 DEF Pending
  <2>2. IsRow(k) /\ discovery[k].queuedBy = q
    BY <2>1 DEF WeekInv, ReservedAreOwn, PlanAt
  <2> QED BY <1>1, <2>1, <2>2, WeekAssumption DEF Taken, QueuedSince
<1> QED BY <1>2, <1>3

LEMMA ReserveKeepsWeek ==
  ASSUME WeekInv, NEW p \in Plans, ReserveChecks(p)
  PROVE  WeekInv'
<1>1. WeekTypeOK /\ plan[p] \in PlanType /\ week \in 0..MaxWeek /\ week \in Nat /\ plan[p].week \in Nat
  BY WeekAssumption DEF WeekInv, WeekTypeOK, PlanType
<1>2. PICK selected \in SUBSET (plan[p].rows \ Taken(p)) :
        /\ Cardinality(Taken(p)) + Cardinality(selected) <= Cap
        /\ plan' = [plan EXCEPT ![p].step = "spend", ![p].rows = selected]
        /\ discovery' = [k \in Phrases |->
             IF k \in selected /\ IsRow(k) THEN [discovery[k] EXCEPT !.queuedBy = p]
             ELSE discovery[k]]
  BY DEF ReserveChecks
<1>3. /\ UNCHANGED <<week, searches>> /\ plan[p].step = "reserve"
      /\ escaped' = (escaped \/ plan[p].week < week)
  BY DEF ReserveChecks, PlanAt
<1>4. selected \subseteq Phrases BY <1>1, <1>2 DEF PlanType
<1> DEFINE v == [plan[p] EXCEPT !.step = "spend", !.rows = selected]
<1>5. v \in PlanType /\ v.step = "spend" /\ v.week = plan[p].week /\ v.rows = selected
  BY <1>1, <1>4 DEF PlanType
<1>6. /\ plan' \in [Plans -> PlanType] /\ plan'[p] = v
      /\ \A q \in Plans \ {p} : plan'[q] = plan[q]
  <2>1. plan' = [plan EXCEPT ![p] = v] BY <1>2
  <2> QED BY <1>1, <1>5, <2>1, PlanWritten
<1>7. ASSUME NEW k \in Phrases
      PROVE  /\ discovery'[k] \in DiscoveryType
             /\ IsRow(k) => IsRow(k)'
             /\ k \notin selected => discovery'[k] = discovery[k]
             /\ k \in selected /\ IsRow(k) => discovery'[k].queuedBy = p
  <2>1. discovery[k] \in DiscoveryType BY <1>1 DEF WeekTypeOK
  <2>2. IsRow(k) => discovery[k] \in DiscoveryType \ {NoRow} BY <2>1 DEF IsRow, NoRow
  <2>3. \/ discovery'[k] = discovery[k] /\ ~(k \in selected /\ IsRow(k))
        \/ k \in selected /\ IsRow(k) /\ discovery'[k] = [discovery[k] EXCEPT !.queuedBy = p]
    BY <1>2
  <2> QED BY <2>1, <2>2, <2>3 DEF IsRow, DiscoveryType
<1>8. WeekTypeOK'
  <2>1. discovery' \in [Phrases -> DiscoveryType] BY <1>2, <1>7
  <2> QED BY <1>1, <1>3, <1>6, <2>1 DEF WeekTypeOK
<1>9. NoneAhead' BY <1>3, <1>5, <1>6 DEF WeekInv, NoneAhead
<1>10. ASSUME ~escaped' PROVE ReadAreRows' /\ ReservedAreOwn' /\ QueuedAreMarked' /\ PendingFits'
  <2>1. ReadAreRows /\ ReservedAreOwn /\ QueuedAreMarked /\ PendingFits /\ ~escaped
    BY <1>3, <1>10 DEF WeekInv
  <2>2. plan[p].week = week
    <3>1. ~(plan[p].week < week) BY <1>3, <1>10, Zenon
    <3> QED BY <1>1, <3>1 DEF WeekInv, NoneAhead
  <2>3. Pending(week) \subseteq Taken(p) /\ Taken(p) \subseteq Phrases
    BY <2>1, <2>2, PendingAreTaken DEF Taken
  <2>4. ReadAreRows'
    <3> SUFFICES ASSUME NEW q \in Plans, plan'[q].step = "reserve", NEW k \in plan'[q].rows
                 PROVE  IsRow(k)'
      BY DEF ReadAreRows, PlanAt
    <3>1. q # p BY <1>5, <1>6
    <3>2. plan[q].step = "reserve" /\ k \in plan[q].rows BY <1>6, <3>1
    <3>3. k \in Phrases BY <1>1, <3>2 DEF WeekTypeOK, PlanType
    <3> QED BY <1>7, <2>1, <3>2, <3>3 DEF ReadAreRows, PlanAt
  <2>5. ReservedAreOwn'
    <3> SUFFICES ASSUME NEW q \in Plans, plan'[q].step \in {"spend", "release"}, plan'[q].week = week,
                        NEW k \in plan'[q].rows
                 PROVE  IsRow(k)' /\ discovery'[k].queuedBy = q
      BY <1>3 DEF ReservedAreOwn
    <3>1. CASE q = p
      <4>1. k \in selected /\ k \in Phrases BY <1>4, <1>5, <1>6, <3>1
      <4>2. IsRow(k) BY <1>2, <1>3, <2>1, <4>1 DEF ReadAreRows, PlanAt
      <4> QED BY <1>7, <3>1, <4>1, <4>2
    <3>2. CASE q # p
      <4>1. plan'[q] = plan[q] /\ k \in Phrases BY <1>1, <1>6, <3>2 DEF WeekTypeOK, PlanType
      <4>2. IsRow(k) /\ discovery[k].queuedBy = q BY <2>1, <4>1 DEF ReservedAreOwn
      <4>3. k \in Taken(p)
        BY <1>1, <2>2, <4>1, <4>2, WeekAssumption DEF Taken, QueuedSince
      <4> QED BY <1>2, <1>7, <4>1, <4>2, <4>3
    <3> QED BY <3>1, <3>2
  <2>6. QueuedAreMarked'
    <3> SUFFICES ASSUME NEW k \in Phrases, <<k, week>> \in searches
                 PROVE  /\ IsRow(k)' /\ discovery'[k].queuedBy \in Plans
                        /\ plan'[discovery'[k].queuedBy].step = "over"
                        /\ plan'[discovery'[k].queuedBy].week = week
      BY <1>3 DEF QueuedAreMarked, PlanAt
    <3>1. /\ IsRow(k) /\ discovery[k].queuedBy \in Plans
          /\ plan[discovery[k].queuedBy].step = "over" /\ plan[discovery[k].queuedBy].week = week
      BY <2>1 DEF QueuedAreMarked, PlanAt
    <3>2. k \notin selected BY <1>2, <2>3 DEF Pending
    <3> QED BY <1>3, <1>6, <1>7, <3>1, <3>2
  <2>7. PendingFits'
    <3> SUFFICES ASSUME NEW w \in 0..MaxWeek PROVE Cardinality(Pending(w)') <= Cap
      BY DEF PendingFits, Pending
    <3>1. CASE w = week
      <4>1. Pending(w)' \subseteq Taken(p) \cup selected
        BY <1>3, <1>5, <1>6, <2>3, <3>1 DEF Pending, PlanAt
      <4>2. /\ IsFiniteSet(Taken(p)) /\ IsFiniteSet(selected)
            /\ Cardinality(Taken(p)) \in Nat /\ Cardinality(selected) \in Nat
            /\ Taken(p) \cup selected \subseteq Phrases
        BY <1>4, <2>3, PhrasesAreCounted
      <4>3. Cardinality(Taken(p) \cup selected) <= Cardinality(Taken(p)) + Cardinality(selected)
        <5>1. Cardinality(Taken(p) \cap selected) \in Nat BY <2>3, PhrasesAreCounted
        <5>2. Cardinality(Taken(p) \cup selected)
                = Cardinality(Taken(p)) + Cardinality(selected) - Cardinality(Taken(p) \cap selected)
          BY <4>2, FS_Union, Zenon
        <5> QED BY <4>2, <5>1, <5>2
      <4>4. /\ Cardinality(Pending(w)') <= Cardinality(Taken(p) \cup selected)
            /\ Cardinality(Pending(w)') \in Nat /\ Cardinality(Taken(p) \cup selected) \in Nat
        BY <4>1, <4>2, PhrasesAreCounted
      <4> QED BY <1>2, <4>2, <4>3, <4>4, WeekAssumption
    <3>2. CASE w # week
      <4>1. Pending(w)' \subseteq Pending(w)
        BY <1>3, <1>5, <1>6, <2>2, <3>2 DEF Pending, PlanAt
      <4>2. Pending(w) \subseteq Phrases /\ Cardinality(Pending(w)) <= Cap
        BY <2>1 DEF Pending, PendingFits
      <4>3. /\ Cardinality(Pending(w)') <= Cardinality(Pending(w))
            /\ Cardinality(Pending(w)') \in Nat /\ Cardinality(Pending(w)) \in Nat
        BY <4>1, <4>2, PhrasesAreCounted
      <4> QED BY <4>2, <4>3, WeekAssumption
    <3> QED BY <3>1, <3>2
  <2> QED BY <2>4, <2>5, <2>6, <2>7
<1> QED BY <1>8, <1>9, <1>10 DEF WeekInv

LEMMA QueueKeepsWeek ==
  ASSUME WeekInv, NEW p \in Plans, EnqueueChecks(p) \/ EnqueueFails(p)
  PROVE  WeekInv'
<1>1. WeekTypeOK /\ plan[p] \in PlanType BY DEF WeekInv, WeekTypeOK
<1>2. PICK step \in {"over", "release"} :
        /\ plan' \in [Plans -> PlanType] /\ plan'[p].step = step
        /\ plan'[p].week = plan[p].week /\ plan'[p].rows \subseteq plan[p].rows
        /\ \A q \in Plans \ {p} : plan'[q] = plan[q]
        /\ step = "over" => EnqueueChecks(p)
  <2>1. CASE EnqueueChecks(p)
    BY <1>1, <2>1, PlanStepped DEF EnqueueChecks, PlanAt
  <2>2. CASE EnqueueFails(p)
    BY <1>1, <2>2, PlanStepped DEF EnqueueFails, PlanAt
  <2> QED BY <2>1, <2>2
<1>3. /\ searches' = searches \/ searches' = searches \cup ChecksOf(p)
      /\ UNCHANGED <<week, discovery>> /\ (escaped => escaped') /\ plan[p].step = "spend"
      /\ ~escaped' /\ step # "over" => searches' = searches
  <2>1. CASE EnqueueChecks(p)
    <3>1. /\ searches' = searches \cup ChecksOf(p) /\ UNCHANGED <<week, discovery>>
          /\ escaped' = escaped /\ plan[p].step = "spend"
      BY <2>1 DEF EnqueueChecks, PlanAt
    <3>2. step = "over"
      BY <1>1, <1>2, <2>1, PlanStepped DEF EnqueueChecks, PlanAt
    <3> QED BY <3>1, <3>2
  <2>2. CASE EnqueueFails(p) /\ ~EnqueueChecks(p)
    <3>1. step # "over" BY <1>2, <2>2
    <3>2. UNCHANGED <<week, discovery>> /\ plan[p].step = "spend"
      BY <2>2 DEF EnqueueFails, PlanAt
    <3>3. CASE searches' = searches /\ escaped' = escaped BY <3>2, <3>3
    <3>4. CASE searches' = searches \cup ChecksOf(p) /\ escaped' = TRUE
      <4>1. escaped' BY <3>4, Zenon
      <4> QED BY <3>2, <3>4, <4>1
    <3> QED BY <2>2, <3>3, <3>4 DEF EnqueueFails
  <2> QED BY <2>1, <2>2
<1>4. \A k \in Phrases, w \in 0..MaxWeek :
        <<k, w>> \in searches' => <<k, w>> \in searches \/ (w = plan[p].week /\ k \in plan[p].rows)
  BY <1>3 DEF ChecksOf
<1>5. WeekTypeOK'
  <2>1. ChecksOf(p) \subseteq Phrases \X (0..MaxWeek) BY <1>1 DEF ChecksOf, PlanType
  <2>2. escaped' \in BOOLEAN BY <1>1 DEF EnqueueChecks, EnqueueFails, WeekTypeOK
  <2> QED BY <1>1, <1>2, <1>3, <2>1, <2>2 DEF WeekTypeOK
<1>6. NoneAhead' BY <1>2, <1>3, <1>4 DEF WeekInv, NoneAhead
<1>7. ASSUME ~escaped' PROVE ReadAreRows' /\ ReservedAreOwn' /\ QueuedAreMarked' /\ PendingFits'
  <2>1. ReadAreRows /\ ReservedAreOwn /\ QueuedAreMarked /\ PendingFits
    BY <1>3, <1>7 DEF WeekInv
  <2>2. ReadAreRows' BY <1>2, <1>3, <2>1 DEF ReadAreRows, PlanAt, IsRow
  <2>3. ReservedAreOwn' BY <1>2, <1>3, <2>1 DEF ReservedAreOwn, IsRow
  <2>4. QueuedAreMarked'
    <3> SUFFICES ASSUME NEW k \in Phrases, <<k, week>> \in searches'
                 PROVE  /\ IsRow(k) /\ discovery[k].queuedBy \in Plans
                        /\ plan'[discovery[k].queuedBy].step = "over"
                        /\ plan'[discovery[k].queuedBy].week = week
      BY <1>3 DEF QueuedAreMarked, PlanAt, IsRow
    <3>1. CASE <<k, week>> \in searches
      BY <1>2, <1>3, <2>1, <3>1 DEF QueuedAreMarked, PlanAt
    <3>2. CASE <<k, week>> \notin searches
      <4>1. plan[p].week = week /\ k \in plan[p].rows /\ step = "over"
        BY <1>1, <1>3, <1>4, <1>7, <3>2 DEF WeekTypeOK
      <4>2. IsRow(k) /\ discovery[k].queuedBy = p BY <1>3, <2>1, <4>1 DEF ReservedAreOwn
      <4> QED BY <1>2, <4>1, <4>2
    <3> QED BY <3>1, <3>2
  <2>5. PendingFits'
    <3>1. \A w \in 0..MaxWeek : Pending(w)' \subseteq Pending(w)
      BY <1>2, <1>3, <1>4 DEF Pending, PlanAt
    <3> QED BY <2>1, <3>1, FewerFit
  <2> QED BY <2>2, <2>3, <2>4, <2>5
<1> QED BY <1>5, <1>6, <1>7 DEF WeekInv

LEMMA ReleaseKeepsWeek ==
  ASSUME WeekInv, NEW p \in Plans, ReleaseChecks(p)
  PROVE  WeekInv'
<1>1. WeekTypeOK BY DEF WeekInv
<1>2. /\ plan' \in [Plans -> PlanType] /\ plan'[p].step = "over"
      /\ plan'[p].week = plan[p].week /\ \A q \in Plans \ {p} : plan'[q] = plan[q]
  BY <1>1, PlanStepped DEF ReleaseChecks, PlanAt
<1>3. UNCHANGED <<week, searches, escaped>> /\ plan[p].step = "release"
  BY DEF ReleaseChecks, PlanAt
<1>4. ASSUME NEW k \in Phrases
      PROVE  /\ discovery'[k] \in DiscoveryType
             /\ IsRow(k) => IsRow(k)'
             /\ IsRow(k) /\ discovery[k].queuedBy # p => discovery'[k] = discovery[k]
  <2>1. discovery[k] \in DiscoveryType BY <1>1 DEF WeekTypeOK
  <2>2. IsRow(k) => discovery[k] \in DiscoveryType \ {NoRow} BY <2>1 DEF IsRow, NoRow
  <2>3. \/ discovery'[k] = discovery[k]
        \/ Reserved(k, p) /\ discovery'[k] = [discovery[k] EXCEPT !.queuedBy = NoPlan]
    BY DEF ReleaseChecks
  <2> QED BY <2>1, <2>2, <2>3 DEF IsRow, DiscoveryType, Reserved
<1>5. WeekTypeOK'
  <2>1. discovery' \in [Phrases -> DiscoveryType] BY <1>4 DEF ReleaseChecks
  <2> QED BY <1>1, <1>2, <1>3, <2>1 DEF WeekTypeOK
<1>6. NoneAhead' BY <1>2, <1>3 DEF WeekInv, NoneAhead
<1>7. ASSUME ~escaped' PROVE ReadAreRows' /\ ReservedAreOwn' /\ QueuedAreMarked' /\ PendingFits'
  <2>1. ReadAreRows /\ ReservedAreOwn /\ QueuedAreMarked /\ PendingFits
    BY <1>3, <1>7 DEF WeekInv
  <2>2. \A q \in Plans : plan[q].rows \subseteq Phrases BY <1>1 DEF WeekTypeOK, PlanType
  <2>3. ReadAreRows' BY <1>2, <1>4, <2>1, <2>2 DEF ReadAreRows, PlanAt
  <2>4. ReservedAreOwn'
    <3> SUFFICES ASSUME NEW q \in Plans, plan'[q].step \in {"spend", "release"}, plan'[q].week = week,
                        NEW k \in plan'[q].rows
                 PROVE  IsRow(k)' /\ discovery'[k].queuedBy = q
      BY <1>3 DEF ReservedAreOwn
    <3>1. q # p /\ plan'[q] = plan[q] /\ k \in Phrases BY <1>2, <2>2
    <3>2. IsRow(k) /\ discovery[k].queuedBy = q BY <2>1, <3>1 DEF ReservedAreOwn
    <3> QED BY <1>4, <3>1, <3>2
  <2>5. QueuedAreMarked'
    <3> SUFFICES ASSUME NEW k \in Phrases, <<k, week>> \in searches
                 PROVE  /\ IsRow(k)' /\ discovery'[k].queuedBy \in Plans
                        /\ plan'[discovery'[k].queuedBy].step = "over"
                        /\ plan'[discovery'[k].queuedBy].week = week
      BY <1>3 DEF QueuedAreMarked, PlanAt
    <3>1. /\ IsRow(k) /\ discovery[k].queuedBy \in Plans
          /\ plan[discovery[k].queuedBy].step = "over" /\ plan[discovery[k].queuedBy].week = week
      BY <2>1 DEF QueuedAreMarked, PlanAt
    <3> QED BY <1>2, <1>3, <1>4, <3>1
  <2>6. PendingFits'
    <3>1. \A w \in 0..MaxWeek : Pending(w)' \subseteq Pending(w) BY <1>2, <1>3 DEF Pending, PlanAt
    <3> QED BY <2>1, <3>1, FewerFit
  <2> QED BY <2>3, <2>4, <2>5, <2>6
<1> QED BY <1>5, <1>6, <1>7 DEF WeekInv

LEMMA WeekStep == WeekInv /\ [WeekNext]_weekVars => WeekInv'
<1> SUFFICES ASSUME WeekInv, [WeekNext]_weekVars PROVE WeekInv' OBVIOUS
<1>1. CASE NextWeek
  <2>1. /\ week \in 0..MaxWeek /\ week' = week + 1 /\ week' \in 0..MaxWeek /\ week \in Nat
        /\ UNCHANGED <<discovery, plan, searches, escaped>>
    BY <1>1, WeekAssumption DEF NextWeek, WeekInv, WeekTypeOK
  <2>2. WeekTypeOK' BY <2>1 DEF WeekInv, WeekTypeOK
  <2>3. /\ \A p \in Plans : plan[p].week <= week /\ plan[p].week \in Nat
        /\ \A k \in Phrases : <<k, week'>> \notin searches
    BY <2>1, WeekAssumption DEF WeekInv, NoneAhead, WeekTypeOK, PlanType
  <2>4. NoneAhead' BY <2>1, WeekAssumption DEF WeekInv, NoneAhead, WeekTypeOK, PlanType
  <2>5. ReservedAreOwn' /\ QueuedAreMarked' BY <2>1, <2>3 DEF ReservedAreOwn, QueuedAreMarked
  <2>6. ~escaped' => ReadAreRows' /\ PendingFits'
    BY <2>1 DEF WeekInv, ReadAreRows, PendingFits, Pending, PlanAt, IsRow
  <2> QED BY <2>2, <2>4, <2>5, <2>6 DEF WeekInv
<1>2. CASE UNCHANGED weekVars
  BY <1>2 DEF weekVars, WeekInv, WeekTypeOK, NoneAhead, ReadAreRows, ReservedAreOwn,
     QueuedAreMarked, PendingFits, Pending, PlanAt, IsRow
<1> QED
  BY <1>1, <1>2, ReadKeepsWeek, RowKeepsWeek, ReserveKeepsWeek, QueueKeepsWeek, ReleaseKeepsWeek
     DEF WeekNext

LEMMA WeekStart == WeekInit => WeekInv
<1> SUFFICES ASSUME WeekInit PROVE WeekInv OBVIOUS
<1>1. Unplanned \in PlanType /\ Unplanned.step = "idle" /\ Unplanned.week = 0
  BY WeekAssumption DEF Unplanned, PlanType
<1>2. \A seen \in BOOLEAN : Discovery("open", seen, NoPlan) \in DiscoveryType
  BY DEF Discovery, DiscoveryType
<1>3. WeekTypeOK
  <2>1. discovery \in [Phrases -> DiscoveryType] BY <1>2 DEF WeekInit, DiscoveryType
  <2>2. week \in 0..MaxWeek BY WeekAssumption DEF WeekInit
  <2>3. escaped \in BOOLEAN BY Zenon DEF WeekInit
  <2>4. plan \in [Plans -> PlanType] /\ searches \subseteq Phrases \X (0..MaxWeek)
    BY <1>1 DEF WeekInit
  <2> QED BY <2>1, <2>2, <2>3, <2>4 DEF WeekTypeOK
<1>4. \A p \in Plans : plan[p].step = "idle" /\ plan[p].week = 0 BY <1>1 DEF WeekInit
<1>5. searches = {} /\ week = 0 BY DEF WeekInit
<1>6. NoneAhead /\ ReadAreRows /\ ReservedAreOwn /\ QueuedAreMarked
  BY <1>4, <1>5 DEF NoneAhead, ReadAreRows, ReservedAreOwn, QueuedAreMarked, PlanAt
<1>7. PendingFits
  <2>1. \A w \in 0..MaxWeek : Pending(w) = {} BY <1>4, <1>5 DEF Pending, PlanAt
  <2> QED BY <2>1, FS_EmptySet, WeekAssumption DEF PendingFits
<1> QED BY <1>3, <1>6, <1>7 DEF WeekInv

LEMMA WeekInvHolds == WeekSpec => []WeekInv
BY WeekStart, WeekStep, PTL DEF WeekSpec

\* Every variable of the plans of searches keeps its type.
THEOREM WeekTypes == WeekSpec => []WeekTypeOK
<1>1. WeekInv => WeekTypeOK BY DEF WeekInv
<1> QED BY <1>1, WeekInvHolds, PTL

\* An app gets at most its cap of searches in a week, for any number of phrases and plans
\* and any cap.
THEOREM WeeksAreCapped == WeekSpec => []WeeklyCap
<1>1. WeekInv => WeeklyCap
  <2> SUFFICES ASSUME WeekInv, ~escaped, NEW w \in 0..MaxWeek
               PROVE  Cardinality({k \in Phrases : <<k, w>> \in searches}) <= Cap
    BY DEF WeeklyCap
  <2> DEFINE S == {k \in Phrases : <<k, w>> \in searches}
  <2>1. S \subseteq Pending(w) /\ Pending(w) \subseteq Phrases BY DEF Pending
  <2>2. /\ Cardinality(S) <= Cardinality(Pending(w))
        /\ Cardinality(S) \in Nat /\ Cardinality(Pending(w)) \in Nat
    BY <2>1, PhrasesAreCounted
  <2>3. Cardinality(Pending(w)) <= Cap BY DEF WeekInv, PendingFits
  <2> QED BY <2>2, <2>3, WeekAssumption
<1> QED BY <1>1, WeekInvHolds, PTL
-----------------------------------------------------------------------------
(* The room of a plan *)

Waits(a) == admission[a].step \in {"idle", "lock"}

\* The lock admits one call at a time.
OneWrites == \A a, b \in Admissions : a # b => Waits(a) \/ Waits(b)

\* A call that has counted fits, until a listing is captured or it commits.
WillFit == \A a \in Admissions :
  AdmissionAt(a, "commit") /\ ~admission[a].crossed =>
    \/ After(a) <= admission[a].limit
    \/ After(a) <= admission[a].before

RoomInv == RoomTypeOK /\ OneWrites /\ WillFit

LEMMA KeywordsAreCounted ==
  ASSUME NEW S \in SUBSET Keywords
  PROVE  /\ Cardinality(S) \in Nat
         /\ \A T \in SUBSET S : Cardinality(T) \in Nat /\ Cardinality(T) <= Cardinality(S)
<1>1. IsFiniteSet(S) /\ \A T \in SUBSET S : IsFiniteSet(T) BY RoomAssumption, FS_Subset
<1> QED BY <1>1, FS_Subset, FS_CardinalityType

\* A step of one call that leaves the keywords alone.
LEMMA CallGoesOn ==
  ASSUME RoomInv, NEW a \in Admissions, NEW v \in AdmissionType,
         admission' = [admission EXCEPT ![a] = v], UNCHANGED <<planLimit, active>>,
         v.step \in {"idle", "lock"} \/ \A b \in Admissions \ {a} : Waits(b),
         v.step = "commit" /\ ~v.crossed =>
           \/ Cardinality(active \cup v.written) <= v.limit
           \/ Cardinality(active \cup v.written) <= v.before
  PROVE  RoomInv'
<1>1. /\ admission' \in [Admissions -> AdmissionType] /\ admission'[a] = v
      /\ \A b \in Admissions \ {a} : admission'[b] = admission[b]
  BY DEF RoomInv, RoomTypeOK
<1>2. RoomTypeOK' BY <1>1 DEF RoomInv, RoomTypeOK
<1>3. OneWrites' BY <1>1 DEF RoomInv, OneWrites, Waits
<1>4. WillFit' BY <1>1 DEF RoomInv, WillFit, AdmissionAt, After
<1> QED BY <1>2, <1>3, <1>4 DEF RoomInv

LEMMA CallKeepsRoom ==
  ASSUME RoomInv, NEW a \in Admissions,
         \/ \E wanted \in SUBSET Keywords : BeginAdmission(a, wanted)
         \/ SerializeAdmission(a) \/ CountBefore(a) \/ WriteAdmitted(a) \/ CountAfter(a)
         \/ AdmissionFails(a)
  PROVE  RoomInv'
<1>1. admission[a] \in AdmissionType /\ planLimit \in 0..MaxLimit /\ active \subseteq Keywords
  BY DEF RoomInv, RoomTypeOK
<1>2. NoAdmission \in AdmissionType BY RoomAssumption DEF NoAdmission, AdmissionType
<1>3. ASSUME EndAdmission(a), UNCHANGED <<planLimit, active>> PROVE RoomInv'
  BY <1>2, <1>3, CallGoesOn DEF EndAdmission, NoAdmission
<1>4. ~Waits(a) => \A b \in Admissions \ {a} : Waits(b) BY DEF RoomInv, OneWrites
<1>5. ASSUME NEW wanted \in SUBSET Keywords, BeginAdmission(a, wanted) PROVE RoomInv'
  <2> DEFINE v == [NoAdmission EXCEPT !.step = "lock", !.wanted = wanted, !.limit = planLimit]
  <2>1. v \in AdmissionType /\ v.step = "lock" BY <1>1, <1>2 DEF NoAdmission, AdmissionType
  <2> QED BY <1>5, <2>1, CallGoesOn DEF BeginAdmission
<1>6. CASE SerializeAdmission(a)
  <2> DEFINE v == [admission[a] EXCEPT !.step = "count"]
  <2>1. v \in AdmissionType /\ v.step = "count" BY <1>1 DEF AdmissionType
  <2>2. admission' = [admission EXCEPT ![a] = v] BY <1>6 DEF SerializeAdmission
  <2>3. \A b \in Admissions \ {a} : Waits(b) BY <1>6 DEF SerializeAdmission, LockIsFree, Waits
  <2> QED BY <1>6, <2>1, <2>2, <2>3, CallGoesOn DEF SerializeAdmission
<1>7. CASE CountBefore(a)
  <2> DEFINE v == [admission[a] EXCEPT !.step = "write", !.before = Cardinality(active)]
  <2>1. v \in AdmissionType /\ v.step = "write" BY <1>1, KeywordsAreCounted DEF AdmissionType
  <2>2. admission' = [admission EXCEPT ![a] = v] BY <1>7 DEF CountBefore
  <2>3. ~Waits(a) BY <1>7 DEF CountBefore, AdmissionAt, Waits
  <2> QED BY <1>4, <1>7, <2>1, <2>2, <2>3, CallGoesOn DEF CountBefore
<1>8. CASE WriteAdmitted(a)
  <2> DEFINE v == [admission[a] EXCEPT !.step = "check", !.written = admission[a].wanted \ active]
  <2>1. v \in AdmissionType /\ v.step = "check" BY <1>1 DEF AdmissionType
  <2>2. admission' = [admission EXCEPT ![a] = v] BY <1>8 DEF WriteAdmitted
  <2>3. ~Waits(a) BY <1>8 DEF WriteAdmitted, AdmissionAt, Waits
  <2> QED BY <1>4, <1>8, <2>1, <2>2, <2>3, CallGoesOn DEF WriteAdmitted
<1>9. CASE CountAfter(a)
  <2>1. CASE After(a) > admission[a].limit /\ After(a) > admission[a].before
    BY <1>3, <1>9, <2>1 DEF CountAfter
  <2>2. CASE ~(After(a) > admission[a].limit /\ After(a) > admission[a].before)
    <3> DEFINE v == [admission[a] EXCEPT !.step = "commit"]
    <3>1. v \in AdmissionType /\ v.step = "commit" BY <1>1 DEF AdmissionType
    <3>2. admission' = [admission EXCEPT ![a] = v] BY <1>9, <2>2 DEF CountAfter
    <3>3. ~Waits(a) BY <1>9 DEF CountAfter, AdmissionAt, Waits
    <3>4. /\ v.written = admission[a].written /\ v.limit = admission[a].limit
          /\ v.before = admission[a].before
      BY <1>1 DEF AdmissionType
    <3>5. After(a) \in Nat /\ v.limit \in Nat /\ v.before \in Nat
      BY <1>1, <3>4, KeywordsAreCounted, RoomAssumption DEF After, AdmissionType
    <3>6. After(a) <= v.limit \/ After(a) <= v.before BY <2>2, <3>4, <3>5
    <3> QED BY <1>4, <1>9, <3>1, <3>2, <3>3, <3>4, <3>6, CallGoesOn DEF CountAfter, After
  <2> QED BY <2>1, <2>2
<1>10. CASE AdmissionFails(a) BY <1>3, <1>10 DEF AdmissionFails
<1> QED BY <1>5, <1>6, <1>7, <1>8, <1>9, <1>10

LEMMA RoomStep == RoomInv /\ [RoomNext]_roomVars => RoomInv'
<1> SUFFICES ASSUME RoomInv, [RoomNext]_roomVars PROVE RoomInv' OBVIOUS
<1>1. ASSUME NEW a \in Admissions, CommitAdmission(a) PROVE RoomInv'
  <2>1. /\ admission' = [admission EXCEPT ![a] = NoAdmission] /\ planLimit' = planLimit
        /\ active' = active \cup admission[a].written /\ ~Waits(a)
    BY <1>1 DEF CommitAdmission, EndAdmission, AdmissionAt, Waits
  <2>2. NoAdmission \in AdmissionType BY RoomAssumption DEF NoAdmission, AdmissionType
  <2>3. RoomTypeOK'
    <3>1. admission[a].written \subseteq Keywords BY DEF RoomInv, RoomTypeOK, AdmissionType
    <3> QED BY <2>1, <2>2, <3>1 DEF RoomInv, RoomTypeOK
  <2>4. /\ admission'[a].step = "idle"
        /\ \A b \in Admissions \ {a} : admission'[b] = admission[b] /\ Waits(b)
    BY <2>1 DEF NoAdmission, RoomInv, RoomTypeOK, OneWrites
  <2>5. OneWrites' /\ WillFit' BY <2>4 DEF OneWrites, Waits, WillFit, AdmissionAt
  <2> QED BY <2>3, <2>5 DEF RoomInv
<1>2. ASSUME NEW limit \in 0..MaxLimit, PlanChanges(limit) PROVE RoomInv'
  BY <1>2 DEF PlanChanges, RoomInv, RoomTypeOK, OneWrites, Waits, WillFit, AdmissionAt, After
<1>3. ASSUME NEW k \in Keywords, PauseKeyword(k) PROVE RoomInv'
  <2>1. active' = active \ {k} /\ UNCHANGED <<planLimit, admission>> BY <1>3 DEF PauseKeyword
  <2>2. RoomTypeOK' /\ OneWrites' BY <2>1 DEF RoomInv, RoomTypeOK, OneWrites, Waits
  <2>3. ASSUME NEW a \in Admissions PROVE After(a)' <= After(a) /\ After(a)' \in Nat /\ After(a) \in Nat
    <3>1. active \cup admission[a].written \subseteq Keywords
      BY DEF RoomInv, RoomTypeOK, AdmissionType
    <3>2. active' \cup admission'[a].written \subseteq active \cup admission[a].written BY <2>1
    <3> QED BY <3>1, <3>2, KeywordsAreCounted DEF After
  <2>4. WillFit'
    <3> SUFFICES ASSUME NEW a \in Admissions, AdmissionAt(a, "commit")', ~admission'[a].crossed
                 PROVE  After(a)' <= admission'[a].limit \/ After(a)' <= admission'[a].before
      BY DEF WillFit
    <3>1. After(a) <= admission[a].limit \/ After(a) <= admission[a].before
      BY <2>1 DEF RoomInv, WillFit, AdmissionAt
    <3>2. admission[a].limit \in Nat /\ admission[a].before \in Nat
      BY RoomAssumption DEF RoomInv, RoomTypeOK, AdmissionType
    <3> QED BY <2>1, <2>3, <3>1, <3>2
  <2> QED BY <2>2, <2>4 DEF RoomInv
<1>4. ASSUME NEW k \in Keywords, SyncFromSnapshot(k) PROVE RoomInv'
  <2>1. ASSUME NEW a \in Admissions
        PROVE  /\ admission'[a] \in AdmissionType /\ admission'[a].step = admission[a].step
               /\ AdmissionAt(a, "commit") => admission'[a].crossed
    <3>1. admission[a] \in AdmissionType BY DEF RoomInv, RoomTypeOK
    <3> QED BY <1>4, <3>1 DEF SyncFromSnapshot, AdmissionType
  <2>2. RoomTypeOK'
    <3>1. admission' \in [Admissions -> AdmissionType] BY <1>4, <2>1 DEF SyncFromSnapshot
    <3> QED BY <1>4, <3>1 DEF SyncFromSnapshot, RoomInv, RoomTypeOK
  <2>3. OneWrites' /\ WillFit' BY <2>1 DEF RoomInv, OneWrites, Waits, WillFit, AdmissionAt
  <2> QED BY <2>2, <2>3 DEF RoomInv
<1>5. CASE UNCHANGED roomVars
  BY <1>5 DEF roomVars, RoomInv, RoomTypeOK, OneWrites, Waits, WillFit, AdmissionAt, After
<1> QED BY <1>1, <1>2, <1>3, <1>4, <1>5, CallKeepsRoom DEF RoomNext

LEMMA RoomStart == RoomInit => RoomInv
<1> SUFFICES ASSUME RoomInit PROVE RoomInv OBVIOUS
<1>1. NoAdmission \in AdmissionType BY RoomAssumption DEF NoAdmission, AdmissionType
<1>2. \A a \in Admissions : admission[a].step = "idle" BY DEF RoomInit, NoAdmission
<1>3. RoomTypeOK BY <1>1 DEF RoomInit, RoomTypeOK
<1> QED BY <1>2, <1>3 DEF RoomInv, OneWrites, Waits, WillFit, AdmissionAt

\* Every variable of the admissions keeps its type.
THEOREM RoomTypes == RoomSpec => []RoomTypeOK
<1>1. RoomInv => RoomTypeOK BY DEF RoomInv
<1> QED BY <1>1, RoomStart, RoomStep, PTL DEF RoomSpec

\* An admission that adds leaves the workspace within its limit, for any number of calls,
\* keywords and changes of the plan.
THEOREM RoomIsHeld == RoomSpec => RoomHolds
<1>1. RoomInv /\ [RoomNext]_roomVars =>
        [\A a \in Admissions :
           AdmissionAt(a, "commit") /\ admission'[a].step = "idle" /\ ~admission[a].crossed
             /\ ~(active' \subseteq active) =>
             \/ Cardinality(active') <= admission[a].limit
             \/ Cardinality(active') <= admission[a].before]_roomVars
  <2> SUFFICES ASSUME RoomInv, RoomNext, NEW a \in Admissions,
                      AdmissionAt(a, "commit"), admission'[a].step = "idle",
                      ~admission[a].crossed, ~(active' \subseteq active)
               PROVE  \/ Cardinality(active') <= admission[a].limit
                      \/ Cardinality(active') <= admission[a].before
    BY DEF roomVars
  <2>1. admission \in [Admissions -> AdmissionType] BY DEF RoomInv, RoomTypeOK
  <2>2. CASE CommitAdmission(a)
    BY <2>2 DEF CommitAdmission, RoomInv, WillFit, After
  <2>3. ASSUME NEW b \in Admissions, b # a, CommitAdmission(b) PROVE FALSE
    BY <2>3 DEF CommitAdmission, RoomInv, OneWrites, Waits, AdmissionAt
  <2>4. ASSUME NEW k \in Keywords, SyncFromSnapshot(k) PROVE FALSE
    BY <2>1, <2>4 DEF SyncFromSnapshot, AdmissionAt, AdmissionType
  <2>5. CASE active' \subseteq active BY <2>5
  <2> QED
    BY <2>2, <2>3, <2>4, <2>5 DEF RoomNext, BeginAdmission, SerializeAdmission, CountBefore,
       WriteAdmitted, CountAfter, AdmissionFails, PlanChanges, PauseKeyword
<1> QED BY <1>1, RoomStart, RoomStep, PTL DEF RoomSpec, RoomHolds
=============================================================================
