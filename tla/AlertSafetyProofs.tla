-------------------------- MODULE AlertSafetyProofs --------------------------
(***************************************************************************)
(* Safety of the alert outbox when the system runs in batched mode: the    *)
(* invariant BatchedInv is inductive, and what follows from it, for every  *)
(* number of keys, texts, dispatchers, flushes and channels.               *)
(***************************************************************************)
EXTENDS AlertOutboxProofs

USE DEF AnyText

\* In batched mode a dispatcher touches one pending row at most, or adds one.
LEMMA DispatcherEffect ==
  ASSUME BatchedInv, NEW d \in Dispatchers, DispatcherStep(d)
  PROVE  /\ UNCHANGED <<flushId, flushed, lastClaim, envVars, fpc, txVars, claimVars,
                        jobs, handed>>
         /\ \/ payload' = payload
            \/ \E k \in Keys, t \in Texts : /\ flushId[k] = 0 /\ k \notin flushed
                                            /\ payload' = [payload EXCEPT ![k] = t]
<1> USE DEF rowVars, envVars, txVars, claimVars, queueVars
<1>1. mode = "batched" /\ TypeOK /\ RowsInOrder
  BY DEF BatchedInv
<1>2. ASSUME NEW k \in Keys, NEW t \in Texts, Dispatch(d, k, t)
      PROVE  UNCHANGED <<rowVars, envVars, fpc, txVars, claimVars, queueVars>>
  BY <1>2 DEF Dispatch
<1>3. ASSUME dpc[d] # "idle", Write(d), flushId[call[d][1]] = 0, call[d][1] \notin flushed
      PROVE  /\ UNCHANGED <<flushId, flushed, lastClaim>>
             /\ \E k \in Keys, t \in Texts : /\ flushId[k] = 0 /\ k \notin flushed
                                             /\ payload' = [payload EXCEPT ![k] = t]
  BY <1>1, <1>3 DEF Write, Settles, TypeOK, DispatcherTypes
<1>4. dpc[d] # "idle" /\ ~Exists(call[d][1]) =>
        flushId[call[d][1]] = 0 /\ call[d][1] \notin flushed
  BY <1>1 DEF RowsInOrder, Exists, TypeOK, DispatcherTypes
<1>5. Matches(call[d][1]) => flushId[call[d][1]] = 0 /\ call[d][1] \notin flushed
  BY <1>1 DEF Matches, Pending
<1>6. CASE UpdateRow(d)
  BY <1>3, <1>5, <1>6 DEF UpdateRow
<1>7. CASE CreateRow(d)
  BY <1>3, <1>4, <1>7 DEF CreateRow
<1>8. CASE UpdateRowAgain(d)
  BY <1>3, <1>5, <1>8 DEF UpdateRowAgain
<1>9. CASE FanOut(d) \/ DispatchFails(d) \/ CrashDispatch(d)
  BY <1>9 DEF FanOut, DispatchFails, CrashDispatch
<1> QED
  BY <1>2, <1>6, <1>7, <1>8, <1>9 DEF DispatcherStep

LEMMA DispatcherSafe ==
  ASSUME BatchedInv, NEW d \in Dispatchers, DispatcherStep(d) PROVE BatchedInv'
<1>1. TypeOK'
  BY DispatcherType DEF BatchedInv
<1>2. /\ UNCHANGED <<flushId, flushed, lastClaim, envVars, fpc, txVars, claimVars,
                     jobs, handed>>
      /\ \A k \in Keys : flushId[k] # 0 => payload'[k] = payload[k]
  BY DispatcherEffect DEF BatchedInv, TypeOK, RowTypes
<1> USE DEF envVars, txVars, claimVars
<1>3. RowsInOrder'
  BY DispatcherEffect, OutboxAssumption DEF BatchedInv, RowsInOrder, TypeOK, RowTypes
<1>4. \A c \in Claims : Members(c)' = Members(c) /\ ClaimRows(c)' = ClaimRows(c)
  BY <1>2 DEF Members, ClaimRows, Claims
<1>5. LoadedIsCurrent'
  BY <1>2, <1>4, CurrentIsClaim, WorkerHasClaim
    DEF BatchedInv, LoadedIsCurrent, AtWork, Current
<1>6. /\ mode' = "batched" /\ ClaimsNumbered' /\ ClaimsAreWhole'
  BY <1>2, <1>4 DEF BatchedInv, ClaimsNumbered, ClaimsAreWhole
<1>7. JobsMatchOutbox' /\ JobsAreComplete'
  BY <1>2 DEF BatchedInv, JobsMatchOutbox, JobsAreComplete, TypeOK, QueueTypes, JobType, Claims
<1>8. \A c \in Claims : Reached(c) => Reached(c)'
  BY <1>2, <1>4 DEF Reached, Members, Steady, Claims
<1>9. EnqueuedReached'
  BY <1>2, <1>8, CurrentIsClaim, WorkerHasClaim
    DEF BatchedInv, EnqueuedReached, Current, Steady, AtWork
<1>10. FlushedReachedChannels'
  BY <1>2 DEF BatchedInv, FlushedReachedChannels, TypeOK, RowTypes
<1> QED
  BY <1>1, <1>3, <1>5, <1>6, <1>7, <1>9, <1>10 DEF BatchedInv

\* A step of a flush that leaves the rows and the queue alone.
LEMMA QuietStep ==
  ASSUME BatchedInv, TypeOK', ClaimsNumbered', LoadedIsCurrent', EnqueuedReached',
         UNCHANGED <<rowVars, envVars, jobs>>
  PROVE  BatchedInv'
BY DEF BatchedInv, RowsInOrder, ClaimsAreWhole, JobsMatchOutbox, JobsAreComplete,
  FlushedReachedChannels, Members, rowVars, envVars

LEMMA BeginSafe ==
  ASSUME BatchedInv, NEW f \in Flushers, BeginFlush(f) PROVE BatchedInv'
<1> USE DEF rowVars, envVars, queueVars
<1>1. TypeOK'
  BY FlusherType DEF BatchedInv, FlusherStep
<1>2. ClaimsNumbered'
  BY NumberedStep DEF BatchedInv, Next, FlusherStep
<1>3. LoadedIsCurrent'
  BY DEF BatchedInv, BeginFlush, LoadedIsCurrent, AtWork, Current, ClaimRows, Members,
    TypeOK, FlushTypes
<1>4. EnqueuedReached'
  BY DEF BatchedInv, BeginFlush, EnqueuedReached, Current, Reached, Members, Steady,
    TypeOK, FlushTypes
<1> QED
  BY <1>1, <1>2, <1>3, <1>4, QuietStep DEF BeginFlush

LEMMA ConflictSafe ==
  ASSUME BatchedInv, NEW f \in Flushers, ClaimConflicts(f) PROVE BatchedInv'
<1> USE DEF rowVars, envVars, queueVars
<1>1. TypeOK'
  BY FlusherType DEF BatchedInv, FlusherStep
<1>2. ClaimsNumbered'
  BY NumberedStep DEF BatchedInv, Next, FlusherStep
<1>3. LoadedIsCurrent'
  BY DEF BatchedInv, ClaimConflicts, LoadedIsCurrent, AtWork, Current, ClaimRows, Members,
    TypeOK, FlushTypes
<1>4. EnqueuedReached'
  BY DEF BatchedInv, ClaimConflicts, EnqueuedReached, Current, Reached, Members, Steady,
    TypeOK, FlushTypes
<1> QED
  BY <1>1, <1>2, <1>3, <1>4, QuietStep DEF ClaimConflicts

LEMMA CommitSafe ==
  ASSUME BatchedInv, NEW f \in Flushers, ClaimCommits(f) PROVE BatchedInv'
<1> USE DEF rowVars, envVars, queueVars
<1> DEFINE target == {k \in Keys : seen[f][k] # NoText}
<1>1. TypeOK /\ TypeOK' /\ ClaimsNumbered
  BY FlusherType DEF BatchedInv, FlusherStep
<1>2. \A k \in target : Pending(k)
  BY DEF ClaimCommits, SnapshotHolds, PendingRows
<1>3. /\ UNCHANGED <<payload, flushed, mode, active, loaded, audience, jobs, handed>>
      /\ \A k \in Keys : flushId'[k] = IF k \in target THEN FreshClaim ELSE flushId[k]
      /\ target = {} => lastClaim' = lastClaim
      /\ target # {} => lastClaim' = FreshClaim
  BY DEF ClaimCommits
<1>5. ClaimsNumbered'
  BY NumberedStep DEF BatchedInv, Next, FlusherStep
<1>6. RowsInOrder'
  BY <1>2, <1>3, FreshIsNew, <1>1 DEF BatchedInv, RowsInOrder, Pending, Exists
<1>7. \A c \in Claims : c # FreshClaim => Members(c)' = Members(c) /\ ClaimRows(c)' = ClaimRows(c)
  BY <1>2, <1>3 DEF Members, ClaimRows, Pending, Claims
<1>8. ClaimsAreWhole'
  <2>1. ASSUME NEW c \in Claims, c = FreshClaim PROVE Members(c)' \cap flushed' = {}
    <3>1. \A k \in Keys : flushId'[k] = c => k \in target
      BY <1>1, <1>3, <2>1, FreshIsNew
    <3> QED
      BY <1>2, <1>3, <3>1 DEF Members, Pending
  <2> QED
    BY <1>3, <1>7, <2>1 DEF BatchedInv, ClaimsAreWhole
<1>9. \A g \in Flushers : AtWork(g)' =>
        AtWork(g) /\ fpc'[g] = fpc[g] /\ Current(g)' = Current(g) /\ Current(g) # FreshClaim
  <2> SUFFICES ASSUME NEW g \in Flushers, AtWork(g)'
               PROVE  AtWork(g) /\ fpc'[g] = fpc[g] /\ Current(g)' = Current(g)
                      /\ Current(g) # FreshClaim
    OBVIOUS
  <2>1. g # f /\ fpc'[g] = fpc[g] /\ todo'[g] = todo[g]
    BY <1>1 DEF ClaimCommits, AtWork, TypeOK, FlushTypes
  <2>2. AtWork(g) /\ Current(g)' = Current(g)
    BY <2>1 DEF AtWork, Current
  <2> QED
    BY <1>1, <2>1, <2>2, FreshIsNew, CurrentIsClaim, WorkerHasClaim
<1>10. LoadedIsCurrent'
  BY <1>1, <1>3, <1>7, <1>9, CurrentIsClaim, WorkerHasClaim DEF BatchedInv, LoadedIsCurrent
<1>11. JobsMatchOutbox' /\ JobsAreComplete'
  BY <1>1, <1>3, FreshIsNew DEF BatchedInv, JobsMatchOutbox, JobsAreComplete
<1>12. \A c \in Claims : c # FreshClaim /\ Reached(c) => Reached(c)'
  BY <1>3, <1>7 DEF Reached, Steady
<1>13. EnqueuedReached'
  BY <1>1, <1>3, <1>9, <1>12, CurrentIsClaim, WorkerHasClaim
    DEF BatchedInv, EnqueuedReached, Steady, AtWork
<1>14. FlushedReachedChannels'
  BY <1>1, <1>2, <1>3 DEF BatchedInv, FlushedReachedChannels, Pending, TypeOK, RowTypes
<1> QED
  BY <1>1, <1>3, <1>5, <1>6, <1>8, <1>10, <1>11, <1>13, <1>14 DEF BatchedInv

LEMMA LoadSafe ==
  ASSUME BatchedInv, NEW f \in Flushers, LoadClaim(f) PROVE BatchedInv'
<1> USE DEF rowVars, envVars, queueVars, txVars
<1>1. TypeOK /\ TypeOK'
  BY FlusherType DEF BatchedInv, FlusherStep
<1>3. ClaimsNumbered'
  BY NumberedStep DEF BatchedInv, Next, FlusherStep
<1>4. \A c : Members(c)' = Members(c) /\ ClaimRows(c)' = ClaimRows(c)
  BY DEF LoadClaim, Members, ClaimRows
<1>5. fpc'[f] \in {"next", "loaded"}
  BY <1>1 DEF LoadClaim, NextClaim, TypeOK, FlushTypes
<1>6. ASSUME NEW g \in Flushers, g # f
      PROVE  fpc'[g] = fpc[g] /\ todo'[g] = todo[g] /\ loaded'[g] = loaded[g]
             /\ audience'[g] = audience[g]
  BY <1>1, <1>6 DEF LoadClaim, NextClaim, Forget, TypeOK, FlushTypes
<1>7. fpc'[f] = "loaded" => /\ loaded'[f] = ClaimRows(Current(f))
                            /\ todo' = todo /\ Members(Current(f)) # {}
  BY <1>1 DEF LoadClaim, NextClaim, TypeOK, FlushTypes
<1>8. LoadedIsCurrent'
  <2>1. ASSUME NEW g \in Flushers, AtWork(g)'
        PROVE  loaded'[g] = ClaimRows(Current(g))' /\ Members(Current(g))' # {}
    <3>1. CASE g = f
      BY <2>1, <3>1, <1>4, <1>5, <1>7 DEF AtWork, Current
    <3>2. CASE g # f
      BY <2>1, <3>2, <1>4, <1>6 DEF AtWork, Current, BatchedInv, LoadedIsCurrent
    <3> QED
      BY <3>1, <3>2
  <2> QED
    BY <2>1 DEF LoadedIsCurrent
<1>9. EnqueuedReached'
  <2>1. \A c : Reached(c) => Reached(c)'
    BY <1>4 DEF LoadClaim, Reached, Steady
  <2>2. ASSUME NEW g \in Flushers, fpc'[g] \in {"addressed", "enqueued"}
        PROVE  /\ fpc'[g] = fpc[g] /\ Current(g)' = Current(g)
               /\ audience'[g] = audience[g]
    BY <2>2, <1>5, <1>6 DEF Current
  <2> QED
    BY <2>1, <2>2 DEF LoadClaim, BatchedInv, EnqueuedReached, Steady
<1> QED
  BY <1>1, <1>3, <1>8, <1>9, QuietStep DEF LoadClaim

LEMMA ReadSafe ==
  ASSUME BatchedInv, NEW f \in Flushers, ReadChannels(f) PROVE BatchedInv'
<1> USE DEF rowVars, envVars, queueVars, txVars
<1>1. TypeOK /\ TypeOK'
  BY FlusherType DEF BatchedInv, FlusherStep
<1>2. ClaimsNumbered' /\ LoadedIsCurrent'
  BY <1>1 DEF BatchedInv, ReadChannels, ClaimsNumbered, LoadedIsCurrent, AtWork, Current,
    ClaimRows, Members, TypeOK, FlushTypes
<1>3. EnqueuedReached'
  BY <1>1 DEF BatchedInv, ReadChannels, EnqueuedReached, Current, Reached, Members, Steady,
    TypeOK, FlushTypes
<1> QED
  BY <1>1, <1>2, <1>3, QuietStep DEF ReadChannels

\* Failing, ending and dying flushes forget; they do nothing else.
LEMMA LeaveSafe ==
  ASSUME BatchedInv, NEW f \in Flushers, ClaimFails(f) \/ EndFlush(f) \/ CrashFlush(f)
  PROVE  BatchedInv'
<1> USE DEF rowVars, envVars, queueVars, txVars, claimVars
<1>1. TypeOK /\ TypeOK'
  BY FlusherType DEF BatchedInv, FlusherStep
<1>2. /\ UNCHANGED <<rowVars, envVars, jobs, handed>>
      /\ fpc'[f] \in {"idle", "next", "returned", "threw"}
      /\ \A g \in Flushers : /\ took'[g] \subseteq took[g] /\ todo'[g] \subseteq todo[g]
                              /\ unfinished'[g] \subseteq unfinished[g]
      /\ \A g \in Flushers : g # f =>
           /\ fpc'[g] = fpc[g] /\ todo'[g] = todo[g] /\ loaded'[g] = loaded[g]
           /\ audience'[g] = audience[g]
  <2>1. CASE ClaimFails(f)
    BY <1>1, <2>1 DEF ClaimFails, NextClaim, Forget, TypeOK, FlushTypes
  <2>2. CASE EndFlush(f)
    BY <1>1, <2>2 DEF EndFlush, TypeOK, FlushTypes
  <2>3. CASE CrashFlush(f)
    BY <1>1, <2>3 DEF CrashFlush, Forget, CloseTx, TypeOK, FlushTypes, TxTypes
  <2> QED
    BY <1>1, <2>1, <2>2, <2>3
<1>3. ClaimsNumbered'
  BY NumberedStep DEF BatchedInv, Next, FlusherStep
<1>4. LoadedIsCurrent'
  BY <1>2 DEF BatchedInv, LoadedIsCurrent, AtWork, Current, ClaimRows, Members
<1>5. EnqueuedReached'
  BY <1>2 DEF BatchedInv, EnqueuedReached, Current, Reached, Members, Steady
<1> QED
  BY <1>1, <1>2, <1>3, <1>4, <1>5, QuietStep

\* A job that is added says exactly what its claim holds for its channel.
LEMMA BodyIsClaim ==
  ASSUME TypeOK, RowsInOrder, LoadedIsCurrent, NEW f \in Flushers, AtWork(f),
         NEW ch \in Channels, NEW scope
  PROVE  Body(f, ch, scope) = {<<k, payload[k]>> : k \in
           {x \in Members(Current(f)) : x \in Accepts[ch] /\ ScopeOf[x] = scope}}
<1>1. Current(f) # 0 /\ loaded[f] = ClaimRows(Current(f))
  BY CurrentIsClaim, WorkerHasClaim DEF LoadedIsCurrent
<1>2. Accepts[ch] \subseteq Keys
  BY OutboxAssumption
<1>3. \A x \in Keys : loaded[f][x] # NoText <=> x \in Members(Current(f))
  BY <1>1 DEF ClaimRows, Members, RowsInOrder
<1>4. \A x \in Members(Current(f)) : x \in Keys /\ loaded[f][x] = payload[x]
  BY <1>1 DEF ClaimRows, Members
<1> QED
  BY <1>2, <1>3, <1>4 DEF Body

LEMMA AddSafe ==
  ASSUME BatchedInv, NEW f \in Flushers, AddJobs(f) PROVE BatchedInv'
<1> USE DEF rowVars, envVars, claimVars, txVars
<1> DEFINE c0 == Current(f)
<1>1. TypeOK /\ TypeOK' /\ AtWork(f)
  BY FlusherType DEF BatchedInv, FlusherStep, AddJobs, AtWork
<1>2. c0 \in todo[f] /\ c0 \in Claims
  BY <1>1, CurrentIsClaim, WorkerHasClaim
<1>3. /\ UNCHANGED <<rowVars, envVars, txVars, claimVars>>
      /\ handed' = handed \cup {c0}
      /\ jobs' = jobs \cup {JobOf(f, p[1], p[2]) : p \in NewJobs(f)}
  BY DEF AddJobs
<1>4. \A p \in NewJobs(f) : p[1] \in Channels /\ p[2] \in Scopes
  BY <1>1 DEF NewJobs, TypeOK, FlushTypes
<1>5. \A j \in jobs' : j \notin jobs =>
        /\ j.claim = c0 /\ j.channel \in Channels
        /\ j.body = {<<k, payload[k]>> : k \in
             {x \in Members(c0) : x \in Accepts[j.channel] /\ ScopeOf[x] = j.scope}}
  <2>1. \A p \in NewJobs(f) : Body(f, p[1], p[2]) = {<<k, payload[k]>> : k \in
             {x \in Members(c0) : x \in Accepts[p[1]] /\ ScopeOf[x] = p[2]}}
    BY <1>1, <1>4, BodyIsClaim DEF BatchedInv
  <2> QED
    BY <1>3, <1>4, <2>1 DEF JobOf
<1>6. ClaimsNumbered'
  BY NumberedStep DEF BatchedInv, Next, FlusherStep
<1>7. JobsMatchOutbox'
  BY <1>3, <1>5 DEF BatchedInv, JobsMatchOutbox, Members
<1>8. JobsAreComplete'
  BY <1>3, <1>5 DEF BatchedInv, JobsAreComplete, Members
<1>9. \A c : Members(c)' = Members(c) /\ ClaimRows(c)' = ClaimRows(c)
  BY <1>3 DEF Members, ClaimRows
<1>10. \A g \in Flushers : Current(g)' = Current(g) /\ (AtWork(g)' => AtWork(g))
  BY <1>1, <1>3 DEF AddJobs, Current, AtWork, TypeOK, FlushTypes
<1>11. LoadedIsCurrent'
  BY <1>3, <1>9, <1>10 DEF BatchedInv, LoadedIsCurrent
<1>12. Reached(c0)'
  <2> SUFFICES ASSUME NEW k \in Members(c0), NEW ch \in Steady,
                      k \in Accepts[ch], ScopeOf[k] \in Scopes
               PROVE  \E j \in jobs' : /\ j.claim = c0 /\ j.channel = ch
                        /\ j.scope = ScopeOf[k] /\ <<k, payload[k]>> \in j.body
    BY <1>3, <1>9, <1>10 DEF Reached, Steady
  <2>1. ch \in audience[f] /\ ch \in Channels /\ k \in Keys /\ flushId[k] = c0
    BY <1>1 DEF BatchedInv, EnqueuedReached, AddJobs, TypeOK, FlushTypes, Members
  <2>2. CASE \E j \in jobs : j.claim = c0 /\ j.channel = ch /\ j.scope = ScopeOf[k]
    BY <2>1, <2>2, <1>3 DEF BatchedInv, JobsAreComplete
  <2>3. CASE ~\E j \in jobs : j.claim = c0 /\ j.channel = ch /\ j.scope = ScopeOf[k]
    <3>1. <<k, payload[k]>> \in Body(f, ch, ScopeOf[k])
      BY <1>1, <2>1, BodyIsClaim DEF BatchedInv
    <3>2. <<ch, ScopeOf[k]>> \in NewJobs(f)
      BY <2>1, <2>3, <3>1 DEF NewJobs
    <3>3. JobOf(f, ch, ScopeOf[k]) \in jobs'
      BY <1>3, <3>2
    <3> QED
      BY <3>1, <3>3 DEF JobOf
  <2> QED
    BY <2>2, <2>3
<1>13. \A c : Reached(c) => Reached(c)'
  BY <1>3, <1>9 DEF Reached, Steady
<1>14. EnqueuedReached'
  <2>1. \A g \in Flushers : fpc'[g] = "addressed" => Steady' \subseteq audience'[g]
    BY <1>1, <1>3 DEF BatchedInv, EnqueuedReached, AddJobs, Steady, TypeOK, FlushTypes
  <2>2. \A g \in Flushers : fpc'[g] = "enqueued" /\ g # f => fpc[g] = "enqueued"
    BY <1>1 DEF AddJobs, TypeOK, FlushTypes
  <2>3. \A g \in Flushers : fpc'[g] = "enqueued" =>
          Current(g)' \in handed' /\ Reached(Current(g))'
    BY <1>3, <1>10, <1>12, <1>13, <2>2 DEF BatchedInv, EnqueuedReached
  <2> QED
    BY <2>1, <2>3 DEF EnqueuedReached
<1>15. FlushedReachedChannels'
  BY <1>3 DEF BatchedInv, FlushedReachedChannels
<1>16. RowsInOrder' /\ ClaimsAreWhole'
  BY <1>3, <1>9 DEF BatchedInv, RowsInOrder, ClaimsAreWhole
<1> QED
  BY <1>1, <1>3, <1>6, <1>7, <1>8, <1>11, <1>14, <1>15, <1>16 DEF BatchedInv

LEMMA CompleteSafe ==
  ASSUME BatchedInv, NEW f \in Flushers, CompleteClaim(f) PROVE BatchedInv'
<1> USE DEF rowVars, envVars, txVars, queueVars
<1> DEFINE c0 == Current(f)
<1>1. TypeOK /\ TypeOK' /\ AtWork(f)
  BY FlusherType DEF BatchedInv, FlusherStep, CompleteClaim, AtWork
<1>2. c0 \in todo[f] /\ c0 \in Claims /\ c0 # 0
  BY <1>1, CurrentIsClaim, WorkerHasClaim
<1>3. /\ UNCHANGED <<payload, flushId, lastClaim, envVars, txVars, took, queueVars>>
      /\ flushed' = flushed \cup Members(c0)
      /\ fpc' = [fpc EXCEPT ![f] = "next"] /\ todo' = [todo EXCEPT ![f] = @ \ {c0}]
      /\ loaded' = [loaded EXCEPT ![f] = Nothing]
      /\ audience' = [audience EXCEPT ![f] = {}]
  BY DEF CompleteClaim, NextClaim, Forget
<1>4. ClaimsNumbered'
  BY NumberedStep DEF BatchedInv, Next, FlusherStep
<1>5. \A c : /\ Members(c)' = Members(c) /\ ClaimRows(c)' = ClaimRows(c)
             /\ Reached(c)' = Reached(c)
  BY <1>3 DEF Members, ClaimRows, Reached, Steady
<1>6. RowsInOrder'
  BY <1>2, <1>3 DEF BatchedInv, RowsInOrder, Members
<1>7. ClaimsAreWhole'
  BY <1>3, <1>5 DEF BatchedInv, ClaimsAreWhole, Members
<1>8. \A g \in Flushers : AtWork(g)' =>
        /\ AtWork(g) /\ fpc'[g] = fpc[g] /\ Current(g)' = Current(g)
        /\ loaded'[g] = loaded[g] /\ audience'[g] = audience[g]
  BY <1>1, <1>3 DEF AtWork, Current, TypeOK, FlushTypes
<1>9. LoadedIsCurrent'
  BY <1>5, <1>8 DEF BatchedInv, LoadedIsCurrent
<1>10. JobsMatchOutbox' /\ JobsAreComplete'
  BY <1>3 DEF BatchedInv, JobsMatchOutbox, JobsAreComplete
<1>11. EnqueuedReached'
  BY <1>3, <1>5, <1>8 DEF BatchedInv, EnqueuedReached, Steady, AtWork
<1>12. Reached(c0)
  BY DEF BatchedInv, EnqueuedReached, CompleteClaim
<1>13. FlushedReachedChannels'
  BY <1>3, <1>12 DEF BatchedInv, FlushedReachedChannels, Reached, Steady, Members
<1> QED
  BY <1>1, <1>3, <1>4, <1>6, <1>7, <1>9, <1>10, <1>11, <1>13 DEF BatchedInv

\* Retention removes whole claims that no flush will look at again.
LEMMA PruneSafe ==
  ASSUME BatchedInv, NEW c \in Claims, PruneClaim(c) PROVE BatchedInv'
<1> USE DEF envVars, txVars, claimVars, queueVars
<1>1. TypeOK /\ TypeOK' /\ c # 0
  BY SurroundingsType, OutboxAssumption DEF BatchedInv, Claims
<1>2. /\ UNCHANGED <<lastClaim, envVars, fpc, txVars, claimVars, queueVars>>
      /\ flushed' = flushed \ Members(c)
      /\ \A k \in Keys : IF flushId[k] = c
                          THEN payload'[k] = NoText /\ flushId'[k] = 0
                          ELSE payload'[k] = payload[k] /\ flushId'[k] = flushId[k]
  BY DEF PruneClaim, Drop, Members
<1>3. ClaimsNumbered'
  BY NumberedStep DEF BatchedInv, Next
<1>4. RowsInOrder'
  BY <1>1, <1>2 DEF BatchedInv, RowsInOrder, Members
<1>5. \A e \in Claims : e # c => /\ Members(e)' = Members(e)
                                 /\ ClaimRows(e)' = ClaimRows(e)
  BY <1>2 DEF Members, ClaimRows, Claims
<1>6. ClaimsAreWhole'
  <2>1. Members(c)' = {}
    BY <1>1, <1>2 DEF Members
  <2> QED
    BY <1>2, <1>5, <2>1 DEF BatchedInv, ClaimsAreWhole, Members
<1>7. \A g \in Flushers : /\ Current(g)' = Current(g)
                          /\ AtWork(g) => Current(g) # c /\ Current(g) \in Claims
  BY <1>1, <1>2, CurrentIsClaim, WorkerHasClaim DEF PruneClaim, Current
<1>8. LoadedIsCurrent'
  BY <1>2, <1>5, <1>7 DEF BatchedInv, LoadedIsCurrent, AtWork
<1>9. JobsMatchOutbox' /\ JobsAreComplete'
  BY <1>1, <1>2 DEF BatchedInv, JobsMatchOutbox, JobsAreComplete, TypeOK, QueueTypes,
    JobType, Claims
<1>10. \A e \in Claims : e # c /\ Reached(e) => Reached(e)'
  BY <1>2, <1>5 DEF Reached, Steady, Members
<1>11. EnqueuedReached'
  BY <1>2, <1>7, <1>10 DEF BatchedInv, EnqueuedReached, Steady, AtWork
<1>12. FlushedReachedChannels'
  BY <1>1, <1>2 DEF BatchedInv, FlushedReachedChannels, TypeOK, RowTypes
<1> QED
  BY <1>1, <1>2, <1>3, <1>4, <1>6, <1>8, <1>9, <1>11, <1>12 DEF BatchedInv

LEMMA ToggleSafe ==
  ASSUME BatchedInv, NEW ch \in Volatile, ToggleChannel(ch) PROVE BatchedInv'
<1> USE DEF rowVars, txVars, claimVars, queueVars
<1>1. TypeOK'
  BY SurroundingsType DEF BatchedInv
<1>2. /\ UNCHANGED <<rowVars, mode, fpc, txVars, claimVars, queueVars>>
      /\ Steady' = Steady
  BY DEF ToggleChannel, Steady
<1> QED
  BY <1>1, <1>2 DEF BatchedInv, ClaimsNumbered, RowsInOrder, ClaimsAreWhole, LoadedIsCurrent,
    JobsMatchOutbox, JobsAreComplete, EnqueuedReached, FlushedReachedChannels, Reached,
    Members, ClaimRows, Current, AtWork, Steady

LEMMA BatchedInit == ASSUME Modes = {"batched"}, Init PROVE BatchedInv
<1>1. TypeOK
  BY InitType
<1> QED
  BY <1>1, OutboxAssumption DEF Init, BatchedInv, ClaimsNumbered, RowsInOrder,
    ClaimsAreWhole, LoadedIsCurrent, JobsMatchOutbox, JobsAreComplete, EnqueuedReached,
    FlushedReachedChannels, AtWork, Members, Claims, Nothing

LEMMA BatchedStep ==
  ASSUME Modes = {"batched"}, BatchedInv, [Next]_vars PROVE BatchedInv'
<1>1. CASE UNCHANGED vars
  <2>1. TypeOK'
    BY <1>1, TypeStutter DEF BatchedInv
  <2> QED
    BY <1>1, <2>1 DEF vars, rowVars, envVars, txVars, claimVars, queueVars, BatchedInv,
      ClaimsNumbered, RowsInOrder, ClaimsAreWhole, LoadedIsCurrent, JobsMatchOutbox,
      JobsAreComplete, EnqueuedReached, FlushedReachedChannels, Reached, Members,
      ClaimRows, Current, AtWork, Steady
<1>2. ASSUME NEW f \in Flushers, FlusherStep(f) PROVE BatchedInv'
  BY <1>2, BeginSafe, ConflictSafe, CommitSafe, LoadSafe, ReadSafe, AddSafe, CompleteSafe,
    LeaveSafe DEF FlusherStep
<1>3. ASSUME NEW k \in Keys, PruneSettled(k) PROVE FALSE
  <2>1. flushId[k] # 0
    BY <1>3 DEF PruneSettled, BatchedInv, RowsInOrder
  <2>2. flushId[k] \in Claims
    BY <2>1 DEF BatchedInv, TypeOK, RowTypes
  <2>3. k \in Members(flushId[k])
    BY DEF Members
  <2>4. QED
    BY <1>3, <2>1, <2>2, <2>3 DEF PruneSettled, BatchedInv, ClaimsAreWhole
<1>4. ASSUME NEW m \in Modes, SwitchMode(m) PROVE FALSE
  BY <1>4 DEF SwitchMode, BatchedInv
<1> QED
  BY <1>1, <1>2, <1>3, <1>4, DispatcherSafe, PruneSafe, ToggleSafe DEF Next

LEMMA BatchedInvariant == ASSUME Modes = {"batched"} PROVE Spec => []BatchedInv
BY BatchedInit, BatchedStep, PTL DEF Spec

\* As long as the system stays in batched mode, the rows of a claim are
\* flushed together, so no claim is ever refused as partially completed.
THEOREM ClaimsStayWhole == ASSUME Modes = {"batched"} PROVE Spec => []ClaimsAreWhole
<1>1. BatchedInv => ClaimsAreWhole
  BY DEF BatchedInv
<1> QED
  BY <1>1, BatchedInvariant, PTL

\* In batched mode a queued job and the outbox never disagree on a text.
THEOREM JobsTellTheOutbox == ASSUME Modes = {"batched"} PROVE Spec => []JobsMatchOutbox
<1>1. BatchedInv => JobsMatchOutbox
  BY DEF BatchedInv
<1> QED
  BY <1>1, BatchedInvariant, PTL

\* In batched mode whatever is flushed has a job for every channel that was
\* active throughout and accepts it, whichever flush enqueued it.
THEOREM FlushedIsDelivered ==
  ASSUME Modes = {"batched"} PROVE Spec => []FlushedReachedChannels
<1>1. BatchedInv => FlushedReachedChannels
  BY DEF BatchedInv
<1> QED
  BY <1>1, BatchedInvariant, PTL

(* What a step does to the rows *)

\* In batched mode the rows change in one of four ways.
LEMMA RowSteps ==
  ASSUME BatchedInv, Modes = {"batched"}, [Next]_vars
  PROVE  \/ UNCHANGED <<payload, flushId, flushed>>
         \/ /\ UNCHANGED <<flushId, flushed, handed>>
            /\ \E k \in Keys, t \in Texts : /\ flushId[k] = 0 /\ k \notin flushed
                                            /\ payload' = [payload EXCEPT ![k] = t]
         \/ /\ UNCHANGED <<payload, flushed, handed>>
            /\ \E S \in SUBSET Keys :
                 /\ S # {} /\ FreshClaim \in Claims
                 /\ \A k \in S : Pending(k)
                 /\ flushId' = [k \in Keys |-> IF k \in S THEN FreshClaim ELSE flushId[k]]
         \/ /\ UNCHANGED <<payload, flushId, handed>>
            /\ \E c \in handed : /\ Members(c) # {} /\ c \in Claims
                                 /\ flushed' = flushed \cup Members(c)
         \/ /\ UNCHANGED handed
            /\ \E c \in Claims : PruneClaim(c)
<1> USE DEF rowVars, queueVars, envVars
<1>1. TypeOK
  BY DEF BatchedInv
<1>2. CASE UNCHANGED vars
  BY <1>2 DEF vars
<1>3. ASSUME NEW d \in Dispatchers, DispatcherStep(d)
      PROVE  /\ UNCHANGED <<flushId, flushed, handed>>
             /\ \/ payload' = payload
                \/ \E k \in Keys, t \in Texts : /\ flushId[k] = 0 /\ k \notin flushed
                                                /\ payload' = [payload EXCEPT ![k] = t]
  BY <1>3, DispatcherEffect
<1>4. ASSUME NEW f \in Flushers, ClaimCommits(f)
      PROVE  \/ UNCHANGED <<payload, flushId, flushed>>
             \/ /\ UNCHANGED <<payload, flushed, handed>>
                /\ \E S \in SUBSET Keys :
                     /\ S # {} /\ FreshClaim \in Claims
                     /\ \A k \in S : Pending(k)
                     /\ flushId' = [k \in Keys |-> IF k \in S THEN FreshClaim
                                                             ELSE flushId[k]]
  <2> DEFINE target == {k \in Keys : seen[f][k] # NoText}
  <2>1. \A k \in target : Pending(k)
    BY <1>4 DEF ClaimCommits, SnapshotHolds, PendingRows
  <2>2. CASE target = {}
    BY <1>1, <1>4, <2>2 DEF ClaimCommits, TypeOK, RowTypes
  <2>3. CASE target # {}
    <3>1. FreshClaim \in Claims
      BY <1>1, <1>4, <2>3, OutboxAssumption
        DEF ClaimCommits, FreshClaim, Claims, TypeOK, RowTypes
    <3> QED
      BY <1>4, <2>1, <2>3, <3>1 DEF ClaimCommits
  <2> QED
    BY <2>2, <2>3
<1>5. ASSUME NEW f \in Flushers, CompleteClaim(f)
      PROVE  /\ UNCHANGED <<payload, flushId, handed>>
             /\ \E c \in handed : /\ Members(c) # {} /\ c \in Claims
                                  /\ flushed' = flushed \cup Members(c)
  <2>1. AtWork(f) /\ fpc[f] = "enqueued"
    BY <1>5 DEF CompleteClaim, AtWork
  <2>2. Current(f) \in handed /\ Members(Current(f)) # {} /\ Current(f) \in Claims
    BY <1>1, <2>1, CurrentIsClaim, WorkerHasClaim
      DEF BatchedInv, EnqueuedReached, LoadedIsCurrent
  <2> QED
    BY <1>5, <2>2 DEF CompleteClaim
<1>6. ASSUME NEW f \in Flushers, FlusherStep(f), ~ClaimCommits(f), ~CompleteClaim(f)
      PROVE  UNCHANGED <<payload, flushId, flushed>>
  BY <1>6 DEF FlusherStep, BeginFlush, ClaimConflicts, LoadClaim, ReadChannels, AddJobs,
    ClaimFails, EndFlush, CrashFlush
<1>7. ASSUME NEW ch \in Volatile, ToggleChannel(ch)
      PROVE  UNCHANGED <<payload, flushId, flushed>>
  BY <1>7 DEF ToggleChannel
<1>8. ASSUME NEW c \in Claims, PruneClaim(c) PROVE UNCHANGED handed
  BY <1>8 DEF PruneClaim, Drop
<1>9. ASSUME NEW k \in Keys, PruneSettled(k) PROVE FALSE
  <2>1. flushId[k] # 0
    BY <1>9 DEF PruneSettled, BatchedInv, RowsInOrder
  <2>2. flushId[k] \in Claims
    BY <2>1 DEF BatchedInv, TypeOK, RowTypes
  <2>3. k \in Members(flushId[k])
    BY DEF Members
  <2>4. QED
    BY <1>9, <2>1, <2>2, <2>3 DEF PruneSettled, BatchedInv, ClaimsAreWhole
<1>10. ASSUME NEW m \in Modes, SwitchMode(m) PROVE FALSE
  BY <1>10 DEF SwitchMode, BatchedInv
<1> QED
  BY <1>2, <1>3, <1>4, <1>5, <1>6, <1>7, <1>8, <1>9, <1>10 DEF Next

\* In batched mode a claimed row keeps its text and its claim until
\* retention removes it, against late writers, retries and other flushes.
THEOREM ClaimsAreSealed == ASSUME Modes = {"batched"} PROVE Spec => ClaimedRowsAreSealed
<1>1. BatchedInv /\ [Next]_vars =>
        [\A k \in Keys : flushId[k] # 0 /\ payload'[k] # NoText =>
           payload'[k] = payload[k] /\ flushId'[k] = flushId[k]]_rowVars
  <2> SUFFICES ASSUME BatchedInv, [Next]_vars, NEW k \in Keys,
                      flushId[k] # 0, payload'[k] # NoText
               PROVE  payload'[k] = payload[k] /\ flushId'[k] = flushId[k]
    OBVIOUS
  <2>1. TypeOK
    BY DEF BatchedInv
  <2> QED
    BY <2>1, RowSteps DEF TypeOK, RowTypes, Pending, PruneClaim, Drop, Members
<1> QED
  BY <1>1, BatchedInvariant, PTL DEF Spec, ClaimedRowsAreSealed

(* Refinement of AlertPromise *)

LEMMA HandedSteps ==
  ASSUME BatchedInv, [Next]_vars
  PROVE  \/ UNCHANGED handed
         \/ /\ UNCHANGED <<payload, flushId, flushed>>
            /\ \E c \in Claims : Members(c) # {} /\ handed' = handed \cup {c}
<1> USE DEF rowVars, queueVars
<1>1. ASSUME NEW f \in Flushers, AddJobs(f)
      PROVE  /\ UNCHANGED <<payload, flushId, flushed>>
             /\ \E c \in Claims : Members(c) # {} /\ handed' = handed \cup {c}
  <2>1. TypeOK /\ AtWork(f)
    BY <1>1 DEF BatchedInv, AddJobs, AtWork
  <2>2. Members(Current(f)) # {} /\ Current(f) \in Claims
    BY <2>1, CurrentIsClaim, WorkerHasClaim DEF BatchedInv, LoadedIsCurrent
  <2> QED
    BY <1>1, <2>2 DEF AddJobs
<1>2. ASSUME NEW f \in Flushers, FlusherStep(f), ~AddJobs(f) PROVE UNCHANGED handed
  BY <1>2 DEF FlusherStep, BeginFlush, ClaimCommits, ClaimConflicts, LoadClaim, ReadChannels,
    CompleteClaim, ClaimFails, EndFlush, CrashFlush
<1>3. ASSUME NEW d \in Dispatchers, DispatcherStep(d) PROVE UNCHANGED handed
  BY <1>3, DispatcherEffect
<1>4. ASSUME \/ \E ch \in Volatile : ToggleChannel(ch)
             \/ \E c \in Claims : PruneClaim(c)
             \/ \E k \in Keys : PruneSettled(k)
             \/ \E m \in Modes : SwitchMode(m)
             \/ UNCHANGED vars
      PROVE  UNCHANGED handed
  BY <1>4 DEF ToggleChannel, PruneClaim, PruneSettled, Drop, SwitchMode, vars
<1> QED
  BY <1>1, <1>2, <1>3, <1>4 DEF Next

\* In batched mode the outbox, with its races, retries and crashes, does only
\* what AlertPromise allows: facts are sealed once, in a text that no longer
\* changes, and finished as a whole after the queue has them.
THEOREM OutboxImplementsPromise == ASSUME Modes = {"batched"} PROVE Spec => SafelyPromised
<1>1. Init => Promised!Start
  BY DEF Init, Promised!Start, Nothing
<1>2. BatchedInv /\ [Next]_vars => [Promised!Advance]_(Promised!promiseVars)
  <2> SUFFICES ASSUME BatchedInv, [Next]_vars
               PROVE  Promised!Advance \/ UNCHANGED <<payload, flushId, flushed, handed>>
    BY DEF Promised!promiseVars
  <2>1. TypeOK /\ ClaimsNumbered /\ ClaimsAreWhole
    BY DEF BatchedInv
  <2>2. \A c : Promised!Group(c) = Members(c)
    BY DEF Promised!Group, Members
  <2>3. CASE UNCHANGED <<payload, flushId, flushed>>
    BY <2>2, <2>3, HandedSteps DEF Promised!Advance, Promised!Give
  <2>4. ASSUME NEW k \in Keys, NEW t \in Texts, flushId[k] = 0, k \notin flushed,
               payload' = [payload EXCEPT ![k] = t], UNCHANGED <<flushId, flushed, handed>>
        PROVE  Promised!Advance
    BY <2>4 DEF Promised!Advance, Promised!Report
  <2>5. ASSUME NEW S \in SUBSET Keys, S # {}, FreshClaim \in Claims,
               \A k \in S : Pending(k), UNCHANGED <<payload, flushed, handed>>,
               flushId' = [k \in Keys |-> IF k \in S THEN FreshClaim ELSE flushId[k]]
        PROVE  Promised!Advance
    <3>1. Members(FreshClaim) = {} /\ FreshClaim \notin handed
      BY <2>1, FreshIsNew DEF Members, ClaimsNumbered, FreshClaim, TypeOK, RowTypes
    <3>2. Promised!Seal(FreshClaim, S)
      BY <2>2, <2>5, <3>1 DEF Promised!Seal, Pending, Exists
    <3> QED
      BY <2>5, <3>2 DEF Promised!Advance
  <2>6. ASSUME NEW c \in handed, c \in Claims, Members(c) # {},
               flushed' = flushed \cup Members(c), UNCHANGED <<payload, flushId, handed>>
        PROVE  Promised!Advance
    BY <2>2, <2>6 DEF Promised!Advance, Promised!Finish
  <2>7. ASSUME NEW c \in Claims, PruneClaim(c), UNCHANGED handed
        PROVE  Promised!Advance
    <3>1. Promised!Forget(c)
      BY <2>2, <2>7 DEF PruneClaim, Drop, Promised!Forget, Members
    <3> QED
      BY <3>1 DEF Promised!Advance
  <2> QED
    BY <2>3, <2>4, <2>5, <2>6, <2>7, RowSteps
<1> QED
  BY <1>1, <1>2, BatchedInvariant, PTL DEF Spec, SafelyPromised, Promised!Promise
=============================================================================
