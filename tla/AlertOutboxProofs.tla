-------------------------- MODULE AlertOutboxProofs --------------------------
(***************************************************************************)
(* Proofs about AlertOutbox, for every set of keys, texts, dispatchers,    *)
(* flushes and channels and every bound on the claims.                     *)
(***************************************************************************)
EXTENDS AlertOutbox, WellFoundedInduction, TLAPS

\* The claim a flush works on is one of those it has left: claims are numbers.
LEMMA FirstIsMember == ASSUME NEW S \in SUBSET Claims, S # {}
                       PROVE  First(S) \in S
<1> DEFINE Less == OpToRel(<, Nat)
<1>1. S \subseteq Nat
  BY OutboxAssumption DEF Claims
<1>2. \E c \in S : \A d \in S : <<d, c>> \notin Less
  <2>1. IsWellFoundedOn(Less, Nat)
    BY NatLessThanWellFounded, Zenon
  <2> HIDE DEF Less
  <2> QED
    BY <1>1, <2>1, WFMin, Zenon
<1>3. Less = {ss \in Nat \X Nat : ss[1] < ss[2]}
  BY Zenon DEF OpToRel
<1> HIDE DEF Less
<1>4. \A c, d \in Nat : <<d, c>> \notin Less => c <= d
  BY <1>3
<1>5. \E c \in S : \A d \in S : c <= d
  BY <1>1, <1>2, <1>4
<1> QED
  BY <1>5, Zenon DEF First

LEMMA InitType == Init => TypeOK
BY OutboxAssumption DEF Init, TypeOK, RowTypes, EnvTypes, DispatcherTypes, TxTypes,
  FlushTypes, QueueTypes, Nothing, AnyText

\* A flush with claims left, as one at work has, is at the first of them.
LEMMA CurrentIsClaim ==
  ASSUME TypeOK, NEW f \in Flushers, todo[f] # {}
  PROVE  Current(f) \in todo[f] /\ Current(f) \in Claims /\ Current(f) \in Nat \ {0}
<1>1. todo[f] \in SUBSET Claims
  BY DEF TypeOK, FlushTypes
<1>2. Current(f) \in todo[f]
  BY <1>1, FirstIsMember DEF Current
<1> QED
  BY <1>1, <1>2, OutboxAssumption DEF Claims

LEMMA WorkerHasClaim ==
  ASSUME TypeOK, NEW f \in Flushers, AtWork(f) PROVE todo[f] # {}
BY DEF TypeOK, FlushTypes, AtWork

(* Dispatchers *)

LEMMA WriteType ==
  ASSUME TypeOK, NEW d \in Dispatchers, dpc[d] # "idle",
         Write(d) \/ UNCHANGED rowVars
  PROVE  RowTypes'
BY DEF TypeOK, RowTypes, DispatcherTypes, Write, Settles, AnyText, rowVars

LEMMA GotoType ==
  ASSUME TypeOK, NEW d \in Dispatchers, dpc[d] # "idle",
         NEW pc \in {"idle", "create", "updateAgain", "fanOut"}, Goto(d, pc)
  PROVE  DispatcherTypes'
BY DEF TypeOK, DispatcherTypes, Goto, NoCall

LEMMA AfterRecordType == AfterRecord \in {"idle", "create", "updateAgain", "fanOut"}
BY DEF AfterRecord

LEMMA DispatcherType ==
  ASSUME TypeOK, NEW d \in Dispatchers, DispatcherStep(d) PROVE TypeOK'
<1> USE DEF TypeOK, rowVars, envVars, txVars, claimVars, queueVars
<1>1. EnvTypes' /\ TxTypes' /\ FlushTypes' /\ jobs' = jobs /\ handed' = handed
  BY DEF DispatcherStep, Dispatch, UpdateRow, CreateRow, UpdateRowAgain, FanOut,
    DispatchFails, CrashDispatch, EnvTypes, TxTypes, FlushTypes
<1>2. ASSUME NEW k \in Keys, NEW t \in Texts, Dispatch(d, k, t) PROVE TypeOK'
  BY <1>1, <1>2 DEF Dispatch, RowTypes, QueueTypes, DispatcherTypes
<1>3. CASE UpdateRow(d)
  BY <1>1, <1>3, WriteType, GotoType, AfterRecordType DEF UpdateRow, QueueTypes
<1>4. CASE CreateRow(d)
  BY <1>1, <1>4, WriteType, GotoType, AfterRecordType DEF CreateRow, QueueTypes
<1>5. CASE UpdateRowAgain(d)
  BY <1>1, <1>5, WriteType, GotoType, AfterRecordType DEF UpdateRowAgain, QueueTypes
<1>6. CASE FanOut(d)
  <2>1. DispatcherTypes'
    BY <1>6, GotoType DEF FanOut
  <2>2. QueueTypes'
    BY <1>1, <1>6 DEF FanOut, QueueTypes, DispatcherTypes
  <2> QED
    BY <1>1, <1>6, <2>1, <2>2 DEF FanOut, RowTypes
<1>7. CASE DispatchFails(d)
  BY <1>1, <1>7, GotoType, AfterRecordType DEF DispatchFails, RowTypes, QueueTypes
<1>8. CASE CrashDispatch(d)
  BY <1>1, <1>8, GotoType DEF CrashDispatch, RowTypes, QueueTypes
<1> QED
  BY <1>2, <1>3, <1>4, <1>5, <1>6, <1>7, <1>8 DEF DispatcherStep

(* Flushes *)

LEMMA SnapshotType ==
  ASSUME TypeOK, NEW f \in Flushers, TakeSnapshot(f)
  PROVE  /\ seen' \in [Flushers -> [Keys -> AnyText]]
         /\ unfinished' \in [Flushers -> SUBSET Claims]
<1>1. PendingRows \in [Keys -> AnyText] /\ UnfinishedClaims \in SUBSET Claims
  BY DEF TypeOK, RowTypes, PendingRows, UnfinishedClaims, AnyText
<1> QED
  BY <1>1 DEF TypeOK, TxTypes, TakeSnapshot

LEMMA CloseTxType == ASSUME TypeOK, NEW f \in Flushers, CloseTx(f) PROVE TxTypes'
BY OutboxAssumption DEF TypeOK, TxTypes, CloseTx, Nothing, AnyText

LEMMA ForgetType ==
  ASSUME TypeOK, NEW f \in Flushers, Forget(f)
  PROVE  /\ loaded' \in [Flushers -> [Keys -> AnyText]]
         /\ audience' \in [Flushers -> SUBSET Channels]
BY DEF TypeOK, FlushTypes, Forget, Nothing, AnyText

LEMMA NextClaimType ==
  ASSUME TypeOK, NEW f \in Flushers, NextClaim(f),
         failed' = failed \/ (\E b \in BOOLEAN : failed' = [failed EXCEPT ![f] = b]),
         UNCHANGED took
  PROVE  FlushTypes'
<1>1. /\ loaded' \in [Flushers -> [Keys -> AnyText]]
      /\ audience' \in [Flushers -> SUBSET Channels]
  BY ForgetType DEF NextClaim
<1>2. failed' \in [Flushers -> BOOLEAN]
  BY DEF TypeOK, FlushTypes
<1> QED
  BY <1>1, <1>2 DEF TypeOK, FlushTypes, NextClaim

LEMMA FlusherType ==
  ASSUME TypeOK, NEW f \in Flushers, FlusherStep(f) PROVE TypeOK'
<1> USE DEF TypeOK, rowVars, envVars, txVars, claimVars, queueVars, dispatcherVars
<1>1. EnvTypes' /\ DispatcherTypes'
  BY DEF FlusherStep, BeginFlush, ClaimCommits, ClaimConflicts, LoadClaim, ReadChannels,
    AddJobs, CompleteClaim, ClaimFails, EndFlush, CrashFlush, EnvTypes, DispatcherTypes
<1>2. CASE BeginFlush(f)
  BY <1>1, <1>2, SnapshotType, OutboxAssumption
    DEF BeginFlush, RowTypes, QueueTypes, TxTypes, FlushTypes
<1>3. CASE ClaimCommits(f)
  <2>1. TxTypes'
    BY <1>3, CloseTxType DEF ClaimCommits
  <2> DEFINE target == {k \in Keys : seen[f][k] # NoText}
  <2>2. target # {} => FreshClaim \in Claims
    BY <1>3, OutboxAssumption DEF ClaimCommits, RowTypes, FreshClaim, Claims
  <2>3. RowTypes'
    BY <1>3, <2>2, OutboxAssumption DEF ClaimCommits, RowTypes, Claims
  <2>4. unfinished[f] \cup (IF target = {} THEN {} ELSE {FreshClaim}) \in SUBSET Claims
    BY <2>2 DEF TxTypes
  <2>5. FlushTypes'
    BY <1>3, <2>4 DEF ClaimCommits, FlushTypes
  <2> QED
    BY <1>1, <1>3, <2>1, <2>3, <2>5 DEF ClaimCommits, QueueTypes
<1>4. CASE ClaimConflicts(f)
  <2>1. TxTypes'
    BY <1>4, CloseTxType, SnapshotType, OutboxAssumption
      DEF ClaimConflicts, TxTypes, RetriesLeft
  <2>2. FlushTypes'
    BY <1>4 DEF ClaimConflicts, FlushTypes
  <2> QED
    BY <1>1, <1>4, <2>1, <2>2 DEF ClaimConflicts, RowTypes, QueueTypes
<1>5. CASE LoadClaim(f)
  <2>1. FlushTypes'
    <3>1. CASE NextClaim(f) /\ (UNCHANGED failed \/ failed' = [failed EXCEPT ![f] = TRUE])
      BY <1>5, <3>1, NextClaimType DEF LoadClaim
    <3>2. CASE /\ loaded' = [loaded EXCEPT ![f] = ClaimRows(Current(f))]
               /\ fpc' = [fpc EXCEPT ![f] = "loaded"]
               /\ UNCHANGED <<todo, audience, failed>>
      <4>1. ClaimRows(Current(f)) \in [Keys -> AnyText]
        BY DEF RowTypes, AnyText, ClaimRows
      <4> QED
        BY <1>5, <3>2, <4>1 DEF LoadClaim, FlushTypes
    <3> QED
      BY <1>5, <3>1, <3>2 DEF LoadClaim
  <2> QED
    BY <1>1, <1>5, <2>1 DEF LoadClaim, RowTypes, TxTypes, QueueTypes
<1>6. CASE ReadChannels(f)
  BY <1>1, <1>6 DEF ReadChannels, EnvTypes, RowTypes, TxTypes, FlushTypes, QueueTypes
<1>7. CASE AddJobs(f)
  <2>1. Current(f) \in Claims
    BY <1>7, FirstIsMember DEF AddJobs, FlushTypes, Current
  <2>2. \A ch \in Channels, scope \in Scopes : JobOf(f, ch, scope) \in JobType
    BY <2>1, OutboxAssumption DEF JobOf, JobType, Body, FlushTypes, AnyText
  <2>3. QueueTypes'
    BY <1>7, <2>1, <2>2 DEF AddJobs, QueueTypes, FlushTypes, NewJobs
  <2> QED
    BY <1>1, <1>7, <2>3 DEF AddJobs, RowTypes, TxTypes, FlushTypes
<1>8. CASE CompleteClaim(f)
  <2>1. FlushTypes'
    BY <1>8, NextClaimType DEF CompleteClaim, FlushTypes
  <2>2. RowTypes'
    BY <1>8 DEF CompleteClaim, RowTypes, Members
  <2> QED
    BY <1>1, <1>8, <2>1, <2>2 DEF CompleteClaim, TxTypes, QueueTypes
<1>9. CASE ClaimFails(f)
  <2>1. FlushTypes'
    BY <1>9, NextClaimType DEF ClaimFails
  <2> QED
    BY <1>1, <1>9, <2>1 DEF ClaimFails, RowTypes, TxTypes, QueueTypes
<1>10. CASE EndFlush(f)
  BY <1>1, <1>10 DEF EndFlush, RowTypes, TxTypes, FlushTypes, QueueTypes
<1>11. CASE CrashFlush(f)
  BY <1>1, <1>11, CloseTxType, ForgetType
    DEF CrashFlush, RowTypes, FlushTypes, QueueTypes
<1> QED
  BY <1>2, <1>3, <1>4, <1>5, <1>6, <1>7, <1>8, <1>9, <1>10, <1>11 DEF FlusherStep

(* Users, retention and restarts *)

LEMMA SurroundingsType ==
  ASSUME TypeOK,
         \/ \E ch \in Volatile : ToggleChannel(ch)
         \/ \E c \in Claims : PruneClaim(c)
         \/ \E k \in Keys : PruneSettled(k)
         \/ \E m \in Modes : SwitchMode(m)
  PROVE  TypeOK'
BY OutboxAssumption DEF TypeOK, ToggleChannel, PruneClaim, PruneSettled, SwitchMode, Drop,
  AnyText, RowTypes, EnvTypes, DispatcherTypes, TxTypes, FlushTypes, QueueTypes, rowVars,
  envVars, txVars, claimVars, queueVars, dispatcherVars

LEMMA TypeStutter == TypeOK /\ UNCHANGED vars => TypeOK'
BY DEF vars, TypeOK, AnyText, RowTypes, EnvTypes, DispatcherTypes, TxTypes, FlushTypes,
  QueueTypes, rowVars, envVars, txVars, claimVars, queueVars, dispatcherVars

\* Every reachable state of the outbox is well typed: a dispatcher past its
\* first step knows its alert and a flush inside processClaim has a claim.
THEOREM TypeCorrect == Spec => []TypeOK
<1>1. TypeOK /\ [Next]_vars => TypeOK'
  BY TypeStutter, DispatcherType, FlusherType, SurroundingsType DEF Next
<1> QED
  BY InitType, <1>1, PTL DEF Spec

(* Claims in order *)

LEMMA SnapshotNumbered ==
  ASSUME TypeOK, ClaimsNumbered, NEW c \in UnfinishedClaims
  PROVE  c <= lastClaim
BY OutboxAssumption DEF TypeOK, RowTypes, ClaimsNumbered, UnfinishedClaims, Members, Claims

\* The claim of a commit is new: no row, job or flush knows its number.
LEMMA FreshIsNew ==
  ASSUME TypeOK, ClaimsNumbered
  PROVE  /\ FreshClaim \in Nat \ {0}
         /\ \A k \in Keys : flushId[k] # FreshClaim
         /\ \A j \in jobs : j.claim # FreshClaim
         /\ \A f \in Flushers : FreshClaim \notin todo[f]
BY OutboxAssumption DEF TypeOK, RowTypes, ClaimsNumbered, FreshClaim, Claims

LEMMA NumberedStep ==
  ASSUME TypeOK, ClaimsNumbered, [Next]_vars PROVE ClaimsNumbered' /\ lastClaim <= lastClaim'
<1> USE DEF rowVars, envVars, dispatcherVars, txVars, claimVars, queueVars
<1> DEFINE Known(f) == took[f] \cup todo[f] \cup unfinished[f]
<1>1. lastClaim \in Nat /\ lastClaim <= lastClaim
  BY OutboxAssumption DEF TypeOK, RowTypes
<1>2. ASSUME UNCHANGED <<flushId, lastClaim, jobs, handed>>,
             \A f \in Flushers : \A c \in Known(f)' : c \in Known(f) \/ c \in UnfinishedClaims
      PROVE  ClaimsNumbered' /\ lastClaim <= lastClaim'
  BY <1>1, <1>2, SnapshotNumbered DEF ClaimsNumbered
<1>3. ASSUME NEW d \in Dispatchers, DispatcherStep(d)
      PROVE  UNCHANGED <<flushId, lastClaim, jobs, handed, took, todo, unfinished>>
  BY <1>3 DEF DispatcherStep, Dispatch, UpdateRow, CreateRow, UpdateRowAgain, FanOut,
    DispatchFails, CrashDispatch, Write
<1>4. ASSUME NEW f \in Flushers, BeginFlush(f) \/ ClaimConflicts(f)
      PROVE  ClaimsNumbered' /\ lastClaim <= lastClaim'
  <2>1. /\ UNCHANGED <<flushId, lastClaim, jobs, handed, todo>>
        /\ took' = took \/ took' = [took EXCEPT ![f] = {}]
        /\ TakeSnapshot(f) \/ CloseTx(f)
    BY <1>4 DEF BeginFlush, ClaimConflicts
  <2> QED
    BY <1>2, <2>1 DEF TakeSnapshot, CloseTx, TypeOK, TxTypes, FlushTypes
<1>5. ASSUME NEW f \in Flushers, ClaimCommits(f)
      PROVE  ClaimsNumbered' /\ lastClaim <= lastClaim'
  <2> DEFINE target == {k \in Keys : seen[f][k] # NoText}
  <2>1. /\ UNCHANGED <<jobs, handed>>
        /\ \A k \in Keys : flushId'[k] = IF k \in target THEN FreshClaim ELSE flushId[k]
        /\ target = {} => lastClaim' = lastClaim
        /\ target # {} => lastClaim' = FreshClaim
    BY <1>5 DEF ClaimCommits
  <2>2. lastClaim' \in Nat /\ lastClaim <= lastClaim'
    BY <1>1, <2>1 DEF FreshClaim
  <2>3. \A k \in Keys : flushId'[k] <= lastClaim'
    BY <1>1, <2>1, <2>2, OutboxAssumption
      DEF ClaimsNumbered, FreshClaim, TypeOK, RowTypes, Claims
  <2>4. /\ \A j \in jobs' : j.claim <= lastClaim'
        /\ \A c \in handed' : c <= lastClaim'
    BY <1>1, <2>1, <2>2 DEF ClaimsNumbered, TypeOK, QueueTypes, JobType, Claims
  <2>5. \A g \in Flushers : \A c \in Known(g)' : c \in Known(g) \/ c = lastClaim'
    BY <1>5, <2>1 DEF ClaimCommits, CloseTx, TypeOK, FlushTypes, TxTypes
  <2>6. \A g \in Flushers : \A c \in Known(g) : c \in Nat /\ c <= lastClaim
    BY OutboxAssumption DEF ClaimsNumbered, TypeOK, FlushTypes, TxTypes, Claims
  <2>7. \A c \in Nat : c <= lastClaim => c <= lastClaim'
    BY <1>1, <2>2
  <2>8. \A g \in Flushers : \A c \in Known(g)' : c <= lastClaim'
    BY <2>2, <2>5, <2>6, <2>7
  <2> QED
    BY <2>2, <2>3, <2>4, <2>8 DEF ClaimsNumbered
<1>6. ASSUME NEW f \in Flushers, LoadClaim(f) \/ CompleteClaim(f) \/ ClaimFails(f)
      PROVE  ClaimsNumbered' /\ lastClaim <= lastClaim'
  <2>1. UNCHANGED <<flushId, lastClaim, jobs, handed, took, unfinished>>
    BY <1>6 DEF LoadClaim, CompleteClaim, ClaimFails
  <2>2. todo' = todo \/ todo' = [todo EXCEPT ![f] = @ \ {Current(f)}]
    BY <1>6 DEF LoadClaim, CompleteClaim, ClaimFails, NextClaim
  <2> QED
    BY <1>2, <2>1, <2>2 DEF TypeOK, FlushTypes
<1>7. ASSUME NEW f \in Flushers, AddJobs(f)
      PROVE  ClaimsNumbered' /\ lastClaim <= lastClaim'
  <2>1. Current(f) <= lastClaim
    BY <1>7, CurrentIsClaim, WorkerHasClaim DEF ClaimsNumbered, AddJobs, AtWork
  <2>2. \A j \in jobs' : j \in jobs \/ j.claim = Current(f)
    BY <1>7 DEF AddJobs, JobOf
  <2> QED
    BY <1>1, <1>7, <2>1, <2>2 DEF ClaimsNumbered, AddJobs
<1>8. ASSUME NEW f \in Flushers, ReadChannels(f) \/ EndFlush(f) \/ CrashFlush(f)
      PROVE  ClaimsNumbered' /\ lastClaim <= lastClaim'
  <2>1. /\ UNCHANGED <<flushId, lastClaim, jobs, handed>>
        /\ \A g \in Flushers : Known(g)' \subseteq Known(g)
    BY <1>8 DEF ReadChannels, EndFlush, CrashFlush, CloseTx, TypeOK, FlushTypes, TxTypes
  <2> QED
    BY <1>2, <2>1
<1>9. ASSUME NEW S, Drop(S) PROVE ClaimsNumbered' /\ lastClaim <= lastClaim'
  BY <1>1, <1>9 DEF Drop, ClaimsNumbered
<1>10. CASE \/ \E ch \in Volatile : ToggleChannel(ch)
            \/ \E m \in Modes : SwitchMode(m)
            \/ UNCHANGED vars
  BY <1>2, <1>10 DEF ToggleChannel, SwitchMode, vars
<1> QED
  BY <1>2, <1>3, <1>4, <1>5, <1>6, <1>7, <1>8, <1>9, <1>10
    DEF Next, FlusherStep, PruneClaim, PruneSettled

(* What holds in every mode *)

\* A row that leaves the outbox was flushed, a row is flushed with its claim or
\* in instant mode, and a flushed row is not claimed again.
LEMMA RowStep ==
  ASSUME TypeOK, [Next]_vars, NEW k \in Keys
  PROVE  /\ Exists(k) /\ k \notin flushed =>
              Exists(k)' /\ (k \in flushed' => flushId[k] # 0 \/ mode = "instant")
         /\ k \in flushed /\ payload'[k] # NoText =>
              k \in flushed' /\ flushId'[k] = flushId[k]
<1> USE DEF rowVars, envVars, dispatcherVars, txVars, claimVars, queueVars, Exists
<1> DEFINE Kept == /\ payload'[k] = payload[k] /\ flushId'[k] = flushId[k]
                   /\ k \in flushed' <=> k \in flushed
<1>1. ASSUME NEW d \in Dispatchers, DispatcherStep(d)
      PROVE  Kept \/ (\E dd \in Dispatchers : dpc[dd] # "idle" /\ Write(dd))
  BY <1>1 DEF DispatcherStep, Dispatch, UpdateRow, CreateRow, UpdateRowAgain, FanOut,
    DispatchFails, CrashDispatch
<1>2. ASSUME NEW d \in Dispatchers, dpc[d] # "idle", Write(d)
      PROVE  /\ payload[k] # NoText => payload'[k] # NoText
             /\ flushId'[k] = flushId[k] /\ flushed \subseteq flushed'
             /\ flushed' # flushed => mode # "batched"
  BY <1>2, OutboxAssumption DEF Write, Settles, TypeOK, RowTypes, DispatcherTypes
<1>3. ASSUME NEW f \in Flushers, ClaimCommits(f)
      PROVE  Kept \/ (k \notin flushed /\ payload' = payload /\ flushed' = flushed)
  BY <1>3 DEF ClaimCommits, SnapshotHolds, PendingRows, Pending, TypeOK, RowTypes
<1>4. ASSUME NEW f \in Flushers, CompleteClaim(f)
      PROVE  Kept \/ (/\ UNCHANGED <<payload, flushId>> /\ flushId[k] # 0
                      /\ flushed \subseteq flushed')
  <2>1. AtWork(f)
    BY <1>4 DEF CompleteClaim, AtWork
  <2>2. Current(f) # 0
    BY <2>1, CurrentIsClaim, WorkerHasClaim
  <2> QED
    BY <1>4, <2>2 DEF CompleteClaim, Members
<1>5. ASSUME NEW f \in Flushers, FlusherStep(f), ~ClaimCommits(f), ~CompleteClaim(f)
      PROVE  Kept
  BY <1>5 DEF FlusherStep, BeginFlush, ClaimConflicts, LoadClaim, ReadChannels, AddJobs,
    ClaimFails, EndFlush, CrashFlush
<1>6. ASSUME NEW S, S \subseteq flushed, Drop(S)
      PROVE  Kept \/ (k \in flushed /\ payload'[k] = NoText)
  BY <1>6 DEF Drop
<1>7. CASE \/ \E ch \in Volatile : ToggleChannel(ch)
           \/ \E m \in Modes : SwitchMode(m)
           \/ UNCHANGED vars
  BY <1>7 DEF ToggleChannel, SwitchMode, vars
<1>8. mode # "batched" => mode = "instant"
  BY OutboxAssumption DEF TypeOK, EnvTypes
<1> HIDE DEF Kept
<1>9. ASSUME Kept
      PROVE  /\ payload'[k] = payload[k] /\ flushId'[k] = flushId[k]
             /\ k \in flushed' <=> k \in flushed
  BY <1>9 DEF Kept
<1> QED
  BY <1>1, <1>2, <1>3, <1>4, <1>5, <1>6, <1>7, <1>8, <1>9
    DEF Next, PruneClaim, PruneSettled

\* In every mode a fact that was not sent stays in the outbox, and it is only
\* marked flushed as part of a claim or by an instant dispatch.
THEOREM NothingUnsentIsLost == Spec => UnsentIsNotLost
<1>1. TypeOK /\ [Next]_vars =>
        [\A k \in Keys : Exists(k) /\ k \notin flushed =>
           /\ Exists(k)'
           /\ k \in flushed' => flushId[k] # 0 \/ mode = "instant"]_rowVars
  BY RowStep
<1> QED
  BY <1>1, TypeCorrect, PTL DEF Spec, UnsentIsNotLost

\* In every mode, restarts into the other mode included, a flushed row is not
\* flushed or claimed a second time.
THEOREM FlushedStaysFinal == Spec => FlushedIsFinal
<1>1. TypeOK /\ [Next]_vars =>
        [\A k \in Keys : k \in flushed /\ payload'[k] # NoText =>
           k \in flushed' /\ flushId'[k] = flushId[k]]_rowVars
  BY RowStep
<1> QED
  BY <1>1, TypeCorrect, PTL DEF Spec, FlushedIsFinal

\* What a flush is done with stays flushed.
LEMMA StaysFlushed ==
  ASSUME TypeOK, ClaimsNumbered, [Next]_vars, NEW c \in Claims, c <= lastClaim,
         Members(c) \subseteq flushed
  PROVE  Members(c)' \subseteq flushed'
<1>1. c # 0 /\ c # FreshClaim
  BY OutboxAssumption DEF Claims, FreshClaim, TypeOK, RowTypes
<1>2. \A k \in Keys : flushId'[k] = c => flushId[k] = c
  <2> USE DEF rowVars, envVars, dispatcherVars, txVars, claimVars, queueVars
  <2>1. ASSUME NEW f \in Flushers, ClaimCommits(f)
        PROVE  \A k \in Keys : flushId'[k] = c => flushId[k] = c
    BY <1>1, <2>1 DEF ClaimCommits
  <2>2. ASSUME NEW f \in Flushers, FlusherStep(f), ~ClaimCommits(f)
        PROVE  flushId' = flushId
    BY <2>2 DEF FlusherStep, BeginFlush, ClaimConflicts, LoadClaim, ReadChannels, AddJobs,
      CompleteClaim, ClaimFails, EndFlush, CrashFlush
  <2>3. ASSUME NEW d \in Dispatchers, DispatcherStep(d) PROVE flushId' = flushId
    BY <2>3 DEF DispatcherStep, Dispatch, UpdateRow, CreateRow, UpdateRowAgain, FanOut,
      DispatchFails, CrashDispatch, Write
  <2>4. ASSUME NEW S, Drop(S)
        PROVE  \A k \in Keys : flushId'[k] = c => flushId[k] = c
    BY <1>1, <2>4 DEF Drop
  <2>5. CASE \/ \E ch \in Volatile : ToggleChannel(ch)
             \/ \E m \in Modes : SwitchMode(m)
             \/ UNCHANGED vars
    BY <2>5 DEF ToggleChannel, SwitchMode, vars
  <2> QED
    BY <2>1, <2>2, <2>3, <2>4, <2>5 DEF Next, PruneClaim, PruneSettled
<1>3. \A k \in Keys : k \in flushed /\ flushId'[k] = c => k \in flushed'
  <2> USE DEF rowVars, envVars, dispatcherVars, txVars, claimVars, queueVars
  <2>1. ASSUME NEW S, Drop(S)
        PROVE  \A k \in Keys : k \in flushed /\ flushId'[k] = c => k \in flushed'
    BY <1>1, <2>1 DEF Drop
  <2>2. ASSUME NEW f \in Flushers, FlusherStep(f) PROVE flushed \subseteq flushed'
    BY <2>2 DEF FlusherStep, BeginFlush, ClaimCommits, ClaimConflicts, LoadClaim,
      ReadChannels, AddJobs, CompleteClaim, ClaimFails, EndFlush, CrashFlush
  <2>3. ASSUME NEW d \in Dispatchers, DispatcherStep(d) PROVE flushed \subseteq flushed'
    BY <2>3 DEF DispatcherStep, Dispatch, UpdateRow, CreateRow, UpdateRowAgain, FanOut,
      DispatchFails, CrashDispatch, Write, Settles
  <2>4. CASE \/ \E ch \in Volatile : ToggleChannel(ch)
             \/ \E m \in Modes : SwitchMode(m)
             \/ UNCHANGED vars
    BY <2>4 DEF ToggleChannel, SwitchMode, vars
  <2> QED
    BY <2>1, <2>2, <2>3, <2>4 DEF Next, PruneClaim, PruneSettled
<1> QED
  BY <1>2, <1>3 DEF Members

(* What a returned flush says *)

\* The steps of a flush between its claim transaction and its end.
InProcess == {"next", "loaded", "addressed", "enqueued"}

HonestInv == TypeOK /\ ClaimsNumbered /\ DoneWithIsFlushed /\ ClaimsReported

LEMMA HonestStep == ASSUME HonestInv, [Next]_vars PROVE HonestInv'
<1> USE DEF rowVars, envVars, dispatcherVars, txVars, claimVars, queueVars
<1>1. TypeOK /\ TypeOK' /\ ClaimsNumbered /\ ClaimsNumbered'
  BY NumberedStep, TypeStutter, DispatcherType, FlusherType, SurroundingsType
    DEF HonestInv, Next
<1>2. \A f \in Flushers : \A c \in took[f] :
        Members(c) \subseteq flushed => Members(c)' \subseteq flushed'
  BY <1>1, StaysFlushed DEF TypeOK, FlushTypes, ClaimsNumbered
<1> DEFINE Honest(f) ==
      /\ fpc[f] \in InProcess /\ ~failed[f] =>
           \A c \in took[f] \ todo[f] : Members(c) \subseteq flushed
      /\ fpc[f] = "returned" => \A c \in took[f] : Members(c) \subseteq flushed
<1>3. \A f \in Flushers : Honest(f)
  BY DEF HonestInv, DoneWithIsFlushed, ClaimsReported, InProcess
<1>4. ASSUME NEW f \in Flushers, UNCHANGED <<fpc[f], failed[f], took[f], todo[f]>>
      PROVE  Honest(f)'
  BY <1>2, <1>3, <1>4
<1>5. ASSUME NEW f \in Flushers, FlusherStep(f) PROVE Honest(f)'
  <2>1. CASE BeginFlush(f)
    BY <1>1, <2>1 DEF BeginFlush, TypeOK, FlushTypes, InProcess
  <2>2. CASE ClaimCommits(f)
    BY <1>1, <2>2 DEF ClaimCommits, TypeOK, FlushTypes, InProcess
  <2>3. CASE ClaimConflicts(f)
    BY <1>1, <2>3 DEF ClaimConflicts, TypeOK, FlushTypes, InProcess
  <2>4. CASE LoadClaim(f)
    <3>1. CASE failed'[f]
      BY <1>1, <2>4, <3>1 DEF LoadClaim, NextClaim, TypeOK, FlushTypes, InProcess
    <3>2. CASE ~failed'[f] /\ fpc'[f] = "loaded"
      BY <1>1, <1>2, <1>3, <2>4, <3>2
        DEF LoadClaim, NextClaim, TypeOK, FlushTypes, InProcess
    <3>3. CASE ~failed'[f] /\ fpc'[f] # "loaded"
      <4>1. /\ Members(Current(f)) \subseteq flushed /\ UNCHANGED <<failed, took>>
            /\ todo' = [todo EXCEPT ![f] = @ \ {Current(f)}]
            /\ fpc' = [fpc EXCEPT ![f] = "next"] /\ fpc[f] = "next"
        BY <1>1, <2>4, <3>3 DEF LoadClaim, NextClaim, TypeOK, FlushTypes
      <4> QED
        BY <1>1, <1>2, <1>3, <3>3, <4>1 DEF TypeOK, FlushTypes, InProcess
    <3> QED
      BY <3>1, <3>2, <3>3
  <2>5. CASE ReadChannels(f) \/ AddJobs(f)
    BY <1>1, <1>2, <1>3, <2>5 DEF ReadChannels, AddJobs, TypeOK, FlushTypes, InProcess
  <2>6. CASE CompleteClaim(f)
    <3>1. /\ UNCHANGED took /\ fpc' = [fpc EXCEPT ![f] = "next"] /\ fpc[f] = "enqueued"
          /\ todo' = [todo EXCEPT ![f] = @ \ {Current(f)}]
          /\ ~failed'[f] => ~failed[f]
      BY <1>1, <2>6 DEF CompleteClaim, NextClaim, TypeOK, FlushTypes
    <3>2. \A c : c = Current(f) => Members(c)' \subseteq flushed'
      BY <2>6 DEF CompleteClaim, Members
    <3> QED
      BY <1>1, <1>2, <1>3, <3>1, <3>2 DEF TypeOK, FlushTypes, InProcess
  <2>7. CASE ClaimFails(f)
    BY <1>1, <2>7 DEF ClaimFails, NextClaim, TypeOK, FlushTypes, InProcess
  <2>8. CASE EndFlush(f)
    BY <1>1, <1>2, <1>3, <2>8 DEF EndFlush, TypeOK, FlushTypes, InProcess
  <2>9. CASE CrashFlush(f)
    BY <1>1, <2>9 DEF CrashFlush, TypeOK, FlushTypes, InProcess
  <2> QED
    BY <1>5, <2>1, <2>2, <2>3, <2>4, <2>5, <2>6, <2>7, <2>8, <2>9 DEF FlusherStep
<1>6. ASSUME NEW f \in Flushers, FlusherStep(f), NEW g \in Flushers, g # f
      PROVE  UNCHANGED <<fpc[g], failed[g], took[g], todo[g]>>
  BY <1>1, <1>6 DEF FlusherStep, BeginFlush, ClaimCommits, ClaimConflicts, LoadClaim,
    ReadChannels, AddJobs, CompleteClaim, ClaimFails, EndFlush, CrashFlush, NextClaim,
    TypeOK, FlushTypes
<1>7. ASSUME NEW d \in Dispatchers, DispatcherStep(d)
      PROVE  UNCHANGED <<fpc, failed, took, todo>>
  BY <1>7 DEF DispatcherStep, Dispatch, UpdateRow, CreateRow, UpdateRowAgain, FanOut,
    DispatchFails, CrashDispatch
<1>8. ASSUME \/ \E ch \in Volatile : ToggleChannel(ch)
             \/ \E c \in Claims : PruneClaim(c)
             \/ \E k \in Keys : PruneSettled(k)
             \/ \E m \in Modes : SwitchMode(m)
             \/ UNCHANGED vars
      PROVE  UNCHANGED <<fpc, failed, took, todo>>
  BY <1>8 DEF ToggleChannel, PruneClaim, PruneSettled, Drop, SwitchMode, vars
<1>9. \A f \in Flushers : Honest(f)'
  <2> HIDE DEF Honest
  <2> QED
    BY <1>4, <1>5, <1>6, <1>7, <1>8 DEF Next
<1> QED
  BY <1>1, <1>9 DEF HonestInv, DoneWithIsFlushed, ClaimsReported, InProcess

\* A flush goes from its transaction to its claims only with all that it found: a
\* conflict, the last one too, leads nowhere but to another try or to an error.
LEMMA ClaimsWhatItFound ==
  ASSUME TypeOK, [Next]_vars, NEW f \in Flushers, fpc[f] = "claiming", fpc'[f] = "next"
  PROVE  /\ \A k \in Keys : seen[f][k] # NoText => flushId'[k] \in took'[f]
         /\ unfinished[f] \subseteq took'[f]
<1> USE DEF rowVars, envVars, dispatcherVars, txVars, claimVars, queueVars
<1>1. fpc \in [Flushers -> {"idle", "claiming", "next", "loaded", "addressed",
                            "enqueued", "returned", "threw"}]
  BY DEF TypeOK, FlushTypes
<1>2. fpc' # fpc
  OBVIOUS
<1>3. PICK g \in Flushers : FlusherStep(g)
  <2>1. ASSUME NEW d \in Dispatchers, DispatcherStep(d) PROVE FALSE
    BY <1>2, <2>1 DEF DispatcherStep, Dispatch, UpdateRow, CreateRow, UpdateRowAgain, FanOut,
      DispatchFails, CrashDispatch
  <2>2. ASSUME \/ \E ch \in Volatile : ToggleChannel(ch)
               \/ \E c \in Claims : PruneClaim(c)
               \/ \E k \in Keys : PruneSettled(k)
               \/ \E m \in Modes : SwitchMode(m)
               \/ UNCHANGED vars
        PROVE  FALSE
    BY <1>2, <2>2 DEF ToggleChannel, PruneClaim, PruneSettled, Drop, SwitchMode, vars
  <2> QED BY <2>1, <2>2 DEF Next
<1>4. ClaimCommits(f)
  <2>1. CASE g # f
    BY <1>1, <1>3, <2>1 DEF FlusherStep, BeginFlush, ClaimCommits, ClaimConflicts, LoadClaim,
      ReadChannels, AddJobs, CompleteClaim, ClaimFails, EndFlush, CrashFlush, NextClaim
  <2>2. CASE g = f
    BY <1>1, <1>3, <2>2 DEF FlusherStep, BeginFlush, ClaimConflicts, LoadClaim,
      ReadChannels, AddJobs, CompleteClaim, ClaimFails, EndFlush, CrashFlush, NextClaim
  <2> QED BY <2>1, <2>2
<1> QED
  BY <1>4 DEF ClaimCommits, TypeOK, FlushTypes

\* In every mode, whatever failed, was retried or was done by another flush: a flush
\* that returns without an error has left none of its claims unflushed, and its
\* claims are all that it found to send.
THEOREM FlushIsHonest == Spec => FlushReportsTruth
<1>1. Init => HonestInv
  BY InitType, OutboxAssumption DEF Init, HonestInv, ClaimsNumbered, DoneWithIsFlushed,
    ClaimsReported
<1>2. HonestInv /\ [Next]_vars => HonestInv'
  BY HonestStep
<1>3. HonestInv => ClaimsReported
  BY DEF HonestInv
<1>4. HonestInv /\ [Next]_vars => [ClaimsAllItFound]_vars
  BY ClaimsWhatItFound DEF HonestInv, ClaimsAllItFound
<1> QED
  BY <1>1, <1>2, <1>3, <1>4, PTL DEF Spec, FlushReportsTruth
=============================================================================
