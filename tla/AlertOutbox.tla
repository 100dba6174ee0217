----------------------------- MODULE AlertOutbox -----------------------------
(***************************************************************************)
(* The alert outbox of one workspace (apps/api/src/alerts): dispatchers    *)
(* collect facts into AlertEvent rows, concurrent flushes (the end of the  *)
(* daily pipeline and the manual route) claim the pending rows in a        *)
(* serializable transaction and hand each claim to the delivery queue.     *)
(* One action per awaited database or queue call.                          *)
(*                                                                         *)
(* A row is the four functions below at its dedupe key; payload = NoText   *)
(* means there is no row, flushId = 0 that the column is null, and a key   *)
(* in flushed that flushedAt is set.  Claim identifiers are numbered in    *)
(* the order of claimedAt, the order flushes process them in.              *)
(***************************************************************************)
EXTENDS Naturals, FiniteSets

CONSTANTS Keys, Texts, NoText,
          Dispatchers,    \* concurrent calls of dispatch
          Flushers,       \* concurrent calls of flush
          Channels,       \* webhooks and email alerts
          Volatile,       \* the channels users change while the system runs
          Accepts,        \* [Channels -> SUBSET Keys], what filterBatch lets through
          ScopeOf,        \* [Keys -> {"owned", "competitors", "skipped"}]
          Modes,          \* values ALERT_DELIVERY takes over the life of the system
          MaxClaims,      \* bound on the claims of a behaviour
          ClaimAttempts   \* CLAIM_TRANSACTION_ATTEMPTS

Claims == 1..MaxClaims
Scopes == {"owned", "competitors"}

ASSUME OutboxAssumption ==
  /\ NoText \notin Texts
  /\ MaxClaims \in Nat /\ ClaimAttempts \in Nat \ {0}
  /\ Modes \subseteq {"batched", "instant"} /\ Modes # {}
  /\ Volatile \subseteq Channels
  /\ Accepts \in [Channels -> SUBSET Keys]
  /\ ScopeOf \in [Keys -> {"owned", "competitors", "skipped"}]

VARIABLES
  payload, flushId, flushed, lastClaim,          \* AlertEvent rows
  mode, active,                                  \* configuration, subscriptions
  dpc, call,                                     \* a dispatcher's step and alert
  fpc, attempt, seen, unfinished,                \* a flusher's claim transaction
  took, todo, loaded, audience, failed,          \* a flusher's claims
  jobs, handed, instant                          \* the delivery queue

rowVars == <<payload, flushId, flushed, lastClaim>>
envVars == <<mode, active>>
dispatcherVars == <<dpc, call>>
txVars == <<attempt, seen, unfinished>>
claimVars == <<took, todo, loaded, audience, failed>>
queueVars == <<jobs, handed, instant>>
vars == <<rowVars, envVars, dispatcherVars, fpc, txVars, claimVars, queueVars>>

Nothing == [k \in Keys |-> NoText]
NoCall == <<>>
Exists(k) == payload[k] # NoText
Pending(k) == Exists(k) /\ flushId[k] = 0 /\ k \notin flushed
Members(c) == {k \in Keys : flushId[k] = c}
ClaimRows(c) == [k \in Keys |-> IF flushId[k] = c THEN payload[k] ELSE NoText]
PendingRows == [k \in Keys |-> IF Pending(k) THEN payload[k] ELSE NoText]
\* Mutant of UnfinishedClaims: a flush forgets the claims of flushes that died.
OwnClaimOnly == {}
UnfinishedClaims == {c \in Claims : ~(Members(c) \subseteq flushed)}
First(S) == CHOOSE c \in S : \A d \in S : c <= d
Current(f) == First(todo[f])

Init ==
  /\ payload = Nothing /\ flushId = [k \in Keys |-> 0]
  /\ flushed = {} /\ lastClaim = 0
  /\ mode \in Modes /\ active \in SUBSET Channels
  /\ dpc = [d \in Dispatchers |-> "idle"]
  /\ call = [d \in Dispatchers |-> NoCall]
  /\ fpc = [f \in Flushers |-> "idle"]
  /\ attempt = [f \in Flushers |-> 0]
  /\ seen = [f \in Flushers |-> Nothing]
  /\ unfinished = [f \in Flushers |-> {}]
  /\ took = [f \in Flushers |-> {}] /\ todo = [f \in Flushers |-> {}]
  /\ loaded = [f \in Flushers |-> Nothing]
  /\ audience = [f \in Flushers |-> {}]
  /\ failed = [f \in Flushers |-> FALSE]
  /\ jobs = {} /\ handed = {} /\ instant = {}
-----------------------------------------------------------------------------
(* AlertsDispatcher *)

\* dispatch: an alert with one row to record, under the mode of this process.
Dispatch(d, k, t) ==
  /\ dpc[d] = "idle"
  /\ dpc' = [dpc EXCEPT ![d] = "update"]
  /\ call' = [call EXCEPT ![d] = <<k, t>>]
  /\ UNCHANGED <<rowVars, envVars, fpc, txVars, claimVars, queueVars>>

\* Mutant of Matches: a batched write also refreshes a row already claimed.
MatchesUnflushed(k) == Exists(k) /\ (mode = "batched" => k \notin flushed)

\* outboxWrite: a batched write matches only a pending row, a settled one any row.
Matches(k) == IF mode = "batched" THEN Pending(k) ELSE Exists(k)
Settles(k) == IF mode = "batched" THEN flushed ELSE flushed \cup {k}
AfterRecord == IF mode = "batched" THEN "idle" ELSE "fanOut"

Write(d) == /\ payload' = [payload EXCEPT ![call[d][1]] = call[d][2]]
            /\ flushed' = Settles(call[d][1])
            /\ UNCHANGED <<flushId, lastClaim>>

\* A dispatcher that ends forgets its locals.
Goto(d, pc) == /\ dpc' = [dpc EXCEPT ![d] = pc]
               /\ call' = IF pc = "idle" THEN [call EXCEPT ![d] = NoCall] ELSE call

\* collectRow: refresh the row that is there ...
UpdateRow(d) ==
  /\ dpc[d] = "update"
  /\ IF Matches(call[d][1]) THEN Write(d) /\ Goto(d, AfterRecord)
                         ELSE UNCHANGED rowVars /\ Goto(d, "create")
  /\ UNCHANGED <<envVars, fpc, txVars, claimVars, queueVars>>

\* ... or create one; the unique (workspaceId, dedupeKey) makes that fail ...
\* Bound: rows are created only while claims are left for the pending ones.
CreateRow(d) ==
  /\ dpc[d] = "create"
  /\ lastClaim + Cardinality({k \in Keys : Pending(k)}) < MaxClaims
  /\ IF Exists(call[d][1]) THEN UNCHANGED rowVars /\ Goto(d, "updateAgain")
                        ELSE Write(d) /\ Goto(d, AfterRecord)
  /\ UNCHANGED <<envVars, fpc, txVars, claimVars, queueVars>>

\* ... and then the row that won the race is refreshed, if it still matches.
UpdateRowAgain(d) ==
  /\ dpc[d] = "updateAgain"
  /\ IF Matches(call[d][1]) THEN Write(d) ELSE UNCHANGED rowVars
  /\ Goto(d, AfterRecord)
  /\ UNCHANGED <<envVars, fpc, txVars, claimVars, queueVars>>

\* Instant mode queues one job per listening channel, recorded or not.
FanOut(d) ==
  /\ dpc[d] = "fanOut"
  /\ instant' = instant \cup {call[d]}
  /\ Goto(d, "idle")
  /\ UNCHANGED <<rowVars, envVars, fpc, txVars, claimVars, jobs, handed>>

\* A call that throws: swallowed, except that a failed record does not stop
\* the instant fan-out.
DispatchFails(d) ==
  /\ dpc[d] # "idle"
  /\ Goto(d, IF dpc[d] = "fanOut" THEN "idle" ELSE AfterRecord)
  /\ UNCHANGED <<rowVars, envVars, fpc, txVars, claimVars, queueVars>>
-----------------------------------------------------------------------------
(* AlertFlushService.claimSnapshot *)

TakeSnapshot(f) == /\ seen' = [seen EXCEPT ![f] = PendingRows]
                   /\ unfinished' = [unfinished EXCEPT ![f] = UnfinishedClaims]

Forget(f) == /\ loaded' = [loaded EXCEPT ![f] = Nothing]
             /\ audience' = [audience EXCEPT ![f] = {}]

\* flush opens its first serializable transaction and reads.
BeginFlush(f) ==
  /\ fpc[f] \in {"idle", "returned", "threw"}
  /\ fpc' = [fpc EXCEPT ![f] = "claiming"]
  /\ attempt' = [attempt EXCEPT ![f] = 1]
  /\ TakeSnapshot(f)
  /\ took' = [took EXCEPT ![f] = {}] /\ failed' = [failed EXCEPT ![f] = FALSE]
  /\ UNCHANGED <<rowVars, envVars, dispatcherVars, todo, loaded, audience, queueVars>>

CloseTx(f) == /\ attempt' = [attempt EXCEPT ![f] = 0]
              /\ seen' = [seen EXCEPT ![f] = Nothing]
              /\ unfinished' = [unfinished EXCEPT ![f] = {}]

\* Mutant of SnapshotHolds: read committed, so a row written since is claimed too.
NoConflict(f) == TRUE
SnapshotHolds(f) == \A k \in Keys : seen[f][k] # NoText => PendingRows[k] = seen[f][k]

\* Mutant of FreshClaim: new rows join the latest claim.
LatestClaim == IF lastClaim = 0 THEN 1 ELSE lastClaim
FreshClaim == lastClaim + 1

\* Mutant of RetriesLeft: one attempt more than the bound.
RetriesOneMore(f) == attempt[f] <= ClaimAttempts
RetriesLeft(f) == attempt[f] < ClaimAttempts

\* The transaction claims every row of its snapshot; it commits only when
\* none of them was written since.
ClaimCommits(f) ==
  LET target == {k \in Keys : seen[f][k] # NoText}
      claims == unfinished[f] \cup (IF target = {} THEN {} ELSE {FreshClaim})
  IN
  /\ fpc[f] = "claiming"
  /\ SnapshotHolds(f)
  /\ target # {} => lastClaim < MaxClaims
  /\ flushId' = [k \in Keys |-> IF k \in target THEN FreshClaim ELSE flushId[k]]
  /\ lastClaim' = IF target = {} THEN lastClaim ELSE FreshClaim
  /\ took' = [took EXCEPT ![f] = claims] /\ todo' = [todo EXCEPT ![f] = claims]
  /\ fpc' = [fpc EXCEPT ![f] = "next"]
  /\ CloseTx(f)
  /\ UNCHANGED <<payload, flushed, envVars, dispatcherVars, loaded, audience, failed, queueVars>>

\* Mutant of ClaimConflicts: the last conflict ends the loop of attempts, and flush
\* goes on with no claim.
ConflictsEndEmpty(f) ==
  /\ fpc[f] = "claiming"
  /\ PendingRows # seen[f] \/ UnfinishedClaims # unfinished[f]
  /\ \/ /\ RetriesLeft(f) /\ TakeSnapshot(f) /\ attempt' = [attempt EXCEPT ![f] = @ + 1]
        /\ UNCHANGED fpc
     \/ ~RetriesLeft(f) /\ CloseTx(f) /\ fpc' = [fpc EXCEPT ![f] = "next"]
  /\ UNCHANGED <<rowVars, envVars, dispatcherVars, claimVars, queueVars>>

\* A serialization conflict: retried on a new snapshot, a bounded number of times.
ClaimConflicts(f) ==
  /\ fpc[f] = "claiming"
  /\ PendingRows # seen[f] \/ UnfinishedClaims # unfinished[f]
  /\ \/ /\ RetriesLeft(f)
        /\ attempt' = [attempt EXCEPT ![f] = @ + 1]
        /\ TakeSnapshot(f)
        /\ UNCHANGED <<fpc, failed>>
     \/ /\ ~RetriesLeft(f)
        /\ fpc' = [fpc EXCEPT ![f] = "threw"]
        /\ failed' = [failed EXCEPT ![f] = TRUE]
        /\ CloseTx(f)
  /\ UNCHANGED <<rowVars, envVars, dispatcherVars, took, todo, loaded, audience, queueVars>>
-----------------------------------------------------------------------------
(* AlertFlushService.processClaim, for the first claim of todo *)

NextClaim(f) == /\ todo' = [todo EXCEPT ![f] = @ \ {Current(f)}]
                /\ fpc' = [fpc EXCEPT ![f] = "next"]
                /\ Forget(f)

\* loadClaim and the checks on what it returns.
LoadClaim(f) ==
  /\ fpc[f] = "next" /\ todo[f] # {}
  /\ LET rows == Members(Current(f)) IN
     \/ /\ rows # {} /\ rows \subseteq flushed
        /\ NextClaim(f) /\ UNCHANGED failed
     \/ /\ rows = {} \/ (rows \cap flushed # {} /\ ~(rows \subseteq flushed))
        /\ NextClaim(f) /\ failed' = [failed EXCEPT ![f] = TRUE]
     \/ /\ rows # {} /\ rows \cap flushed = {}
        /\ loaded' = [loaded EXCEPT ![f] = ClaimRows(Current(f))]
        /\ fpc' = [fpc EXCEPT ![f] = "loaded"]
        /\ UNCHANGED <<todo, audience, failed>>
  /\ UNCHANGED <<rowVars, envVars, dispatcherVars, txVars, took, queueVars>>

\* enqueue reads the channels that are active now ...
ReadChannels(f) ==
  /\ fpc[f] = "loaded"
  /\ audience' = [audience EXCEPT ![f] = active]
  /\ fpc' = [fpc EXCEPT ![f] = "addressed"]
  /\ UNCHANGED <<rowVars, envVars, dispatcherVars, txVars, took, todo, loaded, failed, queueVars>>

\* What createDeliveryFlows puts in the job of one channel and one scope.
Body(f, ch, scope) == {<<k, loaded[f][k]>> : k \in
    {x \in Accepts[ch] : ScopeOf[x] = scope /\ loaded[f][x] # NoText}}

JobOf(f, ch, scope) == [claim |-> Current(f), channel |-> ch, scope |-> scope,
                        body |-> Body(f, ch, scope)]

\* The jobs to add: those that say something and whose id the queue does not hold.
NewJobs(f) == {p \in audience[f] \X Scopes :
                 /\ Body(f, p[1], p[2]) # {}
                 /\ \A j \in jobs : ~(/\ j.claim = Current(f)
                                      /\ j.channel = p[1] /\ j.scope = p[2])}

\* Mutant of AddJobs: the queue is down and the error is swallowed.
AddJobsBestEffort(f) ==
  /\ fpc[f] = "addressed"
  /\ fpc' = [fpc EXCEPT ![f] = "enqueued"]
  /\ UNCHANGED <<rowVars, envVars, dispatcherVars, txVars, claimVars, queueVars>>

\* ... and addBulk adds the jobs, all or none.
AddJobs(f) ==
  /\ fpc[f] = "addressed"
  /\ jobs' = jobs \cup {JobOf(f, p[1], p[2]) : p \in NewJobs(f)}
  /\ handed' = handed \cup {Current(f)}
  /\ fpc' = [fpc EXCEPT ![f] = "enqueued"]
  /\ UNCHANGED <<rowVars, envVars, dispatcherVars, txVars, claimVars, instant>>

\* completeClaim; the rows of a claim are among those loaded, so comparing the
\* counts of the code is comparing the sets.
CompleteClaim(f) ==
  LET rows == Members(Current(f))
      open == rows \ flushed
      expected == {k \in Keys : loaded[f][k] # NoText}
  IN
  /\ fpc[f] = "enqueued"
  /\ flushed' = flushed \cup rows
  /\ failed' = [failed EXCEPT ![f] =
                  @ \/ ~(open = expected \/ (open = {} /\ rows = expected))]
  /\ NextClaim(f)
  /\ UNCHANGED <<payload, flushId, lastClaim, envVars, dispatcherVars, txVars, took, queueVars>>

\* Mutant of ClaimFails: the failure is not remembered.
ClaimFailsSilently(f) ==
  /\ fpc[f] \in {"next", "loaded", "addressed", "enqueued"} /\ todo[f] # {}
  /\ NextClaim(f)
  /\ UNCHANGED <<rowVars, envVars, dispatcherVars, txVars, took, failed, queueVars>>

\* A database or queue call of processClaim throws; flush goes on to the next claim.
ClaimFails(f) ==
  /\ fpc[f] \in {"next", "loaded", "addressed", "enqueued"} /\ todo[f] # {}
  /\ failed' = [failed EXCEPT ![f] = TRUE]
  /\ NextClaim(f)
  /\ UNCHANGED <<rowVars, envVars, dispatcherVars, txVars, took, queueVars>>

\* flush throws when some claim failed and returns its totals otherwise.
EndFlush(f) ==
  /\ fpc[f] = "next" /\ todo[f] = {}
  /\ fpc' = [fpc EXCEPT ![f] = IF failed[f] THEN "threw" ELSE "returned"]
  /\ UNCHANGED <<rowVars, envVars, dispatcherVars, txVars, claimVars, queueVars>>
-----------------------------------------------------------------------------
(* The rest of the system *)

\* A user adds, pauses, confirms or deletes a channel.
ToggleChannel(ch) ==
  /\ active' = IF ch \in active THEN active \ {ch} ELSE active \cup {ch}
  /\ UNCHANGED <<rowVars, mode, dispatcherVars, fpc, txVars, claimVars, queueVars>>

Drop(S) == /\ payload' = [k \in Keys |-> IF k \in S THEN NoText ELSE payload[k]]
           /\ flushId' = [k \in Keys |-> IF k \in S THEN 0 ELSE flushId[k]]
           /\ flushed' = flushed \ S
           /\ UNCHANGED <<lastClaim, envVars, dispatcherVars, fpc, txVars, claimVars, queueVars>>

\* Mutant of PruneClaim: rows go by age, flushed or not.
PruneByAge(c) ==
  /\ Members(c) # {}
  /\ \A f \in Flushers : c \notin todo[f] \cup unfinished[f]
  /\ Drop(Members(c))

\* pruneAlertEvents: rows flushed long ago, so a claim goes as a whole and no
\* flush is still working on it.
PruneClaim(c) ==
  /\ Members(c) # {} /\ Members(c) \subseteq flushed
  /\ \A f \in Flushers : c \notin todo[f] \cup unfinished[f]
  /\ Drop(Members(c))

\* A row that no claim flushed goes by itself, also from a claim that is only
\* partly flushed: what is left of that claim may be resumed.  A flush at work on
\* the claim is over long before the days of retention are.
PruneSettled(k) ==
  /\ k \in flushed
  /\ flushId[k] = 0 \/ ~(Members(flushId[k]) \subseteq flushed)
  /\ \A f \in Flushers : fpc[f] \in {"loaded", "addressed", "enqueued"} => Current(f) # flushId[k]
  /\ Drop({k})

\* One flush dies with its process (a crash, a deploy, a lost worker).
CrashFlush(f) ==
  /\ fpc[f] \notin {"idle", "returned", "threw"}
  /\ fpc' = [fpc EXCEPT ![f] = "idle"]
  /\ CloseTx(f) /\ Forget(f)
  /\ took' = [took EXCEPT ![f] = {}] /\ todo' = [todo EXCEPT ![f] = {}]
  /\ failed' = [failed EXCEPT ![f] = FALSE]
  /\ UNCHANGED <<rowVars, envVars, dispatcherVars, queueVars>>

CrashDispatch(d) ==
  /\ dpc[d] # "idle"
  /\ Goto(d, "idle")
  /\ UNCHANGED <<rowVars, envVars, fpc, txVars, claimVars, queueVars>>

\* A restart with another ALERT_DELIVERY, between calls.
SwitchMode(m) ==
  /\ m # mode
  /\ \A d \in Dispatchers : dpc[d] = "idle"
  /\ \A f \in Flushers : fpc[f] \in {"idle", "returned", "threw"}
  /\ mode' = m
  /\ UNCHANGED <<rowVars, active, dispatcherVars, fpc, txVars, claimVars, queueVars>>

DispatcherStep(d) == \/ \E k \in Keys, t \in Texts : Dispatch(d, k, t)
                     \/ UpdateRow(d) \/ CreateRow(d) \/ UpdateRowAgain(d) \/ FanOut(d)
                     \/ DispatchFails(d) \/ CrashDispatch(d)

FlusherStep(f) == \/ BeginFlush(f) \/ ClaimCommits(f) \/ ClaimConflicts(f)
                  \/ LoadClaim(f) \/ ReadChannels(f) \/ AddJobs(f) \/ CompleteClaim(f)
                  \/ ClaimFails(f) \/ EndFlush(f) \/ CrashFlush(f)

Next == \/ \E d \in Dispatchers : DispatcherStep(d)
        \/ \E f \in Flushers : FlusherStep(f)
        \/ \E ch \in Volatile : ToggleChannel(ch)
        \/ \E c \in Claims : PruneClaim(c)
        \/ \E k \in Keys : PruneSettled(k)
        \/ \E m \in Modes : SwitchMode(m)

Spec == Init /\ [][Next]_vars

\* The step that works on claim c.
Working(f, c, A) == /\ todo[f] # {} /\ Current(f) = c /\ A

\* The daily pipeline calls flush again every day, and no call fails or is
\* overtaken every time it is tried.  Dispatchers, users and retention owe nothing.
Fairness ==
  \A f \in Flushers :
    /\ WF_vars(BeginFlush(f)) /\ WF_vars(EndFlush(f))
    /\ SF_vars(ClaimCommits(f))
    /\ \A c \in Claims : /\ SF_vars(Working(f, c, LoadClaim(f)))
                         /\ SF_vars(Working(f, c, ReadChannels(f)))
                         /\ SF_vars(Working(f, c, AddJobs(f)))
                         /\ SF_vars(Working(f, c, CompleteClaim(f)))

FairSpec == Spec /\ Fairness
-----------------------------------------------------------------------------
(* Types *)

JobType == [claim : Claims, channel : Channels, scope : Scopes,
            body : SUBSET (Keys \X Texts)]
AnyText == Texts \cup {NoText}

RowTypes == /\ payload \in [Keys -> AnyText] /\ flushId \in [Keys -> {0} \cup Claims]
            /\ flushed \subseteq Keys /\ lastClaim \in 0..MaxClaims
EnvTypes == mode \in Modes /\ active \subseteq Channels
DispatcherTypes ==
  /\ dpc \in [Dispatchers -> {"idle", "update", "create", "updateAgain", "fanOut"}]
  /\ call \in [Dispatchers -> (Keys \X Texts) \cup {NoCall}]
  /\ \A d \in Dispatchers : dpc[d] # "idle" => call[d] \in Keys \X Texts
TxTypes == /\ attempt \in [Flushers -> 0..ClaimAttempts]
           /\ seen \in [Flushers -> [Keys -> AnyText]]
           /\ unfinished \in [Flushers -> SUBSET Claims]
FlushTypes ==
  /\ fpc \in [Flushers -> {"idle", "claiming", "next", "loaded", "addressed",
                           "enqueued", "returned", "threw"}]
  /\ took \in [Flushers -> SUBSET Claims] /\ todo \in [Flushers -> SUBSET Claims]
  /\ \A f \in Flushers : fpc[f] \in {"loaded", "addressed", "enqueued"} => todo[f] # {}
  /\ loaded \in [Flushers -> [Keys -> AnyText]]
  /\ audience \in [Flushers -> SUBSET Channels]
  /\ failed \in [Flushers -> BOOLEAN]
QueueTypes == /\ jobs \subseteq JobType /\ handed \subseteq Claims
              /\ instant \subseteq Keys \X Texts

\* Every variable holds a value of its type, a call in progress knows its alert
\* and a flush inside processClaim has a claim.
TypeOK == /\ RowTypes /\ EnvTypes /\ DispatcherTypes
          /\ TxTypes /\ FlushTypes /\ QueueTypes
-----------------------------------------------------------------------------
(* Safety *)

\* The rows of a claim are flushed together or not at all, whatever two
\* flushes, a retry and the dispatchers do: processClaim refuses a claim that
\* is partly flushed for good ("is partially completed").
ClaimsAreWhole ==
  \A c \in Claims : Members(c) \subseteq flushed \/ Members(c) \cap flushed = {}

\* A job that is queued says what the outbox says: for every row of its claim
\* that still exists, it carries the text the row holds, so the feed and the
\* message a user received never disagree.
JobsMatchOutbox ==
  \A j \in jobs : \A k \in Keys, t \in Texts :
    <<k, t>> \in j.body /\ flushId[k] = j.claim => payload[k] = t

\* Once a claim is flushed, every channel that was active throughout has a job
\* with each of its facts that the channel accepts, in the text the outbox
\* shows, whichever flush enqueued it and however often the claim was retried.
FlushedReachedChannels ==
  \A k \in flushed, ch \in active \ Volatile :
    flushId[k] # 0 /\ k \in Accepts[ch] /\ ScopeOf[k] \in Scopes =>
      \E j \in jobs : /\ j.claim = flushId[k] /\ j.channel = ch
                     /\ j.scope = ScopeOf[k] /\ <<k, payload[k]>> \in j.body

\* A flush that returns without an error leaves none of its claims unflushed ...
ClaimsReported ==
  \A f \in Flushers : fpc[f] = "returned" => \A c \in took[f] : Members(c) \subseteq flushed

\* ... and it has claimed all that it found pending or unfinished.
ClaimsAllItFound ==
  \A f \in Flushers : fpc[f] = "claiming" /\ fpc'[f] = "next" =>
    /\ \A k \in Keys : seen[f][k] # NoText => flushId'[k] \in took'[f]
    /\ unfinished[f] \subseteq took'[f]

\* A flush that met conflicts, failing calls or a claim it had to refuse never
\* returns as if it had sent everything or had had nothing to send: the pipeline
\* job is retried only after one that throws.
FlushReportsTruth == []ClaimsReported /\ [][ClaimsAllItFound]_vars

\* Once claimed, a row keeps its text and its claim until retention removes it.
ClaimedRowsAreSealed ==
  [][\A k \in Keys : flushId[k] # 0 /\ payload'[k] # NoText =>
       payload'[k] = payload[k] /\ flushId'[k] = flushId[k]]_rowVars

\* A fact that was not sent is never dropped, and it is marked flushed only as
\* a member of a claim (or, in instant mode, as it is sent).
UnsentIsNotLost ==
  [][\A k \in Keys : Exists(k) /\ k \notin flushed =>
       /\ Exists(k)'
       /\ k \in flushed' => flushId[k] # 0 \/ mode = "instant"]_rowVars

\* What was sent as it happened is not sent again in a batch, also when a
\* restart changed the mode while flushes were pending: a flushed row is final.
FlushedIsFinal ==
  [][\A k \in Keys : k \in flushed /\ payload'[k] # NoText =>
       k \in flushed' /\ flushId'[k] = flushId[k]]_rowVars
-----------------------------------------------------------------------------
(* What makes the safety properties inductive *)

AtWork(f) == fpc[f] \in {"loaded", "addressed", "enqueued"}
Steady == active \ Volatile

\* Claim numbers are handed out in order: nobody knows a claim above the last.
ClaimsNumbered ==
  /\ \A k \in Keys : flushId[k] <= lastClaim
  /\ \A j \in jobs : j.claim <= lastClaim
  /\ \A c \in handed : c <= lastClaim
  /\ \A f \in Flushers : \A c \in took[f] \cup todo[f] \cup unfinished[f] : c <= lastClaim

\* A flush that has met no failure has flushed every claim it is done with.
DoneWithIsFlushed ==
  \A f \in Flushers : fpc[f] \in {"next", "loaded", "addressed", "enqueued"} /\ ~failed[f] =>
    \A c \in took[f] \ todo[f] : Members(c) \subseteq flushed

\* In batched mode a row without a claim is pending, and a key without a row is blank.
RowsInOrder == \A k \in Keys : /\ flushId[k] = 0 => k \notin flushed
                               /\ payload[k] = NoText => flushId[k] = 0

\* The rows a flush loaded are the rows of its claim as they are now.
LoadedIsCurrent == \A f \in Flushers : AtWork(f) =>
                     /\ loaded[f] = ClaimRows(Current(f))
                     /\ Members(Current(f)) # {}

\* A job leaves out no row of its claim that its channel should get.
JobsAreComplete ==
  \A j \in jobs, k \in Keys :
    flushId[k] = j.claim /\ k \in Accepts[j.channel] /\ ScopeOf[k] = j.scope =>
      <<k, payload[k]>> \in j.body

Reached(c) ==
  \A k \in Members(c), ch \in Steady : k \in Accepts[ch] /\ ScopeOf[k] \in Scopes =>
    \E j \in jobs : /\ j.claim = c /\ j.channel = ch
                   /\ j.scope = ScopeOf[k] /\ <<k, payload[k]>> \in j.body

\* What a flush past its enqueue knows.
EnqueuedReached ==
  \A f \in Flushers : /\ fpc[f] = "addressed" => Steady \subseteq audience[f]
                      /\ fpc[f] = "enqueued" => /\ Current(f) \in handed
                                                /\ Reached(Current(f))

\* The inductive invariant of batched mode: each part is what some other
\* part needs to survive one more step.
BatchedInv == /\ TypeOK /\ mode = "batched"
              /\ ClaimsNumbered /\ RowsInOrder /\ ClaimsAreWhole
              /\ LoadedIsCurrent /\ JobsMatchOutbox /\ JobsAreComplete
              /\ EnqueuedReached /\ FlushedReachedChannels
-----------------------------------------------------------------------------
(* Liveness and refinement *)

\* Every pending fact is flushed in the end, through crashes, failing calls,
\* conflicts and competing flushes.
PendingIsFlushed == \A k \in Keys : Pending(k) ~> k \in flushed

Promised == INSTANCE AlertPromise
              WITH text <- payload, claim <- flushId, done <- flushed, given <- handed

\* The outbox keeps the promise of AlertPromise, safety and delivery.
KeepsPromise == Promised!KeptPromise
SafelyPromised == Promised!Promise
=============================================================================
