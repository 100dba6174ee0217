-------------------------- MODULE ActionLifecycle --------------------------
(***************************************************************************)
(* One finding of the Action Center (apps/api/src/actions): the ActionItem *)
(* row of one fingerprint and its ActionEvent rows.  Generator runs take   *)
(* their instant, spend their time on loading the data of the detectors,   *)
(* read the row and write what the lifecycle says of it at that instant,   *)
(* if the row is still what they read; users change and undo in            *)
(* transactions that lock the row, so each is one step.                    *)
(*                                                                         *)
(* Instants are numbers from 1 up, 0 is a null column.  The log holds the  *)
(* events in the order they were written; the code reads them by their     *)
(* occurredAt, which for a generator is the moment its run began.          *)
(***************************************************************************)
EXTENDS Integers, Sequences, FiniteSets

CONSTANTS Users, Runs,
          Reasons,         \* of a dismissal
          UndoWindow,      \* ACTION_REVERT_WINDOW_MINUTES
          ReopenAfter,     \* ACTION_REOPEN_AFTER_DAYS
          SnoozeMax,       \* ACTIONS_SNOOZE_MAX_DAYS
          KeepClosed,      \* RETENTION_ACTIONS_DAYS
          MaxTime, MaxLog, MaxRows   \* bounds on the clock, the log, the rows ever created

ASSUME ActionAssumption ==
  /\ UndoWindow \in Nat /\ ReopenAfter \in Nat /\ SnoozeMax \in Nat /\ KeepClosed \in Nat
  /\ MaxTime \in Nat \ {0} /\ MaxLog \in Nat \ {0} /\ MaxRows \in Nat
  /\ "system" \notin Users /\ "none" \notin Reasons

VARIABLES now,             \* the clock
          row, log,        \* the ActionItem and its ActionEvents
          rows,            \* how many rows the fingerprint has had: the identifier of the latest
          began, read, saw \* of a run: its instant (0: none), the row it read, what its
                          \* detector found ("nothing" until the row is read)

vars == <<now, row, log, rows, began, read, saw>>

NoRow == [id |-> 0, status |-> "NONE", until |-> 0, closed |-> 0, verified |-> 0,
          resolved |-> 0, reopens |-> 0]
Exists == row.id # 0

Init == /\ now = 1 /\ row = NoRow /\ log = <<>> /\ rows = 0
        /\ began = [g \in Runs |-> 0] /\ read = [g \in Runs |-> NoRow]
        /\ saw = [g \in Runs |-> "nothing"]

Tick == /\ now < MaxTime /\ now' = now + 1
        /\ UNCHANGED <<row, log, rows, began, read, saw>>

Event(type, actor, status, until, reason, at) ==
  [type |-> type, actor |-> actor, status |-> status, until |-> until,
   reason |-> reason, at |-> at]
SystemEvent(type, status, at) == Event(type, "system", status, 0, "none", at)

HasRoom == Len(log) < MaxLog
-----------------------------------------------------------------------------
(* ActionsGenerator *)

\* generateForWorkspace takes the instant that dates all it will write, and
\* loads the data its detectors judge.
BeginRun(g) ==
  /\ began[g] = 0
  /\ began' = [began EXCEPT ![g] = now]
  /\ UNCHANGED <<now, row, log, rows, read, saw>>

\* Only then it reads the rows; its detector fired on the finding or not.  A run
\* whose detector says nothing of it (it threw, the detection is withheld or,
\* for a new one, over the cap) leaves the row alone: no step.
Load(g) ==
  /\ began[g] # 0 /\ saw[g] = "nothing"
  /\ read' = [read EXCEPT ![g] = row]
  /\ \E s \in {"fired", "missed"} : saw' = [saw EXCEPT ![g] = s]
  /\ UNCHANGED <<now, row, log, rows, began>>

EndRun(g) == /\ began' = [began EXCEPT ![g] = 0]
             /\ read' = [read EXCEPT ![g] = NoRow]
             /\ saw' = [saw EXCEPT ![g] = "nothing"]

\* Mutant of ReopenIsDue: the day that begins counts as over.
ReopenOneEarly(r, t) == r.verified # 0 \/ t - r.closed + 1 >= ReopenAfter
\* reopenIsDue
ReopenIsDue(r, t) == r.verified # 0 \/ t - r.closed >= ReopenAfter

\* nextLifecycle
Outcome(r, s, t) ==
  CASE s = "fired" /\ r.id = 0              -> "create"
    [] s = "fired" /\ r.status = "OPEN"     -> "refresh"
    [] s = "fired" /\ r.status = "SNOOZED"  -> IF r.until > t THEN "refresh" ELSE "wake"
    [] s = "fired" /\ r.status = "DONE"     -> IF ReopenIsDue(r, t) THEN "reopen" ELSE "touch"
    [] s = "fired" /\ r.status = "RESOLVED" -> "reopen"
    [] s = "missed" /\ r.status \in {"OPEN", "SNOOZED"}       -> "resolve"
    [] s = "missed" /\ r.status = "DONE" /\ r.verified = 0    -> "verify"
    [] OTHER                                -> "noop"

\* Mutants of Unchanged: columns left out of the comparison.
UnchangedButVerified(g) == [row EXCEPT !.verified = 0] = [read[g] EXCEPT !.verified = 0]
UnchangedButUntil(g) == [row EXCEPT !.until = 0] = [read[g] EXCEPT !.until = 0]
SameId(g) == row.id = read[g].id

\* unchangedSinceRead
Unchanged(g) == /\ row.id = read[g].id /\ row.status = read[g].status
                /\ row.reopens = read[g].reopens /\ row.until = read[g].until
                /\ row.closed = read[g].closed /\ row.verified = read[g].verified

\* The columns a write sets and the event it records.
Reopened(r) == [r EXCEPT !.status = "OPEN", !.reopens = @ + 1, !.closed = 0,
                         !.verified = 0, !.resolved = 0, !.until = 0]
Written(g, outcome, t) ==
  CASE outcome = "refresh" -> IF read[g].status = "OPEN" THEN [row EXCEPT !.resolved = 0, !.until = 0]
                                                         ELSE [row EXCEPT !.resolved = 0]
    [] outcome = "wake"    -> [row EXCEPT !.status = "OPEN", !.resolved = 0, !.until = 0]
    [] outcome = "reopen"  -> [Reopened(row) EXCEPT !.reopens = read[g].reopens + 1]
    [] outcome = "resolve" -> [row EXCEPT !.status = "RESOLVED", !.resolved = t, !.until = 0]
    [] outcome = "verify"  -> [row EXCEPT !.verified = t]
    [] OTHER               -> row

Recorded(outcome, t) ==
  CASE outcome = "wake"    -> <<SystemEvent("woke", "OPEN", t)>>
    [] outcome = "reopen"  -> <<SystemEvent("reopened", "OPEN", t)>>
    [] outcome = "resolve" -> <<SystemEvent("resolved", "RESOLVED", t)>>
    [] outcome = "verify"  -> <<SystemEvent("verified", "DONE", t)>>
    [] OTHER               -> <<>>

\* applySteps on a row that was there: written and recorded only if unchanged.
ApplyStep(g) ==
  LET outcome == Outcome(read[g], saw[g], began[g]) IN
  /\ saw[g] # "nothing" /\ outcome # "create"
  /\ IF Unchanged(g) /\ outcome # "noop"
       THEN /\ Recorded(outcome, began[g]) # <<>> => HasRoom
            /\ row' = Written(g, outcome, began[g])
            /\ log' = log \o Recorded(outcome, began[g])
       ELSE UNCHANGED <<row, log>>
  /\ EndRun(g)
  /\ UNCHANGED <<now, rows>>

\* applySteps on a finding that had no row: the fingerprint is unique, so the
\* transaction of the later of two runs fails as a whole.
CreateStep(g) ==
  /\ saw[g] # "nothing" /\ Outcome(read[g], saw[g], began[g]) = "create"
  /\ IF Exists THEN UNCHANGED <<row, log, rows>>
     ELSE /\ rows < MaxRows
          /\ rows' = rows + 1
          /\ row' = [NoRow EXCEPT !.id = rows + 1, !.status = "OPEN"]
          /\ log' = <<SystemEvent("opened", "OPEN", began[g])>>
  /\ EndRun(g)
  /\ UNCHANGED now

\* A run that dies before its transaction writes nothing.
CrashRun(g) == began[g] # 0 /\ EndRun(g) /\ UNCHANGED <<now, row, log, rows>>
-----------------------------------------------------------------------------
(* ActionTransitions, inside the transaction that locks the row *)

\* Event i comes after event j in the order the code reads them.
After(l, i, j) == l[i].at > l[j].at \/ (l[i].at = l[j].at /\ i >= j)
Newest(l, S) == CHOOSE i \in S : \A j \in S : After(l, i, j)
Events(l) == 1..Len(l)
Latest(l) == Newest(l, Events(l))
Before(l) == Newest(l, Events(l) \ {Latest(l)})
Closing(l) == Newest(l, Events(l) \ {Latest(l), Before(l)})

LastReason == LET D == {i \in Events(log) : log[i].type = "dismissed"}
              IN IF D = {} THEN "none" ELSE log[Newest(log, D)].reason

\* isNoteOnly, repeatsDismissal: a change that says what the row says already.
SaysNothingNew(status, until, reason) ==
  /\ status = row.status
  /\ \/ status = "DONE"
     \/ status = "SNOOZED" /\ until = row.until
     \/ status = "DISMISSED" /\ (reason = "none" \/ reason = LastReason)

\* sideEffects
Changed(status, until) ==
  CASE status = "DONE"      -> [row EXCEPT !.status = "DONE", !.closed = now, !.verified = 0,
                                           !.resolved = 0, !.until = 0]
    [] status = "DISMISSED" -> [row EXCEPT !.status = "DISMISSED", !.closed = now,
                                           !.verified = 0, !.until = 0]
    [] status = "SNOOZED"   -> [row EXCEPT !.status = "SNOOZED", !.until = until, !.closed = 0,
                                           !.verified = 0, !.resolved = 0]
    [] status = "OPEN"      -> [row EXCEPT !.status = "OPEN", !.closed = 0, !.verified = 0,
                                           !.resolved = 0, !.until = 0]

\* Mutant of CountsAsReopen: waking a snoozed action counts as well.
CountsAnyOpening(previous, status) == status = "OPEN" /\ previous # "OPEN"
CountsAsReopen(previous, status) == status = "OPEN" /\ previous \notin {"OPEN", "SNOOZED"}

\* transitionEvent
EventType(previous, status) ==
  CASE status = "DONE"      -> "done"
    [] status = "DISMISSED" -> "dismissed"
    [] status = "SNOOZED"   -> "snoozed"
    [] status = "OPEN"      -> CASE previous = "OPEN"    -> "none"
                                 [] previous = "SNOOZED" -> "woke"
                                 [] OTHER                -> "reopened"

\* validateShape and snoozeDate: the bodies that get as far as the row.
Statuses == {"OPEN", "DONE", "DISMISSED", "SNOOZED"}
Dates == 1..(MaxTime + SnoozeMax)
Bodies == ({"OPEN", "DONE"} \X {0} \X {"none"})
          \cup ({"DISMISSED"} \X {0} \X (Reasons \cup {"none"}))
          \cup ({"SNOOZED"} \X {t \in Dates : t > now /\ t <= now + SnoozeMax}
                            \X {"none"})

\* A user changes the status; a repeated change writes at most the note.
Change(u, status, until, reason) ==
  /\ Exists /\ ~SaysNothingNew(status, until, reason)
  /\ row.status = "RESOLVED" => status = "OPEN"
  /\ LET type == EventType(row.status, status) IN
     /\ type # "none" => HasRoom
     /\ row' = [Changed(status, until) EXCEPT
                  !.reopens = IF CountsAsReopen(row.status, status) THEN @ + 1 ELSE @]
     /\ log' = IF type = "none" THEN log
               ELSE Append(log, Event(type, u, status, until, reason, now))
  /\ UNCHANGED <<now, rows, began, read, saw>>

\* isAlreadyRestored
AlreadyRestored(status, until) ==
  status = row.status /\ (status \in {"OPEN", "DONE"} \/ (status = "SNOOZED" /\ until = row.until))

\* Mutant of Restored: the date of closing is not brought back.
RestoredUnclosed(r, l, status) ==
  [r EXCEPT !.status = status, !.closed = 0, !.verified = 0, !.resolved = 0, !.until = 0]

\* Mutant of Restored: a verified action comes back as merely done.
RestoredUnverified(r, l, status) ==
  LET cleared == [r EXCEPT !.status = status, !.closed = 0, !.verified = 0, !.resolved = 0,
                           !.until = 0]
  IN IF status \in {"OPEN", "SNOOZED"} \/ Len(l) < 2 THEN cleared
     ELSE [cleared EXCEPT !.closed = l[Before(l)].at]

\* restoredState, and the reopening the undone event counted.
Restored(r, l, status) ==
  LET cleared == [r EXCEPT !.status = status, !.closed = 0, !.verified = 0, !.resolved = 0,
                           !.until = 0,
                           !.reopens = IF l[Latest(l)].type = "reopened" THEN @ - 1 ELSE @]
      before == l[Before(l)]
  IN CASE status = "SNOOZED" /\ Len(l) > 1 -> [cleared EXCEPT !.until = before.until]
       [] status = "OPEN" \/ Len(l) < 2    -> cleared
       [] status \in {"DONE", "DISMISSED"} /\ Len(l) > 1 /\ before.type = "verified" ->
            [cleared EXCEPT !.closed = IF Len(l) > 2 THEN l[Closing(l)].at ELSE before.at,
                            !.verified = before.at]
       [] OTHER -> [cleared EXCEPT !.closed = before.at]

PreviousStatus(l) == IF Len(l) < 2 THEN "OPEN" ELSE l[Before(l)].status

MayUndo(u) == /\ log # <<>>
              /\ log[Latest(log)].actor = u
              /\ now - log[Latest(log)].at <= UndoWindow

Without(l, i) == SubSeq(l, 1, i - 1) \o SubSeq(l, i + 1, Len(l))

\* revert: a user takes back the latest change, if it was theirs and recent and
\* they name the status (and, for a snooze, a date) it is to have again.
Undo(u, until) ==
  LET status == PreviousStatus(log) IN
  /\ Exists /\ MayUndo(u)
  /\ status \in Statuses /\ ~AlreadyRestored(status, until)
  /\ row' = Restored(row, log, status)
  /\ log' = Without(log, Latest(log))
  /\ UNCHANGED <<now, rows, began, read, saw>>
-----------------------------------------------------------------------------
(* RetentionService, and the cascade of a deleted app or keyword *)

Remove == /\ row' = NoRow /\ log' = <<>>
          /\ UNCHANGED <<now, rows, began, read, saw>>
ClosedLongAgo == LET since == IF row.closed # 0 THEN row.closed ELSE row.resolved
                 IN /\ row.status \in {"DONE", "DISMISSED", "RESOLVED"}
                    /\ since # 0 /\ now - since > KeepClosed
\* pruneActions
Prune == Exists /\ ClosedLongAgo /\ Remove
Cascade == Exists /\ Remove

RunStep(g) == BeginRun(g) \/ Load(g) \/ ApplyStep(g) \/ CreateStep(g) \/ CrashRun(g)
UserStep(u) == \/ \E b \in Bodies : Change(u, b[1], b[2], b[3])
               \/ \E t \in Dates : Undo(u, t)

Next == \/ Tick
        \/ \E g \in Runs : RunStep(g)
        \/ \E u \in Users : UserStep(u)
        \/ Prune \/ Cascade

Spec == Init /\ [][Next]_vars
-----------------------------------------------------------------------------
(* Types *)

RowType == [id : 0..MaxRows, status : Statuses \cup {"RESOLVED", "NONE"}, until : {0} \cup Dates,
            closed : 0..MaxTime, verified : 0..MaxTime, resolved : 0..MaxTime, reopens : 0..MaxLog]
EventTypes == {"opened", "reopened", "snoozed", "woke", "done", "dismissed", "resolved", "verified"}
LogType == Seq([type : EventTypes, actor : Users \cup {"system"},
                status : Statuses \cup {"RESOLVED"}, until : {0} \cup Dates,
                reason : Reasons \cup {"none"}, at : 1..MaxTime])

\* Every variable holds a value of its type, a row has a history, and a done
\* row knows when it was closed, the moment its outcome is measured from.
TypeOK ==
  /\ now \in 1..MaxTime /\ rows \in 0..MaxRows
  /\ row \in RowType /\ log \in LogType /\ Len(log) <= MaxLog
  /\ began \in [Runs -> 0..MaxTime] /\ read \in [Runs -> RowType]
  /\ saw \in [Runs -> {"fired", "missed", "nothing"}]
  /\ Exists <=> log # <<>>
  /\ Exists <=> row.status # "NONE"
  /\ row.status = "DONE" => row.closed # 0
-----------------------------------------------------------------------------
(* Safety *)

\* The reopen count the queue shows is the number of reopenings in the
\* history, through undone reopenings and runs that computed it from an old row.
ReopensCounted == row.reopens = Cardinality({i \in Events(log) : log[i].type = "reopened"})

Ordered(l) == \A i, j \in Events(l) : i < j => l[i].at <= l[j].at

\* A column is set only in the status it belongs to.
Clear(r) == /\ r.status # "SNOOZED" => r.until = 0
            /\ r.status \notin {"DONE", "DISMISSED"} => r.closed = 0
            /\ r.status # "DONE" => r.verified = 0
            /\ r.status # "RESOLVED" => r.resolved = 0

\* The last event says what the row is and since when; of a confirmed action the
\* last but one says when it was closed.
Told(r, l) ==
  LET last == l[Len(l)] IN
  /\ r.status = last.status
  /\ r.status = "SNOOZED" => r.until = last.until
  /\ r.status = "DISMISSED" => r.closed = last.at
  /\ r.status = "DONE" =>
       IF last.type = "verified"
       THEN Len(l) > 1 /\ r.verified = last.at /\ r.closed = l[Len(l) - 1].at
       ELSE r.verified = 0 /\ r.closed = last.at

\* Row and history never part: overlapping runs, users and undos leave the dates
\* of no other status behind (a confirmation only on a done action), and in a
\* history whose dates are in order its end says what the row is, so that a
\* closing is confirmed once and a confirmation is that of the latest closing.
HistoryTellsRow == Clear(row) /\ (Exists /\ Ordered(log) => Told(row, log))

ByUser == \E u \in Users : UserStep(u)

\* A dismissed action "never reopens on its own, however long it stays true",
\* also when the run that finds it read it before the user dismissed it.
DismissedStays ==
  [][row.status = "DISMISSED" /\ row'.id = row.id /\ row'.status # "DISMISSED" => ByUser]_vars

\* No run opens a snoozed action before its date, the date of the latest snooze.
SnoozeIsKept ==
  [][row.status = "SNOOZED" /\ row'.status = "OPEN" => ByUser \/ now >= row.until]_vars

\* No run reopens a done action that is neither confirmed nor closed for
\* ReopenAfter days, counted from the last time it was closed.
DoneHasItsTime ==
  [][row.status = "DONE" /\ row'.status = "OPEN" =>
       ByUser \/ row.verified # 0 \/ now - row.closed >= ReopenAfter]_vars

\* What a user changed, an undo right after it takes back: the row is again the
\* row it was, dates and count included.  Not so if a run has written that took its
\* instant before earlier events of the history: its event is dated before them.
UndoTakesBack ==
  [][Ordered(log) /\ Len(log') > Len(log) /\ log'[Len(log')].actor # "system" /\ row.status # "RESOLVED" =>
       /\ PreviousStatus(log') = row.status
       /\ Restored(row', log', row.status) = row]_vars
=============================================================================
