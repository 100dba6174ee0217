------------------------ MODULE ActionLifecycleProofs ------------------------
(***************************************************************************)
(* What ActionLifecycle promises for any number of users, runs and days.   *)
(* The invariant says that the instant of a run is past, that nothing in   *)
(* the history is later than now, that the first event written is the      *)
(* opening, and that the count of reopenings is the number of such events. *)
(* A second one, UndoInv, says that the end of a history in order tells    *)
(* the row, which is what an undo relies on.                               *)
(***************************************************************************)
EXTENDS ActionLifecycle, SequenceTheorems, FiniteSetTheorems, WellFoundedInduction, TLAPS

\* The records a history is made of.
EventSet == [type : EventTypes, actor : Users \cup {"system"},
             status : Statuses \cup {"RESOLVED"}, until : {0} \cup Dates,
             reason : Reasons \cup {"none"}, at : 1..MaxTime]
Reopenings(l) == {i \in Events(l) : l[i].type = "reopened"}

\* A history begins with the opening, and nothing in it is later than t.
SoundHistory(l, t) ==
  /\ l \in LogType /\ Len(l) <= MaxLog
  /\ l # <<>> => l[1].actor = "system"
  /\ \A i \in 1..Len(l) : l[i].at <= t /\ (l[i].type = "verified" => l[i].status = "DONE")

\* What holds of any row apart from its count, and of the row and its history.
AnyStatus == Statuses \cup {"RESOLVED", "NONE"}
NoDate == {0} \cup Dates
Instants == 0..MaxTime
RowShape == [id : 0..MaxRows, status : AnyStatus, until : NoDate, closed : Instants,
             verified : Instants, resolved : Instants, reopens : Int]
SoundDates(r, t) == /\ r.id # 0 <=> r.status # "NONE"
                    /\ r.closed <= t
                    /\ r.status = "DONE" => r.closed # 0
SoundRow(r, t) == r \in RowShape /\ SoundDates(r, t)

RowInv(r, l, t) == /\ SoundRow(r, t) /\ SoundHistory(l, t)
                   /\ r.id # 0 <=> l # <<>>
                   /\ r.reopens = Cardinality(Reopenings(l))

\* What holds of the clock and of the runs.
RunsInv == /\ now \in 1..MaxTime /\ rows \in 0..MaxRows
           /\ began \in [Runs -> 0..MaxTime] /\ read \in [Runs -> RowType]
           /\ saw \in [Runs -> {"fired", "missed", "nothing"}]
           /\ \A g \in Runs : /\ began[g] <= now
                              /\ saw[g] # "nothing" => began[g] # 0

ActionInv == RunsInv /\ RowInv(row, log, now)
-----------------------------------------------------------------------------
(* The newest event of a set exists *)

\* A history is a sequence of events.
LEMMA HistoryTypes ==
  ASSUME NEW l \in LogType
  PROVE  /\ l \in Seq(EventSet) /\ Len(l) \in Nat
         /\ \A i \in 1..Len(l) : l[i] \in EventSet
<1>1. l \in Seq(EventSet)
  BY DEF LogType, EventSet
<1>2. QED
  BY <1>1, LenProperties, ElementOfSeq

\* Every set of natural numbers has a least element.
LEMMA LeastNatural ==
  ASSUME NEW T \in SUBSET Nat, T # {}
  PROVE  \E x \in T : \A y \in T : x <= y
<1> DEFINE R == OpToRel(<, Nat)
<1>1. IsWellFoundedOn(R, Nat)
  BY NatLessThanWellFounded
<1> HIDE DEF R
<1>2. PICK x \in T : \A y \in T : ~(<<y, x>> \in R)
  BY <1>1, WFMin
<1>3. \A y \in T : ~(y < x)
  BY <1>2 DEF R, OpToRel
<1>4. QED
  BY <1>3

\* Among some events of a history one is the newest: of the latest instant and,
\* within it, written last.
LEMMA NewestIsLast ==
  ASSUME NEW l \in LogType, NEW S \in SUBSET (1..Len(l)), S # {}
  PROVE  Newest(l, S) \in S /\ \A j \in S : After(l, Newest(l, S), j)
<1>0. Len(l) \in Nat /\ \A i \in S : l[i].at \in 1..MaxTime /\ i \in 1..Len(l)
  BY HistoryTypes DEF EventSet
<1> DEFINE Ages == {MaxTime - l[i].at : i \in S}
<1>1. Ages \in SUBSET Nat /\ Ages # {}
  <2>1. ASSUME NEW i \in S PROVE MaxTime - l[i].at \in Nat
    BY <1>0, ActionAssumption
  <2>2. QED BY <2>1
<1>2. PICK i0 \in S : \A j \in S : l[j].at <= l[i0].at
  <2>1. PICK x \in Ages : \A y \in Ages : x <= y
    BY <1>1, LeastNatural
  <2>2. PICK i0 \in S : x = MaxTime - l[i0].at
    BY <2>1
  <2>3. ASSUME NEW j \in S PROVE l[j].at <= l[i0].at
    <3>1. x <= MaxTime - l[j].at
      BY <2>1
    <3>2. QED BY <3>1, <2>2, <1>0, ActionAssumption
  <2>4. QED BY <2>3
<1> DEFINE Same == {i \in S : l[i].at = l[i0].at}
           Ranks == {Len(l) - i : i \in Same}
<1>3. Ranks \in SUBSET Nat /\ Ranks # {}
  BY <1>0, <1>2
<1>4. PICK i1 \in Same : \A j \in Same : j <= i1
  <2>1. PICK x \in Ranks : \A y \in Ranks : x <= y
    BY <1>3, LeastNatural
  <2>2. PICK i1 \in Same : x = Len(l) - i1
    BY <2>1
  <2>3. ASSUME NEW j \in Same PROVE j <= i1
    <3>1. x <= Len(l) - j
      BY <2>1
    <3>2. QED BY <3>1, <2>2, <1>0
  <2>4. QED BY <2>3
<1>5. i1 \in S /\ \A j \in S : After(l, i1, j)
  BY <1>0, <1>2, <1>4 DEF After
<1>6. QED
  BY <1>5 DEF Newest

\* Writing an event makes a history longer by it.
LEMMA Appended ==
  ASSUME NEW l \in LogType, NEW e \in EventSet
  PROVE  /\ Append(l, e) \in LogType /\ Len(Append(l, e)) = Len(l) + 1
         /\ l \o <<e>> = Append(l, e)
         /\ \A i \in 1..Len(l) : Append(l, e)[i] = l[i]
         /\ Append(l, e)[Len(l) + 1] = e
<1>1. l \in Seq(EventSet) /\ Len(l) \in Nat
  BY HistoryTypes
<1>2. Append(l, e) \in Seq(EventSet) /\ l \o <<e>> = Append(l, e)
  BY <1>1, AppendIsConcat, AppendProperties
<1>3. /\ Len(Append(l, e)) = Len(l) + 1
      /\ \A i \in 1..Len(l) : Append(l, e)[i] = l[i]
      /\ Append(l, e)[Len(l) + 1] = e
  BY <1>1, AppendProperties
<1>4. QED
  BY <1>2, <1>3 DEF LogType, EventSet

\* Taking an event out of a history moves the later ones up.
LEMMA TakenOut ==
  ASSUME NEW l \in LogType, NEW i \in 1..Len(l)
  PROVE  /\ Without(l, i) \in LogType /\ Len(Without(l, i)) = Len(l) - 1
         /\ \A j \in 1..(Len(l) - 1) : Without(l, i)[j] = IF j < i THEN l[j] ELSE l[j + 1]
<1>1. l \in Seq(EventSet) /\ Len(l) \in Nat /\ \A j \in 1..Len(l) : l[j] \in EventSet
  BY HistoryTypes
<1> DEFINE s == SubSeq(l, 1, i - 1)
           t == SubSeq(l, i + 1, Len(l))
<1>2. /\ s \in Seq(EventSet) /\ Len(s) = i - 1
      /\ \A j \in 1..(i - 1) : s[j] = l[j]
  BY <1>1, SubSeqProperties
<1>3. /\ t \in Seq(EventSet) /\ Len(t) = Len(l) - i
      /\ \A j \in 1..(Len(l) - i) : t[j] = l[j + i]
  BY <1>1, SubSeqProperties
<1> HIDE DEF s, t
<1>4. /\ s \o t \in Seq(EventSet) /\ Len(s \o t) = Len(l) - 1
      /\ \A j \in 1..(Len(l) - 1) : (s \o t)[j] = IF j <= i - 1 THEN s[j] ELSE t[j - (i - 1)]
  <2>1. /\ s \o t \in Seq(EventSet) /\ Len(s \o t) = Len(s) + Len(t)
        /\ \A j \in 1..(Len(s) + Len(t)) : (s \o t)[j] = IF j <= Len(s) THEN s[j] ELSE t[j - Len(s)]
    BY <1>2, <1>3, ConcatProperties
  <2>2. QED BY <2>1, <1>1, <1>2, <1>3
<1>5. \A j \in 1..(Len(l) - 1) : (s \o t)[j] = IF j < i THEN l[j] ELSE l[j + 1]
  BY <1>1, <1>2, <1>3, <1>4
<1>6. QED
  BY <1>4, <1>5 DEF Without, s, t, LogType, EventSet
-----------------------------------------------------------------------------
(* Counting the reopenings of a history *)

\* There are no more reopenings than events.
LEMMA CountBounded ==
  ASSUME NEW l \in LogType
  PROVE  IsFiniteSet(Reopenings(l)) /\ Cardinality(Reopenings(l)) \in 0..Len(l)
<1>1. Len(l) \in Nat
  BY HistoryTypes
<1>2. IsFiniteSet(1..Len(l)) /\ Cardinality(1..Len(l)) = Len(l)
  <2>1. ASSUME NEW n \in Nat PROVE IsFiniteSet(1..n) /\ Cardinality(1..n) = n
    <3>1. IsFiniteSet(1..n) /\ Cardinality(1..n) = IF 1 > n THEN 0 ELSE n - 1 + 1
      BY FS_Interval
    <3>2. QED BY <3>1
  <2>2. QED BY <1>1, <2>1
<1>3. Reopenings(l) \in SUBSET (1..Len(l))
  BY DEF Reopenings, Events
<1>4. QED
  BY <1>1, <1>2, <1>3, FS_Subset, FS_CardinalityType

\* Writing a reopening raises the count, writing another event keeps it.
LEMMA CountAppended ==
  ASSUME NEW l \in LogType, NEW e \in EventSet
  PROVE  Cardinality(Reopenings(Append(l, e))) =
           Cardinality(Reopenings(l)) + (IF e.type = "reopened" THEN 1 ELSE 0)
<1>0. Len(l) \in Nat /\ Cardinality(Reopenings(l)) \in Nat /\ IsFiniteSet(Reopenings(l))
  BY HistoryTypes, CountBounded
<1>1. Reopenings(Append(l, e)) =
        Reopenings(l) \cup (IF e.type = "reopened" THEN {Len(l) + 1} ELSE {})
  <2>1. /\ Len(Append(l, e)) = Len(l) + 1
        /\ \A i \in 1..Len(l) : Append(l, e)[i] = l[i]
        /\ Append(l, e)[Len(l) + 1] = e
    BY Appended
  <2>2. 1..(Len(l) + 1) = (1..Len(l)) \cup {Len(l) + 1}
    BY <1>0
  <2>3. QED BY <2>1, <2>2, <1>0 DEF Reopenings, Events
<1>2. Len(l) + 1 \notin Reopenings(l)
  BY <1>0 DEF Reopenings, Events
<1>3. CASE e.type = "reopened"
  BY <1>0, <1>1, <1>2, <1>3, FS_AddElement
<1>4. CASE e.type # "reopened"
  BY <1>0, <1>1, <1>4
<1>5. QED
  BY <1>3, <1>4

\* Taking out a reopening lowers the count, taking out another event keeps it.
LEMMA CountTakenOut ==
  ASSUME NEW l \in LogType, NEW i \in 1..Len(l)
  PROVE  Cardinality(Reopenings(Without(l, i))) =
           Cardinality(Reopenings(l)) - (IF l[i].type = "reopened" THEN 1 ELSE 0)
<1>0. Len(l) \in Nat /\ Cardinality(Reopenings(l)) \in Nat /\ IsFiniteSet(Reopenings(l))
  BY HistoryTypes, CountBounded
<1> DEFINE S == Reopenings(l) \ {i}
           T == Reopenings(Without(l, i))
           f == [j \in S |-> IF j < i THEN j ELSE j - 1]
<1>1. /\ Without(l, i) \in LogType /\ Len(Without(l, i)) = Len(l) - 1
      /\ \A j \in 1..(Len(l) - 1) : Without(l, i)[j] = IF j < i THEN l[j] ELSE l[j + 1]
  BY TakenOut
<1>2. IsFiniteSet(S) /\ Cardinality(S) = Cardinality(Reopenings(l))
                                           - (IF l[i].type = "reopened" THEN 1 ELSE 0)
  <2>1. CASE l[i].type = "reopened"
    <3>1. i \in Reopenings(l)
      BY <2>1 DEF Reopenings, Events
    <3>2. QED BY <3>1, <2>1, <1>0, FS_RemoveElement
  <2>2. CASE l[i].type # "reopened"
    <3>1. S = Reopenings(l)
      BY <2>2 DEF Reopenings, Events
    <3>2. IsFiniteSet(S) /\ Cardinality(S) = Cardinality(Reopenings(l))
      BY <3>1, <1>0, Zenon
    <3> HIDE DEF S
    <3>3. QED BY <3>2, <2>2, <1>0
  <2>3. QED BY <2>1, <2>2
<1>3. f \in Bijection(S, T)
  <2>1. \A j \in S : /\ j \in 1..Len(l) /\ j # i /\ l[j].type = "reopened"
    BY DEF Reopenings, Events
  <2>2. ASSUME NEW j \in S PROVE f[j] \in T
    <3>1. f[j] \in 1..(Len(l) - 1) /\ Without(l, i)[f[j]] = l[j]
      BY <2>1, <1>0, <1>1
    <3>2. QED BY <3>1, <2>1, <1>1 DEF Reopenings, Events
  <2>3. \A j, k \in S : f[j] = f[k] => j = k
    BY <2>1, <1>0
  <2>4. ASSUME NEW k \in T PROVE \E j \in S : f[j] = k
    <3>1. k \in 1..(Len(l) - 1) /\ Without(l, i)[k].type = "reopened"
      BY <1>1 DEF Reopenings, Events
    <3>2. CASE k < i
      <4>1. k \in S
        BY <3>1, <3>2, <1>0, <1>1 DEF Reopenings, Events
      <4>2. QED BY <4>1, <3>2
    <3>3. CASE ~(k < i)
      <4>1. k + 1 \in S
        BY <3>1, <3>3, <1>0, <1>1 DEF Reopenings, Events
      <4>2. QED BY <4>1, <3>1, <3>3
    <3>4. QED BY <3>2, <3>3
  <2>5. QED
    BY <2>2, <2>3, <2>4 DEF Bijection, Injection, Surjection, IsInjective
<1>4. Cardinality(T) = Cardinality(S)
  BY <1>2, <1>3, FS_Bijection DEF ExistsBijection
<1>5. QED
  BY <1>2, <1>4
-----------------------------------------------------------------------------
(* The history stays sound *)

\* A history stays sound when an event of the past is written to it.
LEMMA GrownIsSound ==
  ASSUME NEW l, NEW t, SoundHistory(l, t), l # <<>>, Len(l) < MaxLog,
         NEW e \in EventSet, e.at <= t, e.type = "verified" => e.status = "DONE"
  PROVE  SoundHistory(Append(l, e), t) /\ Append(l, e) # <<>>
<1>0. /\ l \in LogType /\ l[1].actor = "system" /\ Len(l) \in Nat /\ Len(l) # 0
      /\ \A i \in 1..Len(l) : l[i].at <= t /\ (l[i].type = "verified" => l[i].status = "DONE")
  BY HistoryTypes, EmptySeq DEF SoundHistory
<1>1. /\ Append(l, e) \in LogType /\ Len(Append(l, e)) = Len(l) + 1
      /\ \A i \in 1..Len(l) : Append(l, e)[i] = l[i]
      /\ Append(l, e)[Len(l) + 1] = e
  BY <1>0, Appended
<1>2. Len(Append(l, e)) <= MaxLog /\ Append(l, e) # <<>> /\ Append(l, e)[1].actor = "system"
  <2>1. Len(l) + 1 <= MaxLog /\ 1 \in 1..Len(l)
    BY <1>0, ActionAssumption
  <2>2. QED BY <2>1, <1>0, <1>1
<1>3. ASSUME NEW i \in 1..(Len(l) + 1)
      PROVE  /\ Append(l, e)[i].at <= t
             /\ Append(l, e)[i].type = "verified" => Append(l, e)[i].status = "DONE"
  <2>1. i \in 1..Len(l) \/ i = Len(l) + 1
    BY <1>0
  <2>2. QED BY <2>1, <1>0, <1>1
<1>4. QED
  BY <1>1, <1>2, <1>3 DEF SoundHistory

\* And when an event other than the opening is taken out of it.
LEMMA ShrunkIsSound ==
  ASSUME NEW l, NEW t, SoundHistory(l, t), NEW i \in 1..Len(l), i # 1
  PROVE  SoundHistory(Without(l, i), t) /\ Without(l, i) # <<>>
<1>0. /\ l \in LogType /\ Len(l) \in Nat /\ Len(l) <= MaxLog
      /\ \A j \in 1..Len(l) : l[j].at <= t /\ (l[j].type = "verified" => l[j].status = "DONE")
  BY HistoryTypes DEF SoundHistory
<1>00. l \in LogType
  BY DEF SoundHistory
<1>1. /\ Without(l, i) \in LogType /\ Len(Without(l, i)) = Len(l) - 1
      /\ \A j \in 1..(Len(l) - 1) : Without(l, i)[j] = IF j < i THEN l[j] ELSE l[j + 1]
  BY <1>00, TakenOut, Zenon
<1>2. Len(Without(l, i)) <= MaxLog /\ Without(l, i) # <<>>
  <2>1. Len(Without(l, i)) # 0 /\ Len(Without(l, i)) <= MaxLog
    BY <1>0, <1>1, ActionAssumption
  <2>2. QED BY <2>1
<1>3. Without(l, i)[1].actor = "system"
  <2>1. 1 \in 1..(Len(l) - 1) /\ 1 < i
    BY <1>0
  <2>2. Without(l, i)[1] = l[1]
    BY <2>1, <1>1
  <2>3. l # <<>>
    BY <1>0
  <2>4. l[1].actor = "system"
    BY <2>3 DEF SoundHistory
  <2>5. QED BY <2>2, <2>4
<1>4. ASSUME NEW j \in 1..(Len(l) - 1)
      PROVE  /\ Without(l, i)[j].at <= t
             /\ Without(l, i)[j].type = "verified" => Without(l, i)[j].status = "DONE"
  <2>1. j \in 1..Len(l) /\ j + 1 \in 1..Len(l)
    BY <1>0
  <2>2. Without(l, i)[j] = l[j] \/ Without(l, i)[j] = l[j + 1]
    BY <1>1
  <2>3. QED BY <2>1, <2>2, <1>0
<1>5. QED
  BY <1>1, <1>2, <1>3, <1>4 DEF SoundHistory

\* An invariant row has its type, count included.
LEMMA RowTypes ==
  ASSUME NEW r, NEW l, NEW t, RowInv(r, l, t)
  PROVE  r \in RowType /\ l \in LogType
<1>1. l \in LogType
  BY DEF RowInv, SoundHistory
<1>2. Cardinality(Reopenings(l)) \in 0..Len(l) /\ Len(l) \in Nat
  BY <1>1, CountBounded, HistoryTypes
<1>3. r.reopens \in 0..MaxLog
  BY <1>2, ActionAssumption DEF RowInv, SoundHistory
<1>4. QED
  BY <1>1, <1>3 DEF RowInv, SoundRow, RowShape, RowType, AnyStatus, NoDate, Instants

\* A row that is written together with an event stays sound.
LEMMA RowGrows ==
  ASSUME NEW r, NEW l, NEW t, RowInv(r, l, t), r.id # 0, Len(l) < MaxLog,
         NEW e \in EventSet, e.at <= t, e.type = "verified" => e.status = "DONE",
         NEW s, SoundRow(s, t), s.id # 0,
         s.reopens = r.reopens + (IF e.type = "reopened" THEN 1 ELSE 0)
  PROVE  RowInv(s, Append(l, e), t)
<1>1. SoundHistory(l, t) /\ l \in LogType /\ l # <<>> /\ r.reopens = Cardinality(Reopenings(l))
  BY DEF RowInv, SoundHistory
<1>2. SoundHistory(Append(l, e), t) /\ Append(l, e) # <<>>
  BY <1>1, GrownIsSound
<1>3. s.reopens = Cardinality(Reopenings(Append(l, e)))
  BY <1>1, CountAppended
<1>4. QED
  BY <1>2, <1>3 DEF RowInv

\* So does a row whose latest change is taken back.
LEMMA RowShrinks ==
  ASSUME NEW r, NEW l, NEW t, RowInv(r, l, t), NEW i \in 1..Len(l), i # 1,
         NEW s, SoundRow(s, t), s.id # 0,
         s.reopens = r.reopens - (IF l[i].type = "reopened" THEN 1 ELSE 0)
  PROVE  RowInv(s, Without(l, i), t)
<1>1. SoundHistory(l, t) /\ l \in LogType /\ r.reopens = Cardinality(Reopenings(l))
  BY DEF RowInv, SoundHistory
<1>2. SoundHistory(Without(l, i), t) /\ Without(l, i) # <<>>
  BY <1>1, ShrunkIsSound
<1>3. s.reopens = Cardinality(Reopenings(Without(l, i)))
  BY <1>1, CountTakenOut
<1>4. QED
  BY <1>2, <1>3 DEF RowInv
-----------------------------------------------------------------------------
(* What a run may write *)

Kept(g) == row' = row /\ log' = log
Refreshed(g) == /\ log' = log /\ row.status \in {"OPEN", "SNOOZED"}
                /\ \/ row' = [row EXCEPT !.resolved = 0]
                   \/ row.status = "OPEN" /\ row' = [row EXCEPT !.resolved = 0, !.until = 0]
Woken(g) == /\ row.status = "SNOOZED" /\ row.until <= began[g]
            /\ row' = [row EXCEPT !.status = "OPEN", !.resolved = 0, !.until = 0]
            /\ log' = Append(log, SystemEvent("woke", "OPEN", began[g])) /\ HasRoom
ReopenedBy(g) == /\ row.status \in {"DONE", "RESOLVED"}
                 /\ row.status = "DONE" => row.verified # 0 \/ began[g] - row.closed >= ReopenAfter
                 /\ row' = Reopened(row)
                 /\ log' = Append(log, SystemEvent("reopened", "OPEN", began[g])) /\ HasRoom
ResolvedBy(g) == /\ row.status \in {"OPEN", "SNOOZED"}
                 /\ row' = [row EXCEPT !.status = "RESOLVED", !.resolved = began[g], !.until = 0]
                 /\ log' = Append(log, SystemEvent("resolved", "RESOLVED", began[g])) /\ HasRoom
VerifiedBy(g) == /\ row.status = "DONE" /\ row.verified = 0
                 /\ row' = [row EXCEPT !.verified = began[g]]
                 /\ log' = Append(log, SystemEvent("verified", "DONE", began[g])) /\ HasRoom

\* A run keeps the row unless it is the row it read, and then writes what follows
\* from what that row is now: from no row that a user dismissed, from a snoozed
\* one only when its date is past, from a done one only when it is confirmed,
\* confirms it, or has had its time.
LEMMA RunWrites ==
  ASSUME ActionInv, NEW g \in Runs, ApplyStep(g)
  PROVE  /\ began[g] \in 1..now
         /\ Kept(g) \/ Refreshed(g) \/ Woken(g) \/ ReopenedBy(g) \/ ResolvedBy(g) \/ VerifiedBy(g)
<1> DEFINE outcome == Outcome(read[g], saw[g], began[g])
<1>0. /\ row \in RowType /\ read[g] \in RowType /\ log \in LogType
      /\ began[g] \in 0..MaxTime /\ now \in 1..MaxTime
      /\ began[g] <= now /\ MaxTime \in Nat
  BY ActionAssumption, RowTypes DEF ActionInv, RunsInv
<1>1. began[g] # 0 /\ outcome # "create"
  BY DEF ApplyStep, ActionInv, RunsInv
<1>2. began[g] \in 1..now
  BY <1>0, <1>1
<1>3. SystemEvent("woke", "OPEN", began[g]) \in EventSet
      /\ SystemEvent("reopened", "OPEN", began[g]) \in EventSet
      /\ SystemEvent("resolved", "RESOLVED", began[g]) \in EventSet
      /\ SystemEvent("verified", "DONE", began[g]) \in EventSet
  BY <1>0, <1>2 DEF SystemEvent, Event, EventSet, EventTypes, Statuses
<1>4. CASE ~(Unchanged(g) /\ outcome # "noop")
  BY <1>2, <1>4 DEF ApplyStep, Kept
<1>5. CASE Unchanged(g) /\ outcome # "noop"
  <2>0. /\ row' = Written(g, outcome, began[g])
        /\ log' = log \o Recorded(outcome, began[g])
        /\ Recorded(outcome, began[g]) # <<>> => HasRoom
    BY <1>5 DEF ApplyStep
  <2>1. /\ row.id = read[g].id /\ row.status = read[g].status /\ row.reopens = read[g].reopens
        /\ row.until = read[g].until /\ row.closed = read[g].closed
        /\ row.verified = read[g].verified
    BY <1>5 DEF Unchanged
  <2>2. log \o <<>> = log
    BY <1>0, HistoryTypes, ConcatEmptySeq
  <2>3. CASE outcome = "refresh"
    <3>1. log' = log
      BY <2>0, <2>2, <2>3 DEF Recorded
    <3>2. row.status \in {"OPEN", "SNOOZED"}
      BY <2>1, <2>3 DEF Outcome
    <3>3. \/ row' = [row EXCEPT !.resolved = 0]
          \/ row.status = "OPEN" /\ row' = [row EXCEPT !.resolved = 0, !.until = 0]
      BY <2>0, <2>1, <2>3 DEF Written
    <3>4. QED BY <1>2, <3>1, <3>2, <3>3 DEF Refreshed
  <2>4. CASE outcome = "wake"
    <3>1. log' = Append(log, SystemEvent("woke", "OPEN", began[g])) /\ HasRoom
      BY <2>0, <2>4, <1>0, <1>3, Appended DEF Recorded
    <3>2. row.status = "SNOOZED" /\ row.until <= began[g]
      <4>1. read[g].status = "SNOOZED" /\ ~(read[g].until > began[g])
        BY <2>4 DEF Outcome
      <4>2. read[g].until \in Nat
        BY <1>0, ActionAssumption DEF RowType, Dates
      <4>3. QED BY <4>1, <4>2, <2>1, <1>0
    <3>3. QED BY <1>2, <2>0, <2>4, <3>1, <3>2 DEF Written, Woken
  <2>5. CASE outcome = "reopen"
    <3>1. log' = Append(log, SystemEvent("reopened", "OPEN", began[g])) /\ HasRoom
      BY <2>0, <2>5, <1>0, <1>3, Appended DEF Recorded
    <3>2. /\ row.status \in {"DONE", "RESOLVED"}
          /\ row.status = "DONE" => row.verified # 0 \/ began[g] - row.closed >= ReopenAfter
      BY <2>1, <2>5 DEF Outcome, ReopenIsDue
    <3>3. row' = [Reopened(row) EXCEPT !.reopens = row.reopens + 1]
      BY <2>0, <2>1, <2>5 DEF Written
    <3>4. row' = Reopened(row)
      BY <3>3, <1>0 DEF Reopened, RowType
    <3>5. QED BY <1>2, <3>1, <3>2, <3>4 DEF ReopenedBy
  <2>6. CASE outcome = "resolve"
    <3>1. log' = Append(log, SystemEvent("resolved", "RESOLVED", began[g])) /\ HasRoom
      BY <2>0, <2>6, <1>0, <1>3, Appended DEF Recorded
    <3>2. row.status \in {"OPEN", "SNOOZED"}
      BY <2>1, <2>6 DEF Outcome
    <3>3. QED BY <1>2, <2>0, <2>6, <3>1, <3>2 DEF Written, ResolvedBy
  <2>7. CASE outcome = "verify"
    <3>1. log' = Append(log, SystemEvent("verified", "DONE", began[g])) /\ HasRoom
      BY <2>0, <2>7, <1>0, <1>3, Appended DEF Recorded
    <3>2. row.status = "DONE" /\ row.verified = 0
      BY <2>1, <2>7 DEF Outcome
    <3>3. QED BY <1>2, <2>0, <2>7, <3>1, <3>2 DEF Written, VerifiedBy
  <2>8. CASE outcome = "touch"
    BY <1>2, <2>0, <2>2, <2>8 DEF Written, Recorded, Kept
  <2>9. outcome \in {"refresh", "wake", "reopen", "resolve", "verify", "touch", "noop", "create"}
    BY DEF Outcome
  <2>10. QED
    BY <1>1, <1>5, <2>3, <2>4, <2>5, <2>6, <2>7, <2>8, <2>9
<1>6. QED
  BY <1>4, <1>5

\* A run that ends keeps what is known of the runs.
LEMMA EndRunKeeps ==
  ASSUME RunsInv, NEW g \in Runs, EndRun(g), now' = now, rows' \in 0..MaxRows
  PROVE  RunsInv'
<1>1. NoRow \in RowType
  BY ActionAssumption DEF NoRow, RowType
<1>2. QED
  BY <1>1, ActionAssumption DEF RunsInv, EndRun, NoRow

\* Whatever a run writes to a row that was there, the invariant holds again.
LEMMA ApplyKeeps ==
  ASSUME ActionInv, NEW g \in Runs, ApplyStep(g)
  PROVE  ActionInv'
<1>0. /\ RunsInv /\ RowInv(row, log, now) /\ SoundRow(row, now) /\ now' = now
      /\ now \in 1..MaxTime /\ log \in LogType /\ MaxTime \in Nat
      /\ row \in RowShape /\ SoundDates(row, now)
  BY RowTypes, ActionAssumption DEF ActionInv, RunsInv, RowInv, ApplyStep, SoundRow
<1>1. began[g] \in 1..MaxTime /\ began[g] <= now
  <2>1. began[g] \in 1..now
    BY RunWrites
  <2>2. QED BY <2>1, <1>0
<1>10. /\ began[g] \in Instants /\ 0 \in Instants /\ 0 \in NoDate
       /\ "OPEN" \in AnyStatus /\ "RESOLVED" \in AnyStatus
  BY <1>0, <1>1 DEF Instants, NoDate, AnyStatus, Statuses
<1>2. /\ SystemEvent("woke", "OPEN", began[g]) \in EventSet
      /\ SystemEvent("reopened", "OPEN", began[g]) \in EventSet
      /\ SystemEvent("resolved", "RESOLVED", began[g]) \in EventSet
      /\ SystemEvent("verified", "DONE", began[g]) \in EventSet
  BY <1>1 DEF SystemEvent, Event, EventSet, EventTypes, Statuses
<1>3. HasRoom <=> Len(log) < MaxLog
  BY DEF HasRoom
<1>4. RowInv(row', log', now)
  <2>1. CASE Kept(g)
    BY <2>1, <1>0 DEF Kept
  <2>2. CASE Refreshed(g)
    <3>0. /\ row'.id = row.id /\ row'.reopens = row.reopens
          /\ row.reopens \in Int
      BY <2>2, <1>0 DEF Refreshed, RowShape
    <3>1. row' \in RowShape
      BY <2>2, <1>0, <1>10 DEF Refreshed, RowShape
    <3>2. SoundDates(row', now)
      BY <2>2, <1>0 DEF Refreshed, RowShape, SoundDates, Instants
    <3>3. QED BY <2>2, <3>0, <3>1, <3>2, <1>0 DEF Refreshed, RowInv, SoundRow
  <2>3. CASE Woken(g)
    <3>0. /\ row'.id = row.id /\ row'.reopens = row.reopens + 0
          /\ row.reopens \in Int
      BY <2>3, <1>0, <1>1 DEF Woken, RowShape, Statuses
    <3>1. row' \in RowShape
      BY <2>3, <1>0, <1>10 DEF Woken, RowShape
    <3>2. row.id # 0 /\ SoundDates(row', now)
      BY <2>3, <1>0, <1>1 DEF Woken, RowShape, SoundDates, Instants
    <3>3. SoundRow(row', now) /\ row'.id # 0
      BY <3>0, <3>1, <3>2 DEF SoundRow
    <3>4. QED BY <2>3, <3>0, <3>1, <3>2, <3>3, <1>0, <1>1, <1>2, <1>3, RowGrows DEF Woken, SystemEvent, Event
  <2>4. CASE ReopenedBy(g)
    <3>0. /\ row'.id = row.id /\ row'.reopens = row.reopens + 1
          /\ row.reopens \in Int
      BY <2>4, <1>0, <1>1 DEF ReopenedBy, Reopened, RowShape, Statuses
    <3> DEFINE n == row.reopens + 1
    <3>n. n \in Int
      BY <3>0
    <3>1. row' \in RowShape
      <4>1. row' = [row EXCEPT !.status = "OPEN", !.reopens = n, !.closed = 0, !.verified = 0,
                               !.resolved = 0, !.until = 0]
        BY <2>4 DEF ReopenedBy, Reopened
      <4> HIDE DEF n
      <4>2. QED BY <4>1, <3>n, <1>0, <1>10 DEF RowShape
    <3>2. row.id # 0 /\ SoundDates(row', now)
      BY <2>4, <1>0, <1>1 DEF ReopenedBy, Reopened, RowShape, SoundDates, Instants
    <3>3. SoundRow(row', now) /\ row'.id # 0
      BY <3>0, <3>1, <3>2 DEF SoundRow
    <3>4. QED BY <2>4, <3>0, <3>1, <3>2, <3>3, <1>0, <1>1, <1>2, <1>3, RowGrows DEF ReopenedBy, SystemEvent, Event
  <2>5. CASE ResolvedBy(g)
    <3>0. /\ row'.id = row.id /\ row'.reopens = row.reopens + 0
          /\ row.reopens \in Int
      BY <2>5, <1>0, <1>1 DEF ResolvedBy, RowShape, Statuses
    <3>1. row' \in RowShape
      BY <2>5, <1>0, <1>10 DEF ResolvedBy, RowShape
    <3>2. row.id # 0 /\ SoundDates(row', now)
      BY <2>5, <1>0, <1>1 DEF ResolvedBy, RowShape, SoundDates, Instants
    <3>3. SoundRow(row', now) /\ row'.id # 0
      BY <3>0, <3>1, <3>2 DEF SoundRow
    <3>4. QED BY <2>5, <3>0, <3>1, <3>2, <3>3, <1>0, <1>1, <1>2, <1>3, RowGrows DEF ResolvedBy, SystemEvent, Event
  <2>6. CASE VerifiedBy(g)
    <3>0. /\ row'.id = row.id /\ row'.reopens = row.reopens + 0
          /\ row.reopens \in Int
      BY <2>6, <1>0, <1>1 DEF VerifiedBy, RowShape, Statuses
    <3>1. row' \in RowShape
      BY <2>6, <1>0, <1>10 DEF VerifiedBy, RowShape
    <3>2. row.id # 0 /\ SoundDates(row', now)
      BY <2>6, <1>0, <1>1 DEF VerifiedBy, RowShape, SoundDates, Instants
    <3>3. SoundRow(row', now) /\ row'.id # 0
      BY <3>0, <3>1, <3>2 DEF SoundRow
    <3>4. QED BY <2>6, <3>0, <3>1, <3>2, <3>3, <1>0, <1>1, <1>2, <1>3, RowGrows DEF VerifiedBy, SystemEvent, Event
  <2>7. QED
    BY <2>1, <2>2, <2>3, <2>4, <2>5, <2>6, RunWrites
<1>5. RunsInv'
  BY <1>0, EndRunKeeps DEF ApplyStep, RunsInv
<1>6. QED
  BY <1>0, <1>4, <1>5 DEF ActionInv

\* So it does after a run that found something new.
LEMMA CreateKeeps ==
  ASSUME ActionInv, NEW g \in Runs, CreateStep(g)
  PROVE  ActionInv'
<1>0. /\ RunsInv /\ RowInv(row, log, now) /\ now' = now /\ rows \in 0..MaxRows
      /\ now \in 1..MaxTime /\ MaxTime \in Nat /\ MaxRows \in Nat /\ MaxLog \in Nat
      /\ began[g] \in 1..MaxTime /\ began[g] <= now
  BY ActionAssumption DEF ActionInv, RunsInv, CreateStep
<1>1. CASE Exists
  BY <1>0, <1>1, EndRunKeeps DEF CreateStep, ActionInv
<1>2. CASE ~Exists
  <2> DEFINE e == SystemEvent("opened", "OPEN", began[g])
  <2>1. /\ rows < MaxRows /\ rows' = rows + 1 /\ log' = <<e>>
        /\ row' = [NoRow EXCEPT !.id = rows + 1, !.status = "OPEN"]
    BY <1>2 DEF CreateStep
  <2>2. e \in EventSet /\ e.at = began[g] /\ e.type = "opened" /\ e.actor = "system"
    BY <1>0 DEF SystemEvent, Event, EventSet, EventTypes, Statuses
  <2> HIDE DEF e
  <2>3. SoundRow(row', now) /\ row'.id # 0 /\ row'.reopens = 0
    <3>1. row' = [id |-> rows + 1, status |-> "OPEN", until |-> 0, closed |-> 0,
                  verified |-> 0, resolved |-> 0, reopens |-> 0]
      BY <2>1 DEF NoRow
    <3>2. row' \in RowShape /\ SoundDates(row', now)
      BY <3>1, <2>1, <1>0 DEF RowShape, SoundDates, AnyStatus, Statuses, NoDate, Instants
    <3>3. QED BY <3>1, <3>2, <1>0 DEF SoundRow
  <2>4. /\ <<e>> \in LogType /\ Len(<<e>>) = 1 /\ <<e>>[1] = e /\ <<e>> # <<>>
    BY <2>2 DEF LogType, EventSet
  <2>5. SoundHistory(<<e>>, now)
    <3>1. 1 <= MaxLog
      BY ActionAssumption
    <3>2. QED BY <3>1, <2>2, <2>4, <1>0 DEF SoundHistory
  <2>6. Reopenings(<<e>>) = {}
    BY <2>2, <2>4 DEF Reopenings, Events
  <2>7. RowInv(row', log', now)
    BY <2>1, <2>3, <2>4, <2>5, <2>6, FS_EmptySet DEF RowInv
  <2>8. RunsInv'
    BY <1>0, <2>1, EndRunKeeps DEF CreateStep
  <2>9. QED
    BY <2>7, <2>8, <1>0 DEF ActionInv
<1>3. QED
  BY <1>1, <1>2

\* A change by a user keeps the invariant, and counts a reopening when it records one.
LEMMA ChangeKeeps ==
  ASSUME ActionInv, NEW u \in Users, NEW b \in Bodies, Change(u, b[1], b[2], b[3])
  PROVE  ActionInv'
<1> DEFINE status == b[1]
           until == b[2]
           type == EventType(row.status, status)
           e == Event(type, u, status, until, b[3], now)
           c == Changed(status, until)
           counts == CountsAsReopen(row.status, status)
<1>0. /\ RunsInv /\ RowInv(row, log, now) /\ now' = now
      /\ now \in 1..MaxTime /\ log \in LogType /\ MaxTime \in Nat
      /\ row \in RowShape /\ SoundDates(row, now) /\ row.id # 0 /\ row.reopens \in Int
  BY RowTypes, ActionAssumption
  DEF ActionInv, RunsInv, RowInv, SoundRow, Change, Exists, RowShape
<1>1. status \in Statuses /\ until \in NoDate /\ b[3] \in Reasons \cup {"none"}
  BY DEF Bodies, Statuses, NoDate
<1>2. /\ now \in Instants /\ now # 0 /\ 0 \in Instants /\ 0 \in NoDate /\ now <= now
      /\ \A x \in Statuses : x \in AnyStatus
  BY <1>0 DEF Instants, NoDate, AnyStatus
<1>3. /\ row' = [c EXCEPT !.reopens = IF counts THEN c.reopens + 1 ELSE c.reopens]
      /\ log' = IF type = "none" THEN log ELSE Append(log, e)
      /\ type # "none" => Len(log) < MaxLog
  BY DEF Change, HasRoom
<1>4. c \in RowShape /\ c.id = row.id /\ c.reopens = row.reopens /\ c.status = status
  <2>1. CASE status = "DONE"
    BY <2>1, <1>0, <1>1, <1>2 DEF Changed, RowShape
  <2>2. CASE status = "DISMISSED"
    BY <2>2, <1>0, <1>1, <1>2 DEF Changed, RowShape
  <2>3. CASE status = "SNOOZED"
    BY <2>3, <1>0, <1>1, <1>2 DEF Changed, RowShape
  <2>4. CASE status = "OPEN"
    BY <2>4, <1>0, <1>1, <1>2 DEF Changed, RowShape
  <2>5. QED BY <2>1, <2>2, <2>3, <2>4, <1>1 DEF Statuses
<1>5. /\ c.closed \in {0, now} /\ c.verified = 0
      /\ c.status = "DONE" => c.closed = now
  <2>1. CASE status = "DONE"
    BY <2>1, <1>0 DEF Changed, RowShape
  <2>2. CASE status = "DISMISSED"
    BY <2>2, <1>0 DEF Changed, RowShape
  <2>3. CASE status = "SNOOZED"
    BY <2>3, <1>0 DEF Changed, RowShape
  <2>4. CASE status = "OPEN"
    BY <2>4, <1>0 DEF Changed, RowShape
  <2>5. QED BY <2>1, <2>2, <2>3, <2>4, <1>1 DEF Statuses
<1>6. /\ type = "none" \/ type \in EventTypes
      /\ type = "reopened" <=> counts
      /\ type = "none" => ~counts
      /\ type # "verified"
  BY <1>1 DEF EventType, EventTypes, CountsAsReopen, Statuses
<1>7. type # "none" => e \in EventSet
  BY <1>0, <1>1, <1>2, <1>6 DEF Event, EventSet, NoDate
<1>8. e.at = now /\ e.type = type
  BY DEF Event
<1> HIDE DEF c, e, type, counts, status, until
<1>9. SoundRow(row', now) /\ row'.id # 0
      /\ row'.reopens = row.reopens + (IF counts THEN 1 ELSE 0)
  <2> DEFINE n == IF counts THEN c.reopens + 1 ELSE c.reopens
  <2>1. n \in Int /\ n = row.reopens + (IF counts THEN 1 ELSE 0)
    BY <1>0, <1>4
  <2>2. row' = [c EXCEPT !.reopens = n]
    BY <1>3
  <2> HIDE DEF n
  <2>3. row' \in RowShape /\ row'.id = row.id /\ row'.reopens = n
    BY <2>1, <2>2, <1>4 DEF RowShape
  <2>4. row'.closed = c.closed /\ row'.status = c.status /\ row'.verified = c.verified
    BY <2>2, <1>4 DEF RowShape
  <2>5. SoundDates(row', now)
    <3>1. row'.status # "NONE"
      BY <2>4, <1>1, <1>4 DEF Statuses
    <3>2. row'.closed <= now /\ (row'.status = "DONE" => row'.closed # 0)
      BY <2>4, <1>0, <1>5
    <3>3. row'.verified = 0
      BY <2>4, <1>5
    <3>4. QED BY <3>1, <3>2, <3>3, <2>3, <1>0 DEF SoundDates
  <2>6. QED BY <2>1, <2>3, <2>5, <1>0 DEF SoundRow
<1>10. RowInv(row', log', now)
  <2>1. CASE type = "none"
    BY <2>1, <1>0, <1>3, <1>6, <1>9 DEF RowInv
  <2>2. CASE type # "none"
    BY <2>2, <1>0, <1>2, <1>3, <1>6, <1>7, <1>8, <1>9, RowGrows
  <2>3. QED BY <2>1, <2>2
<1>11. RunsInv'
  BY <1>0 DEF Change, RunsInv
<1>12. QED
  BY <1>0, <1>10, <1>11 DEF ActionInv

\* An undo keeps it: the change before the latest is a change of this history.
LEMMA UndoKeeps ==
  ASSUME ActionInv, NEW u \in Users, NEW d \in Dates, Undo(u, d)
  PROVE  ActionInv'
<1> DEFINE i == Latest(log)
           p == Before(log)
           q == Closing(log)
           status == PreviousStatus(log)
<1>0. /\ RunsInv /\ RowInv(row, log, now) /\ now' = now
      /\ now \in 1..MaxTime /\ log \in LogType /\ MaxTime \in Nat
      /\ row \in RowShape /\ row.id # 0 /\ row.reopens \in Int
      /\ SoundHistory(log, now)
  BY RowTypes, ActionAssumption DEF ActionInv, RunsInv, RowInv, SoundRow, Undo, Exists, RowShape
<1>1. Len(log) \in Nat /\ log # <<>> /\ \A j \in 1..Len(log) : log[j] \in EventSet
  BY <1>0, HistoryTypes DEF Undo, MayUndo
<1>2. i \in 1..Len(log) /\ i # 1
  <2>1. 1 \in 1..Len(log)
    BY <1>0, <1>1, HistoryTypes, EmptySeq
  <2>2. i \in 1..Len(log)
    BY <2>1, <1>0, NewestIsLast DEF Latest, Events
  <2>3. log[i].actor # "system" /\ log[1].actor = "system"
    BY <1>0, <1>1, ActionAssumption DEF Undo, MayUndo, SoundHistory
  <2>4. QED BY <2>2, <2>3
<1>3. p \in 1..Len(log) /\ p # i
  <2>1. 1 \in Events(log) \ {i}
    BY <1>1, <1>2 DEF Events
  <2>2. p \in Events(log) \ {i}
    BY <2>1, <1>0, NewestIsLast DEF Before, Events
  <2>3. QED BY <2>2 DEF Events
<1>4. Len(log) > 2 => q \in 1..Len(log)
  <2> SUFFICES ASSUME Len(log) > 2 PROVE q \in 1..Len(log)
    OBVIOUS
  <2>1. Events(log) \ {i, p} # {}
    <3>1. {1, 2, 3} \subseteq Events(log)
      BY <1>1 DEF Events
    <3>2. QED BY <3>1
  <2>2. q \in Events(log) \ {i, p}
    BY <2>1, <1>0, NewestIsLast DEF Closing, Events
  <2>3. QED BY <2>2 DEF Events
<1>5. /\ Len(log) > 1 /\ status = log[p].status /\ status \in Statuses
      /\ row' = Restored(row, log, status) /\ log' = Without(log, i)
  BY <1>1, <1>2 DEF PreviousStatus, Undo
<1>6. /\ log[p].at \in Instants /\ log[p].at # 0 /\ log[p].at <= now
      /\ log[p].until \in NoDate
      /\ log[p].type = "verified" => status = "DONE"
      /\ Len(log) > 2 => log[q].at \in Instants /\ log[q].at # 0 /\ log[q].at <= now
  BY <1>0, <1>1, <1>3, <1>4, <1>5 DEF SoundHistory, EventSet, Instants, NoDate
<1>7. /\ 0 \in Instants /\ 0 \in NoDate /\ \A x \in Statuses : x \in AnyStatus
  BY <1>0 DEF Instants, NoDate, AnyStatus
<1> DEFINE n == IF log[i].type = "reopened" THEN row.reopens - 1 ELSE row.reopens
           c == [row EXCEPT !.status = status, !.closed = 0, !.verified = 0, !.resolved = 0,
                            !.until = 0, !.reopens = n]
<1>8. n \in Int /\ n = row.reopens - (IF log[i].type = "reopened" THEN 1 ELSE 0)
  BY <1>0
<1>9. \/ row' = c /\ status = "OPEN"
      \/ row' = [c EXCEPT !.until = log[p].until] /\ status = "SNOOZED"
      \/ row' = [c EXCEPT !.closed = log[p].at] /\ status \in {"DONE", "DISMISSED"}
      \/ /\ row' = [c EXCEPT !.closed = IF Len(log) > 2 THEN log[q].at ELSE log[p].at,
                            !.verified = log[p].at]
         /\ status = "DONE"
  BY <1>5, <1>6 DEF Restored, Statuses
<1> DEFINE v == IF Len(log) > 2 THEN log[q].at ELSE log[p].at
<1>10. v \in Instants /\ v # 0 /\ v <= now
  BY <1>6
<1> HIDE DEF n, v
<1>11. /\ c \in RowShape /\ c.id = row.id /\ c.status = status /\ c.closed = 0
       /\ c.verified = 0 /\ c.reopens = n
  BY <1>0, <1>5, <1>7, <1>8 DEF RowShape
<1> HIDE DEF c
<1>12. /\ row' \in RowShape /\ row'.id = row.id /\ row'.status = status /\ row'.reopens = n
       /\ row'.closed <= now /\ (row'.status = "DONE" => row'.closed # 0)
         <2>1. CASE row' = c /\ status = "OPEN"
    BY <2>1, <1>0, <1>11
  <2>2. CASE row' = [c EXCEPT !.until = log[p].until] /\ status = "SNOOZED"
    BY <2>2, <1>0, <1>6, <1>11 DEF RowShape
  <2>3. CASE row' = [c EXCEPT !.closed = log[p].at] /\ status \in {"DONE", "DISMISSED"}
    BY <2>3, <1>6, <1>11 DEF RowShape
  <2>4. CASE row' = [c EXCEPT !.closed = v, !.verified = log[p].at] /\ status = "DONE"
    <3>1. /\ row'.closed = v /\ row'.verified = log[p].at /\ row'.status = status
          /\ row'.id = c.id /\ row'.reopens = n
      BY <2>4, <1>11 DEF RowShape
    <3>2. row' \in RowShape
      BY <2>4, <1>6, <1>10, <1>11 DEF RowShape
    <3>3. v <= now /\ v # 0
      BY <1>10
    <3>4. QED BY <2>4, <3>1, <3>2, <3>3, <1>11
  <2>5. QED BY <2>1, <2>2, <2>3, <2>4, <1>9 DEF v
<1>13. SoundRow(row', now) /\ row'.id # 0
  <2>1. status # "NONE"
    BY <1>5 DEF Statuses
  <2>2. QED BY <2>1, <1>0, <1>12 DEF SoundRow, SoundDates
<1>14. RowInv(row', log', now)
  BY <1>0, <1>2, <1>5, <1>8, <1>12, <1>13, RowShrinks
<1>15. RunsInv'
  BY <1>0 DEF Undo, RunsInv
<1>16. QED
  BY <1>0, <1>14, <1>15 DEF ActionInv
-----------------------------------------------------------------------------
(* The invariant *)

\* A day that passes makes nothing in the row or its history later than now.
LEMMA TickKeeps ==
  ASSUME ActionInv, Tick
  PROVE  ActionInv'
<1>0. /\ RunsInv /\ SoundRow(row, now) /\ SoundHistory(log, now) /\ RowInv(row, log, now)
      /\ now \in 1..MaxTime /\ now' = now + 1 /\ now' \in 1..MaxTime
      /\ row' = row /\ log' = log
  BY ActionAssumption DEF ActionInv, RunsInv, RowInv, Tick
<1>1. SoundRow(row, now')
  <2>1. row.closed \in Int /\ row.closed <= now
    BY <1>0, ActionAssumption DEF SoundRow, SoundDates, RowShape, Instants
  <2>2. row.closed <= now'
    BY <2>1, <1>0
  <2>3. QED BY <2>2, <1>0 DEF SoundRow, SoundDates
<1>2. SoundHistory(log, now')
  <2>1. ASSUME NEW i \in 1..Len(log) PROVE log[i].at <= now'
    <3>1. log[i] \in EventSet /\ log[i].at <= now
      BY <1>0, HistoryTypes DEF SoundHistory
    <3>2. log[i].at \in Int
      BY <3>1 DEF EventSet
    <3>3. QED BY <3>1, <3>2, <1>0
  <2>2. QED BY <2>1, <1>0 DEF SoundHistory
<1>3. RowInv(row', log', now')
  BY <1>0, <1>1, <1>2 DEF RowInv
<1>4. RunsInv'
  <2>1. ASSUME NEW g \in Runs PROVE began[g] <= now'
    BY <1>0, ActionAssumption DEF RunsInv
  <2>2. QED BY <2>1, <1>0 DEF RunsInv, Tick
<1>5. QED
  BY <1>3, <1>4 DEF ActionInv

\* A run begins now.
LEMMA BeginKeeps ==
  ASSUME ActionInv, NEW g \in Runs, BeginRun(g)
  PROVE  ActionInv'
<1>0. /\ RunsInv /\ RowInv(row, log, now) /\ now \in 1..MaxTime /\ now # 0
      /\ UNCHANGED <<now, row, log, rows, read, saw>>
      /\ began' = [began EXCEPT ![g] = now]
  BY DEF ActionInv, RunsInv, BeginRun
<1>1. RunsInv'
  <2>1. began' \in [Runs -> 0..MaxTime]
    BY <1>0, ActionAssumption DEF RunsInv
  <2>2. ASSUME NEW h \in Runs
        PROVE  began'[h] <= now /\ (saw[h] # "nothing" => began'[h] # 0)
    BY <1>0 DEF RunsInv
  <2>3. QED BY <2>1, <2>2, <1>0 DEF RunsInv
<1>2. QED
  BY <1>0, <1>1 DEF ActionInv

\* A run that has begun reads the row as it is.
LEMMA LoadKeeps ==
  ASSUME ActionInv, NEW g \in Runs, Load(g)
  PROVE  ActionInv'
<1>0. /\ RunsInv /\ RowInv(row, log, now) /\ row \in RowType /\ now \in 1..MaxTime
      /\ UNCHANGED <<now, row, log, rows, began>>
  BY RowTypes DEF ActionInv, RunsInv, Load
<1>1. began[g] # 0 /\ read' = [read EXCEPT ![g] = row]
      /\ \E s \in {"fired", "missed"} : saw' = [saw EXCEPT ![g] = s]
  BY DEF Load
<1>2. RunsInv'
  <2>1. read' \in [Runs -> RowType] /\ saw' \in [Runs -> {"fired", "missed", "nothing"}]
    BY <1>0, <1>1 DEF RunsInv
  <2>2. ASSUME NEW h \in Runs PROVE saw'[h] # "nothing" => began[h] # 0
    BY <1>0, <1>1 DEF RunsInv
  <2>3. QED BY <2>1, <2>2, <1>0 DEF RunsInv
<1>3. QED
  BY <1>0, <1>2 DEF ActionInv

\* With the row goes its history.
LEMMA RemoveKeeps ==
  ASSUME ActionInv, Remove
  PROVE  ActionInv'
<1>0. /\ RunsInv /\ row' = NoRow /\ log' = <<>> /\ now' = now /\ now \in 1..MaxTime
      /\ MaxRows \in Nat /\ MaxLog \in Nat /\ MaxTime \in Nat
  BY ActionAssumption DEF ActionInv, RunsInv, Remove
<1>1. SoundRow(NoRow, now)
  BY <1>0 DEF NoRow, SoundRow, SoundDates, RowShape, AnyStatus, NoDate, Instants
<1>2. SoundHistory(<<>>, now)
  BY <1>0 DEF SoundHistory, LogType
<1>3. Reopenings(<<>>) = {}
  BY DEF Reopenings, Events
<1>4. RowInv(NoRow, <<>>, now)
  BY <1>1, <1>2, <1>3, FS_EmptySet DEF RowInv, NoRow
<1>5. RunsInv'
  BY <1>0 DEF RunsInv, Remove
<1>6. QED
  BY <1>0, <1>4, <1>5 DEF ActionInv

\* The invariant holds of a finding that has no row yet.
LEMMA ActionInit == Init => ActionInv
<1> SUFFICES ASSUME Init PROVE ActionInv
  OBVIOUS
<1>0. MaxRows \in Nat /\ MaxLog \in Nat /\ MaxTime \in Nat /\ 1 \in 1..MaxTime
  BY ActionAssumption
<1>1. NoRow \in RowType
  BY <1>0 DEF NoRow, RowType
<1>2. RunsInv
  BY <1>0, <1>1 DEF Init, RunsInv, NoRow
<1>3. SoundRow(NoRow, now)
  BY <1>0 DEF Init, NoRow, SoundRow, SoundDates, RowShape, AnyStatus, NoDate, Instants
<1>4. SoundHistory(<<>>, now)
  BY <1>0 DEF SoundHistory, LogType
<1>5. Reopenings(<<>>) = {}
  BY DEF Reopenings, Events
<1>6. RowInv(row, log, now)
  BY <1>3, <1>4, <1>5, FS_EmptySet DEF RowInv, NoRow, Init
<1>7. QED
  BY <1>2, <1>6 DEF ActionInv

\* Every step of the clock, a run, a user and the retention keeps it.
LEMMA ActionStep == ActionInv /\ [Next]_vars => ActionInv'
<1> SUFFICES ASSUME ActionInv, [Next]_vars PROVE ActionInv'
  OBVIOUS
<1>1. CASE Tick
  BY <1>1, TickKeeps
<1>2. ASSUME NEW g \in Runs, RunStep(g) PROVE ActionInv'
  <2>1. CASE CrashRun(g)
    <3>1. EndRun(g) /\ UNCHANGED <<now, row, log, rows>> /\ RunsInv
      BY <2>1 DEF CrashRun, ActionInv
    <3>2. RunsInv'
      BY <3>1, EndRunKeeps DEF RunsInv
    <3>3. QED BY <3>1, <3>2 DEF ActionInv
  <2>2. QED
    BY <1>2, <2>1, BeginKeeps, LoadKeeps, ApplyKeeps, CreateKeeps DEF RunStep
<1>3. ASSUME NEW u \in Users, UserStep(u) PROVE ActionInv'
  BY <1>3, ChangeKeeps, UndoKeeps DEF UserStep
<1>4. CASE Prune \/ Cascade
  BY <1>4, RemoveKeeps DEF Prune, Cascade
<1>5. CASE UNCHANGED vars
  BY <1>5 DEF vars, ActionInv, RunsInv
<1>6. QED
  BY <1>1, <1>2, <1>3, <1>4, <1>5 DEF Next

\* So it always holds.
LEMMA ActionInvariant == Spec => []ActionInv
  BY ActionInit, ActionStep, PTL DEF Spec
-----------------------------------------------------------------------------
(* What follows *)

\* Whatever users, runs and the retention do in whatever order, every column
\* keeps its type, a row has a history, and a done row knows when it was closed.
THEOREM ActionTypes == Spec => []TypeOK
<1>1. ActionInv => TypeOK
  <2> SUFFICES ASSUME ActionInv PROVE TypeOK
    OBVIOUS
  <2>1. row \in RowType /\ log \in LogType
    BY RowTypes DEF ActionInv
  <2>2. QED
    BY <2>1 DEF ActionInv, RunsInv, RowInv, SoundRow, SoundDates, SoundHistory, TypeOK, Exists
<1>2. QED
  BY <1>1, ActionInvariant, PTL

\* The count of reopenings in the queue is the number of reopenings in the
\* history: a run that computed it from an old row never writes it, and an undo
\* takes back exactly what the undone event had counted.
THEOREM ReopensAreCounted == Spec => []ReopensCounted
<1>1. ActionInv => ReopensCounted
  BY DEF ActionInv, RowInv, ReopensCounted, Reopenings
<1>2. QED
  BY <1>1, ActionInvariant, PTL

\* Of all steps but those of a user, only a run changes the status of a row that
\* stays the same row, and it wakes,
\* reopens or resolves it.
LEMMA StatusWrites ==
  ASSUME ActionInv, [Next]_vars, ~ByUser, row'.id = row.id, row'.status # row.status
  PROVE  \E g \in Runs : /\ began[g] \in 1..now
                         /\ \/ Woken(g) \/ ReopenedBy(g) \/ ResolvedBy(g)
<1>1. row \in RowShape
  BY DEF ActionInv, RowInv, SoundRow
<1>2. ASSUME NEW g \in Runs, RunStep(g)
      PROVE  began[g] \in 1..now /\ (Woken(g) \/ ReopenedBy(g) \/ ResolvedBy(g))
  <2>1. CASE BeginRun(g) \/ Load(g) \/ CrashRun(g)
    BY <2>1 DEF BeginRun, Load, CrashRun
  <2>2. CASE CreateStep(g)
    <3>1. CASE Exists
      BY <2>2, <3>1 DEF CreateStep
    <3>2. CASE ~Exists
      <4>1. row.id = 0 /\ row'.id = rows + 1 /\ rows \in Nat
        <5>1. rows \in Nat
          BY ActionAssumption DEF ActionInv, RunsInv
        <5>2. row' = [NoRow EXCEPT !.id = rows + 1, !.status = "OPEN"]
          BY <2>2, <3>2 DEF CreateStep
        <5>3. QED BY <3>2, <5>1, <5>2 DEF NoRow, Exists
      <4>2. QED BY <4>1
    <3>3. QED BY <3>1, <3>2
  <2>3. CASE ApplyStep(g)
    <3>1. began[g] \in 1..now
      BY <2>3, RunWrites
    <3>2. ~Kept(g) /\ ~Refreshed(g) /\ ~VerifiedBy(g)
      BY <1>1 DEF Kept, Refreshed, VerifiedBy, RowShape
    <3>3. QED BY <2>3, <3>1, <3>2, RunWrites
  <2>4. QED BY <1>2, <2>1, <2>2, <2>3 DEF RunStep
<1>3. CASE Prune \/ Cascade
  BY <1>3 DEF Prune, Cascade, Remove, Exists, NoRow
<1>4. CASE Tick \/ UNCHANGED vars
  BY <1>4 DEF Tick, vars
<1>5. QED
  BY <1>2, <1>3, <1>4 DEF Next, ByUser

\* A row that is there and that a step leaves open is still the same row.
LEMMA OpensInPlace ==
  ASSUME ActionInv, [Next]_vars, ~ByUser, row.id # 0, row'.status = "OPEN"
  PROVE  row'.id = row.id
<1>1. row \in RowShape
  BY DEF ActionInv, RowInv, SoundRow
<1>2. ASSUME NEW g \in Runs, RunStep(g) PROVE row'.id = row.id
  <2>1. CASE BeginRun(g) \/ Load(g) \/ CrashRun(g)
    BY <2>1 DEF BeginRun, Load, CrashRun
  <2>2. CASE CreateStep(g)
    BY <2>2 DEF CreateStep, Exists
  <2>3. CASE ApplyStep(g)
    <3>1. \/ Kept(g) \/ Refreshed(g) \/ Woken(g) \/ ReopenedBy(g) \/ ResolvedBy(g) \/ VerifiedBy(g)
      BY <2>3, RunWrites
    <3>2. QED BY <3>1, <1>1
      DEF Kept, Refreshed, Woken, ReopenedBy, ResolvedBy, VerifiedBy, Reopened, RowShape
  <2>4. QED BY <1>2, <2>1, <2>2, <2>3 DEF RunStep
<1>3. CASE Prune \/ Cascade
  BY <1>3 DEF Prune, Cascade, Remove, NoRow
<1>4. CASE Tick \/ UNCHANGED vars
  BY <1>4 DEF Tick, vars
<1>5. QED
  BY <1>2, <1>3, <1>4 DEF Next, ByUser

\* No run, however old what it read, reopens, wakes or resolves an action that a
\* user has dismissed.
THEOREM DismissedIsLeft == Spec => DismissedStays
<1>1. ActionInv /\ [Next]_vars =>
        [row.status = "DISMISSED" /\ row'.id = row.id /\ row'.status # "DISMISSED" => ByUser]_vars
  BY StatusWrites DEF Woken, ReopenedBy, ResolvedBy
<1>2. QED
  BY <1>1, ActionInvariant, PTL DEF Spec, DismissedStays

\* No run opens a snoozed action before the date of its latest snooze.
THEOREM SnoozeIsRespected == Spec => SnoozeIsKept
<1>1. ActionInv /\ [Next]_vars =>
        [row.status = "SNOOZED" /\ row'.status = "OPEN" => ByUser \/ now >= row.until]_vars
  <2> SUFFICES ASSUME ActionInv, [Next]_vars, row.status = "SNOOZED", row'.status = "OPEN", ~ByUser
               PROVE  now >= row.until
    OBVIOUS
  <2>1. row \in RowShape /\ now \in Nat /\ row.id # 0
    BY DEF ActionInv, RowInv, SoundRow, SoundDates, RunsInv
  <2>2. row'.id = row.id
    BY <2>1, OpensInPlace
  <2>3. PICK g \in Runs : began[g] \in 1..now /\ (Woken(g) \/ ReopenedBy(g) \/ ResolvedBy(g))
    BY <2>2, StatusWrites
  <2>4. row.until <= began[g]
    BY <2>1, <2>3 DEF Woken, ReopenedBy, ResolvedBy, RowShape
  <2>5. row.until \in Int
    BY <2>1 DEF RowShape, NoDate, Dates
  <2>6. QED BY <2>1, <2>3, <2>4, <2>5
<1>2. QED
  BY <1>1, ActionInvariant, PTL DEF Spec, SnoozeIsKept

\* No run reopens a done action that is neither confirmed nor closed for its days.
THEOREM DoneIsLeftItsTime == Spec => DoneHasItsTime
<1>1. ActionInv /\ [Next]_vars =>
        [row.status = "DONE" /\ row'.status = "OPEN" =>
           ByUser \/ row.verified # 0 \/ now - row.closed >= ReopenAfter]_vars
  <2> SUFFICES ASSUME ActionInv, [Next]_vars, row.status = "DONE", row'.status = "OPEN", ~ByUser
               PROVE  row.verified # 0 \/ now - row.closed >= ReopenAfter
    OBVIOUS
  <2>1. row \in RowShape /\ now \in Nat /\ row.id # 0
    BY DEF ActionInv, RowInv, SoundRow, SoundDates, RunsInv
  <2>2. row'.id = row.id
    BY <2>1, OpensInPlace
  <2>3. PICK g \in Runs : began[g] \in 1..now /\ (Woken(g) \/ ReopenedBy(g) \/ ResolvedBy(g))
    BY <2>2, StatusWrites
  <2>4. row.verified # 0 \/ began[g] - row.closed >= ReopenAfter
    BY <2>3 DEF Woken, ReopenedBy, ResolvedBy
  <2>5. row.closed \in Int /\ ReopenAfter \in Int
    BY <2>1, ActionAssumption DEF RowShape, Instants
  <2>6. QED BY <2>1, <2>3, <2>4, <2>5
<1>2. QED
  BY <1>1, ActionInvariant, PTL DEF Spec, DoneHasItsTime
-----------------------------------------------------------------------------
(* The row and the end of its history *)

Tells(r, l) == Clear(r) /\ (l # <<>> => l[1].type = "opened" /\ (Ordered(l) => Told(r, l)))

UndoInv == ActionInv /\ Tells(row, log)

\* The newest of some events is the one that comes after them all.
LEMMA NewestOf ==
  ASSUME NEW l \in LogType, NEW S \in SUBSET (1..Len(l)), NEW k \in S,
         \A j \in S : After(l, k, j)
  PROVE  Newest(l, S) = k
<1> DEFINE m == Newest(l, S)
<1>1. m \in S /\ After(l, m, k) /\ After(l, k, m) BY NewestIsLast
<1> HIDE DEF m
<1>2. /\ l[m].at \in Int /\ l[k].at \in Int /\ m \in Int /\ k \in Int
  <2>1. m \in 1..Len(l) /\ k \in 1..Len(l) BY <1>1
  <2>2. l[m] \in EventSet /\ l[k] \in EventSet BY <2>1, HistoryTypes
  <2> QED BY <2>1, <2>2 DEF EventSet
<1> QED BY <1>1, <1>2 DEF After, m

\* In an ordered history the newest events are the last ones.
LEMMA OrderedNewest ==
  ASSUME NEW l \in LogType, Ordered(l), Len(l) > 1
  PROVE  /\ Latest(l) = Len(l) /\ Before(l) = Len(l) - 1
         /\ Len(l) > 2 => Closing(l) = Len(l) - 2
<1> DEFINE n == Len(l)
<1>0. n \in Nat /\ \A i \in 1..n : l[i].at \in Int BY HistoryTypes DEF EventSet
<1>1. ASSUME NEW k \in 1..n PROVE Newest(l, 1..k) = k
  <2>1. \A j \in 1..k : After(l, k, j) BY <1>0, <1>1 DEF Ordered, Events, After
  <2>2. 1..k \in SUBSET (1..n) /\ k \in 1..k BY <1>0, <1>1
  <2> QED BY <2>1, <2>2, NewestOf
<1>2. Latest(l) = n BY <1>0, <1>1 DEF Latest, Events
<1>3. Events(l) \ {n} = 1..(n - 1) BY <1>0 DEF Events
<1>4. Before(l) = n - 1
  <2>1. n - 1 \in 1..n BY <1>0
  <2> QED BY <1>1, <1>2, <1>3, <2>1 DEF Before
<1>5. ASSUME n > 2 PROVE Closing(l) = n - 2
  <2>1. Events(l) \ {n, n - 1} = 1..(n - 2) BY <1>0 DEF Events
  <2>2. n - 2 \in 1..n BY <1>0, <1>5
  <2> QED BY <1>1, <1>2, <1>4, <2>1, <2>2 DEF Closing
<1> QED BY <1>2, <1>4, <1>5

\* If what is left once the latest event is taken out is ordered, the one before it is
\* then the last.
LEMMA UndoneNewest ==
  ASSUME NEW l \in LogType, Len(l) > 1, Ordered(Without(l, Latest(l)))
  PROVE  /\ Before(l) \in Events(l)
         /\ Without(l, Latest(l))[Len(l) - 1] = l[Before(l)]
         /\ Len(l) > 2 => Without(l, Latest(l))[Len(l) - 2] = l[Closing(l)]
<1> DEFINE n == Len(l)
           i == Latest(l)
           w == Without(l, i)
           Shift(j) == IF j < i THEN j ELSE j + 1
<1>0. n \in Nat /\ \A j \in 1..n : l[j].at \in Int BY HistoryTypes DEF EventSet
<1>1. i \in 1..n
  <2>1. 1..n \in SUBSET (1..n) /\ 1..n # {} BY <1>0
  <2> QED BY <2>1, NewestIsLast DEF Latest, Events
<1>2. Len(w) = n - 1 /\ \A j \in 1..(n - 1) : w[j] = l[Shift(j)]
  BY <1>1, TakenOut
<1> HIDE DEF i, w
<1>3. ASSUME NEW k \in 1..(n - 1)
      PROVE  /\ Shift(k) \in 1..n
             /\ Newest(l, {Shift(j) : j \in 1..k}) = Shift(k)
  <2> DEFINE S == {Shift(j) : j \in 1..k}
  <2>1. S \in SUBSET (1..n) /\ Shift(k) \in S
    <3>1. \A j \in 1..k : Shift(j) \in 1..n BY <1>0, <1>1, <1>3
    <3>2. k \in 1..k BY <1>0, <1>3
    <3> QED BY <3>1, <3>2
  <2>2. ASSUME NEW j \in 1..k PROVE After(l, Shift(k), Shift(j))
    <3>1. w[j].at <= w[k].at
      <4>1. j = k \/ j < k BY <1>3, <2>2
      <4>2. j \in Events(w) /\ k \in Events(w) BY <1>0, <1>2, <1>3, <2>2 DEF Events
      <4>3. w[k].at \in Int BY <1>0, <1>2, <1>3, <2>1
      <4> QED BY <4>1, <4>2, <4>3 DEF Ordered, w, i
    <3>2. Shift(j) <= Shift(k) /\ Shift(j) \in 1..n /\ w[j] = l[Shift(j)] /\ w[k] = l[Shift(k)]
      BY <1>0, <1>1, <1>2, <1>3, <2>2
    <3> QED BY <1>0, <1>3, <2>1, <3>1, <3>2 DEF After
  <2>3. \A j \in S : After(l, Shift(k), j) BY <2>2
  <2> HIDE DEF S
  <2>4. Newest(l, S) = Shift(k) BY <2>1, <2>3, NewestOf
  <2> QED BY <2>1, <2>4 DEF S
<1>4. Before(l) = Shift(n - 1)
  <2>1. n - 1 \in 1..(n - 1) BY <1>0
  <2>2. Events(l) \ {i} = {Shift(j) : j \in 1..(n - 1)}
    <3>1. ASSUME NEW m \in Events(l) \ {i} PROVE \E j \in 1..(n - 1) : m = Shift(j)
      <4>1. CASE m < i
        <5>1. m \in 1..(n - 1) /\ m = Shift(m) BY <1>0, <1>1, <3>1, <4>1 DEF Events
        <5> QED BY <5>1
      <4>2. CASE ~(m < i)
        <5>1. m - 1 \in 1..(n - 1) /\ m = Shift(m - 1) BY <1>0, <1>1, <3>1, <4>2 DEF Events
        <5> QED BY <5>1
      <4> QED BY <4>1, <4>2
    <3>2. \A j \in 1..(n - 1) : Shift(j) \in Events(l) \ {i} BY <1>0, <1>1 DEF Events
    <3> QED BY <3>1, <3>2
  <2> QED BY <1>3, <2>1, <2>2 DEF Before, i
<1>5. ASSUME n > 2 PROVE Closing(l) = Shift(n - 2)
  <2>1. n - 2 \in 1..(n - 1) BY <1>0, <1>5
  <2>2. Events(l) \ {i, Shift(n - 1)} = {Shift(j) : j \in 1..(n - 2)}
    <3>1. ASSUME NEW m \in Events(l) \ {i, Shift(n - 1)} PROVE \E j \in 1..(n - 2) : m = Shift(j)
      <4>1. CASE m < i
        <5>1. m \in 1..(n - 2) /\ m = Shift(m) BY <1>0, <1>1, <3>1, <4>1 DEF Events
        <5> QED BY <5>1
      <4>2. CASE ~(m < i)
        <5>1. m - 1 \in 1..(n - 2) /\ m = Shift(m - 1) BY <1>0, <1>1, <3>1, <4>2 DEF Events
        <5> QED BY <5>1
      <4> QED BY <4>1, <4>2
    <3>2. ASSUME NEW j \in 1..(n - 2) PROVE Shift(j) \in Events(l) \ {i, Shift(n - 1)}
      BY <1>0, <1>1, <3>2 DEF Events
    <3> HIDE DEF Shift
    <3> QED BY <3>1, <3>2
  <2> QED BY <1>3, <1>4, <2>1, <2>2 DEF Closing, i
<1>6. n - 1 \in 1..(n - 1) BY <1>0
<1>7. Before(l) \in Events(l) /\ w[n - 1] = l[Before(l)] BY <1>2, <1>3, <1>4, <1>6 DEF Events
<1>8. n > 2 => w[n - 2] = l[Closing(l)] BY <1>0, <1>2, <1>5
<1> QED BY <1>7, <1>8 DEF w, i

\* A row that is written as its new event says is told by the longer history.
LEMMA TellsMore ==
  ASSUME NEW r, NEW l \in LogType, l # <<>>, Tells(r, l), NEW e \in EventSet,
         NEW s, Clear(s), s.status = e.status,
         s.status = "SNOOZED" => s.until = e.until,
         s.status = "DISMISSED" => s.closed = e.at,
         s.status = "DONE" =>
           \/ e.type # "verified" /\ s.verified = 0 /\ s.closed = e.at
           \/ /\ e.type = "verified" /\ r.status = "DONE" /\ r.verified = 0
              /\ s.closed = r.closed /\ s.verified = e.at
  PROVE  Tells(s, Append(l, e))
<1> DEFINE m == Append(l, e)
           n == Len(l)
<1>1. /\ n \in Nat /\ n # 0 /\ Len(m) = n + 1 /\ m # <<>>
      /\ \A i \in 1..n : m[i] = l[i] /\ l[i].at # 0
      /\ m[n + 1] = e
  <2>1. n \in Nat /\ n # 0 /\ \A i \in 1..n : l[i].at # 0
    BY HistoryTypes, EmptySeq DEF EventSet
  <2>2. Len(m) = n + 1 /\ m[n + 1] = e /\ \A i \in 1..n : m[i] = l[i] BY Appended
  <2> QED BY <2>1, <2>2, EmptySeq
<1> HIDE DEF m
<1>2. m[1].type = "opened" BY <1>1 DEF Tells
<1>3. ASSUME Ordered(m) PROVE Told(s, m)
  <2>1. Ordered(l) BY <1>1, <1>3 DEF Ordered, Events
  <2>2. Told(r, l) BY <2>1 DEF Tells
  <2>3. m[Len(m)] = e /\ m[Len(m) - 1] = l[n] /\ l[n].at # 0 /\ Len(m) > 1
    BY <1>1
  <2>4. s.status = "DONE" =>
          IF e.type = "verified" THEN s.verified = e.at /\ s.closed = l[n].at
          ELSE s.verified = 0 /\ s.closed = e.at
    BY <2>2, <2>3 DEF Told
  <2> QED BY <2>3, <2>4 DEF Told
<1> QED BY <1>2, <1>3 DEF Tells, m

\* What a run writes is what it records.
LEMMA ApplyTells ==
  ASSUME UndoInv, NEW g \in Runs, ApplyStep(g)
  PROVE  Tells(row', log')
<1>0. /\ ActionInv /\ Tells(row, log) /\ Clear(row) /\ row \in RowShape /\ log \in LogType
      /\ row.id # 0 <=> log # <<>>
      /\ row.id # 0 <=> row.status # "NONE"
  BY DEF UndoInv, Tells, ActionInv, RowInv, SoundRow, SoundDates, SoundHistory
<1>1. began[g] \in 1..MaxTime
  <2>1. began[g] \in 1..now /\ now \in 1..MaxTime BY <1>0, RunWrites DEF ActionInv, RunsInv
  <2> QED BY <2>1, ActionAssumption
<1>2. /\ SystemEvent("woke", "OPEN", began[g]) \in EventSet
      /\ SystemEvent("reopened", "OPEN", began[g]) \in EventSet
      /\ SystemEvent("resolved", "RESOLVED", began[g]) \in EventSet
      /\ SystemEvent("verified", "DONE", began[g]) \in EventSet
  BY <1>1 DEF SystemEvent, Event, EventSet, EventTypes, Statuses
<1>3. CASE Kept(g) BY <1>0, <1>3 DEF Kept
<1>4. CASE Refreshed(g)
  <2>1. /\ log' = log /\ Clear(row') /\ row'.status = row.status /\ row'.until = row.until
        /\ row.status \notin {"DONE", "DISMISSED"}
    BY <1>0, <1>4 DEF Refreshed, RowShape, Clear
  <2> QED BY <1>0, <2>1 DEF Tells, Told
<1>5. CASE Woken(g)
  <2>1. Clear(row') /\ row'.status = "OPEN" /\ log # <<>>
    BY <1>0, <1>5 DEF Woken, RowShape, Clear
  <2> QED BY <1>0, <1>2, <1>5, <2>1, TellsMore DEF Woken, SystemEvent, Event
<1>6. CASE ReopenedBy(g)
  <2>1. Clear(row') /\ row'.status = "OPEN" /\ log # <<>>
    BY <1>0, <1>6 DEF ReopenedBy, Reopened, RowShape, Clear
  <2> QED BY <1>0, <1>2, <1>6, <2>1, TellsMore DEF ReopenedBy, SystemEvent, Event
<1>7. CASE ResolvedBy(g)
  <2>1. Clear(row') /\ row'.status = "RESOLVED" /\ log # <<>>
    BY <1>0, <1>7 DEF ResolvedBy, RowShape, Clear
  <2> QED BY <1>0, <1>2, <1>7, <2>1, TellsMore DEF ResolvedBy, SystemEvent, Event
<1>8. CASE VerifiedBy(g)
  <2>1. /\ Clear(row') /\ row'.status = "DONE" /\ row'.closed = row.closed
        /\ row'.verified = began[g] /\ log # <<>>
    BY <1>0, <1>8 DEF VerifiedBy, RowShape, Clear
  <2> QED BY <1>0, <1>2, <1>8, <2>1, TellsMore DEF VerifiedBy, SystemEvent, Event
<1> QED BY <1>0, <1>3, <1>4, <1>5, <1>6, <1>7, <1>8, RunWrites

LEMMA CreateTells ==
  ASSUME UndoInv, NEW g \in Runs, CreateStep(g)
  PROVE  Tells(row', log')
<1>1. CASE Exists BY <1>1 DEF CreateStep, UndoInv
<1>2. CASE ~Exists
  <2> DEFINE e == SystemEvent("opened", "OPEN", began[g])
  <2>1. log' = <<e>> /\ row' = [NoRow EXCEPT !.id = rows + 1, !.status = "OPEN"]
    BY <1>2 DEF CreateStep
  <2>2. e.type = "opened" /\ e.status = "OPEN" BY DEF SystemEvent, Event
  <2> HIDE DEF e
  <2>3. Len(log') = 1 /\ log'[1] = e BY <2>1
  <2>4. Clear(row') /\ row'.status = "OPEN" BY <2>1 DEF Clear, NoRow
  <2> QED BY <2>2, <2>3, <2>4 DEF Tells, Told
<1> QED BY <1>1, <1>2

\* What a change by a user does to the row and writes to the history.
LEMMA ChangeWrites ==
  ASSUME UndoInv, NEW u \in Users, NEW b \in Bodies, Change(u, b[1], b[2], b[3])
  PROVE  LET e == Event(EventType(row.status, b[1]), u, b[1], b[2], b[3], now)
         IN  /\ Clear(row') /\ row'.status = b[1] /\ row'.id = row.id /\ row' \in RowShape
             /\ row'.until = b[2] /\ row'.verified = 0
             /\ b[1] \in {"DONE", "DISMISSED"} => row'.closed = now
             /\ row'.reopens = row.reopens + (IF CountsAsReopen(row.status, b[1]) THEN 1 ELSE 0)
             /\ IF e.type = "none" THEN row' = row /\ log' = log
                ELSE log' = Append(log, e) /\ e \in EventSet
<1> DEFINE status == b[1]
           until == b[2]
           type == EventType(row.status, status)
           e == Event(type, u, status, until, b[3], now)
           c == Changed(status, until)
<1>0. /\ Clear(row) /\ row \in RowShape /\ row.id # 0 /\ now \in 1..MaxTime /\ row.reopens \in Int
  BY DEF UndoInv, Tells, ActionInv, RunsInv, RowInv, SoundRow, Change, Exists, RowShape
<1>1. /\ status \in Statuses /\ until \in NoDate /\ b[3] \in Reasons \cup {"none"}
      /\ status # "SNOOZED" => until = 0
  BY DEF Bodies, Statuses, NoDate
<1>2. /\ row' = [c EXCEPT !.reopens =
                    IF CountsAsReopen(row.status, status) THEN c.reopens + 1 ELSE c.reopens]
      /\ log' = IF type = "none" THEN log ELSE Append(log, e)
      /\ row.status = "RESOLVED" => status = "OPEN"
  BY DEF Change
<1>3. /\ status \in AnyStatus /\ 0 \in NoDate /\ 0 \in Instants /\ now \in Instants
  BY <1>0, <1>1, ActionAssumption DEF AnyStatus, NoDate, Instants
<1>4. /\ c \in RowShape /\ Clear(c) /\ c.status = status /\ c.id = row.id /\ c.until = until
      /\ c.verified = 0 /\ c.reopens = row.reopens
      /\ status \in {"DONE", "DISMISSED"} => c.closed = now
  <2>1. CASE status = "DONE" BY <2>1, <1>0, <1>1, <1>3 DEF Changed, RowShape, Clear
  <2>2. CASE status = "DISMISSED" BY <2>2, <1>0, <1>1, <1>2, <1>3 DEF Changed, RowShape, Clear
  <2>3. CASE status = "SNOOZED" BY <2>3, <1>0, <1>1, <1>3 DEF Changed, RowShape, Clear
  <2>4. CASE status = "OPEN" BY <2>4, <1>0, <1>1, <1>3 DEF Changed, RowShape, Clear
  <2> QED BY <2>1, <2>2, <2>3, <2>4, <1>1 DEF Statuses
<1>5. /\ type = "none" <=> row.status = "OPEN" /\ status = "OPEN"
      /\ type # "none" => type \in EventTypes
  BY <1>1 DEF EventType, EventTypes, Statuses
<1>6. type # "none" => e \in EventSet
  BY <1>0, <1>1, <1>5 DEF Event, EventSet, NoDate
<1>7. type = "none" => c = row /\ ~CountsAsReopen(row.status, status)
  <2>1. type = "none" => /\ c.closed = row.closed /\ c.resolved = row.resolved
                         /\ c.status = row.status /\ c.until = row.until
                         /\ c.verified = row.verified /\ c.id = row.id /\ c.reopens = row.reopens
    BY <1>0, <1>5 DEF Changed, Clear, RowShape
  <2> QED BY <1>0, <1>4, <1>5, <2>1 DEF RowShape, CountsAsReopen
<1>8. e.type = type BY DEF Event
<1> DEFINE n == IF CountsAsReopen(row.status, status) THEN c.reopens + 1 ELSE c.reopens
<1>9. n \in Int /\ n = row.reopens + (IF CountsAsReopen(row.status, status) THEN 1 ELSE 0)
  BY <1>0, <1>4
<1>10. row' = [c EXCEPT !.reopens = n] BY <1>2
<1> HIDE DEF c, n, e, type, status, until
<1>11. /\ row' \in RowShape /\ Clear(row') /\ row'.status = status /\ row'.id = row.id
       /\ row'.until = until /\ row'.verified = 0 /\ row'.reopens = n
       /\ status \in {"DONE", "DISMISSED"} => row'.closed = now
  BY <1>4, <1>9, <1>10 DEF RowShape, Clear
<1>12. type = "none" => row' = row /\ log' = log
  <2>1. type = "none" => n = c.reopens BY <1>7 DEF n, status
  <2> QED BY <1>2, <1>4, <1>7, <1>10, <2>1 DEF RowShape
<1> QED BY <1>2, <1>6, <1>8, <1>9, <1>11, <1>12 DEF e, type, status, until

LEMMA ChangeTells ==
  ASSUME UndoInv, NEW u \in Users, NEW b \in Bodies, Change(u, b[1], b[2], b[3])
  PROVE  Tells(row', log')
<1> DEFINE e == Event(EventType(row.status, b[1]), u, b[1], b[2], b[3], now)
<1>0. /\ Tells(row, log) /\ log \in LogType /\ log # <<>>
  BY DEF UndoInv, ActionInv, RowInv, SoundHistory, Change, Exists
<1>1. /\ e.type # "verified" /\ e.status = b[1] /\ e.until = b[2] /\ e.at = now
  BY DEF Event, EventType, Bodies
<1>2. CASE e.type = "none" BY <1>0, <1>2, ChangeWrites
<1>3. CASE e.type # "none"
  <2>1. /\ Clear(row') /\ row'.status = e.status /\ row'.until = e.until /\ row'.verified = 0
        /\ row'.status \in {"DONE", "DISMISSED"} => row'.closed = e.at
        /\ log' = Append(log, e) /\ e \in EventSet
    BY <1>1, <1>3, ChangeWrites
  <2> HIDE DEF e
  <2> QED BY <1>0, <1>1, <2>1, TellsMore
<1> QED BY <1>2, <1>3

\* Before the latest of two or more events there is another.
LEMMA BeforeIsThere ==
  ASSUME NEW l \in LogType, Len(l) > 1
  PROVE  Latest(l) \in Events(l) /\ Before(l) \in Events(l) \ {Latest(l)}
<1>1. 1 \in 1..Len(l) /\ 2 \in 1..Len(l) BY HistoryTypes
<1>2. Latest(l) \in Events(l)
  <2>1. Events(l) \in SUBSET (1..Len(l)) /\ Events(l) # {} BY <1>1 DEF Events
  <2> QED BY <2>1, NewestIsLast DEF Latest
<1>3. Before(l) \in Events(l) \ {Latest(l)}
  <2>1. Events(l) \ {Latest(l)} # {} BY <1>1 DEF Events
  <2>2. Events(l) \ {Latest(l)} \in SUBSET (1..Len(l)) BY DEF Events
  <2> QED BY <2>1, <2>2, NewestIsLast DEF Before
<1> QED BY <1>2, <1>3

\* What an undo restores is what the history that is left says.
LEMMA UndoTells ==
  ASSUME UndoInv, NEW u \in Users, NEW d \in Dates, Undo(u, d)
  PROVE  Tells(row', log')
<1> DEFINE i == Latest(log)
           before == log[Before(log)]
           closing == log[Closing(log)]
           status == PreviousStatus(log)
           n == Len(log)
<1>0. /\ Clear(row) /\ row \in RowShape /\ log \in LogType /\ log # <<>>
      /\ log[1].type = "opened" /\ log[1].actor = "system" /\ n \in Nat
      /\ \A j \in 1..n : log[j].type = "verified" => log[j].status = "DONE"
  BY HistoryTypes
  DEF UndoInv, Tells, ActionInv, RowInv, SoundRow, SoundHistory, Undo, MayUndo
<1>1. i \in 1..n /\ i # 1 /\ n > 1
  <2>1. 1 \in 1..n BY <1>0, EmptySeq
  <2>2. i \in 1..n BY <2>1, <1>0, NewestIsLast DEF Latest, Events
  <2>3. log[i].actor # "system" BY ActionAssumption DEF Undo, MayUndo
  <2> QED BY <1>0, <2>2, <2>3
<1>2. Before(log) \in 1..n /\ Before(log) # i BY <1>0, <1>1, BeforeIsThere DEF Events
<1>3. /\ status = before.status /\ status \in Statuses
      /\ row' = Restored(row, log, status) /\ log' = Without(log, i)
      /\ before.type = "verified" => status = "DONE" /\ n > 2
  <2>1. status = before.status BY <1>0, <1>1 DEF PreviousStatus
  <2>2. n = 2 => Before(log) = 1 BY <1>0, <1>1, <1>2
  <2>3. before.type = "verified" => n > 2
    <3>1. n = 2 => before.type = "opened" BY <1>0, <2>2
    <3>2. n = 2 \/ n > 2
      <4>1. n \in Nat /\ n > 1 BY <1>0, <1>1
      <4> HIDE DEF n
      <4> QED BY <4>1
    <3> QED BY <3>1, <3>2
  <2> QED BY <1>0, <1>2, <2>1, <2>3 DEF Undo
<1>4. Len(log') = n - 1 /\ log'[1].type = "opened"
  <2>1. 1 \in 1..(n - 1) /\ 1 < i BY <1>0, <1>1
  <2>2. /\ Len(Without(log, i)) = n - 1
        /\ \A j \in 1..(n - 1) : Without(log, i)[j] = IF j < i THEN log[j] ELSE log[j + 1]
    BY <1>0, <1>1, TakenOut
  <2>3. Without(log, i)[1] = log[1] BY <2>1, <2>2
  <2> QED BY <1>0, <1>3, <2>2, <2>3
<1> HIDE DEF i, before, closing, status, n
<1> DEFINE c == [row EXCEPT !.status = status, !.closed = 0, !.verified = 0, !.resolved = 0,
                            !.until = 0,
                            !.reopens = IF log[Latest(log)].type = "reopened"
                                          THEN row.reopens - 1 ELSE row.reopens]
<1>5. \/ row' = c /\ status = "OPEN"
      \/ row' = [c EXCEPT !.until = before.until] /\ status = "SNOOZED"
      \/ /\ row' = [c EXCEPT !.closed = before.at] /\ status \in {"DONE", "DISMISSED"}
         /\ before.type # "verified"
      \/ /\ row' = [c EXCEPT !.closed = closing.at, !.verified = before.at]
         /\ status = "DONE" /\ before.type = "verified" /\ n > 2
  <2> HIDE DEF c
  <2>1. row' = CASE status = "SNOOZED" -> [c EXCEPT !.until = before.until]
                 [] status = "OPEN"    -> c
                 [] status \in {"DONE", "DISMISSED"} /\ before.type = "verified" ->
                      [c EXCEPT !.closed = IF n > 2 THEN closing.at ELSE before.at,
                                !.verified = before.at]
                 [] OTHER -> [c EXCEPT !.closed = before.at]
    BY <1>0, <1>1, <1>3 DEF Restored, before, closing, n, c
  <2> QED BY <1>3, <2>1 DEF Statuses
<1>6. /\ c.status = status /\ c.closed = 0 /\ c.verified = 0 /\ c.resolved = 0 /\ c.until = 0
      /\ DOMAIN c = {"id", "status", "until", "closed", "verified", "resolved", "reopens"}
  BY <1>0 DEF RowShape
<1> HIDE DEF c
<1>7. Clear(row') /\ row'.status = status BY <1>5, <1>6 DEF Clear
<1>8. ASSUME Ordered(log') PROVE Told(row', log')
  <2>1. log'[Len(log')] = before /\ (n > 2 => log'[Len(log') - 1] = closing)
    BY <1>0, <1>1, <1>3, <1>4, <1>8, UndoneNewest DEF i, before, closing, n
  <2>2. n > 2 => Len(log') > 1 BY <1>0, <1>4 DEF n
  <2> QED BY <1>3, <1>5, <1>6, <1>7, <2>1, <2>2 DEF Told
<1> QED BY <1>4, <1>7, <1>8 DEF Tells

LEMMA UndoInvInit == Init => UndoInv
<1> SUFFICES ASSUME Init PROVE UndoInv OBVIOUS
<1>1. Tells(row, log) BY DEF Init, Tells, Clear, NoRow
<1> QED BY <1>1, ActionInit DEF UndoInv

LEMMA UndoInvStep == UndoInv /\ [Next]_vars => UndoInv'
<1> SUFFICES ASSUME UndoInv, [Next]_vars PROVE UndoInv' OBVIOUS
<1>1. ActionInv' BY ActionStep DEF UndoInv
<1>2. ASSUME NEW g \in Runs, RunStep(g) PROVE Tells(row', log')
  <2>1. CASE BeginRun(g) \/ Load(g) \/ CrashRun(g) BY <2>1 DEF BeginRun, Load, CrashRun, UndoInv
  <2> QED BY <1>2, <2>1, ApplyTells, CreateTells DEF RunStep
<1>3. ASSUME NEW u \in Users, UserStep(u) PROVE Tells(row', log')
  BY <1>3, ChangeTells, UndoTells DEF UserStep
<1>4. ASSUME Prune \/ Cascade PROVE Tells(row', log')
  BY <1>4 DEF Prune, Cascade, Remove, Tells, Clear, NoRow
<1>5. ASSUME Tick \/ UNCHANGED vars PROVE Tells(row', log')
  BY <1>5 DEF Tick, vars, UndoInv
<1> QED BY <1>1, <1>2, <1>3, <1>4, <1>5 DEF Next, UndoInv

LEMMA UndoInvHolds == Spec => []UndoInv
BY UndoInvInit, UndoInvStep, PTL DEF Spec

\* Whatever runs, users and undos wrote over each other: the dates of a status go
\* with it, and a history in order ends with what the row is, a confirmation being
\* that of the latest closing.
THEOREM RowIsTold == Spec => []HistoryTellsRow
<1>1. UndoInv => HistoryTellsRow
  BY DEF UndoInv, ActionInv, RowInv, Tells, HistoryTellsRow, Exists
<1>2. QED
  BY <1>1, UndoInvHolds, PTL

\* Of all steps, only a change by a user makes a history longer by an event that is not
\* the system's.
LEMMA OnlyUsersSign ==
  ASSUME UndoInv, [Next]_vars, Len(log') > Len(log), log'[Len(log')].actor # "system"
  PROVE  \E u \in Users, b \in Bodies : Change(u, b[1], b[2], b[3])
<1>0. ActionInv /\ log \in LogType /\ Len(log) \in Nat /\ now \in 1..MaxTime
  BY HistoryTypes DEF UndoInv, ActionInv, RunsInv, RowInv, SoundHistory
<1>1. ASSUME NEW e, e \in EventSet, log' = Append(log, e), e.actor = "system" PROVE FALSE
  BY <1>0, <1>1, Appended
<1>2. ASSUME NEW g \in Runs, RunStep(g) PROVE FALSE
  <2>1. CASE BeginRun(g) \/ Load(g) \/ CrashRun(g) BY <1>0, <2>1 DEF BeginRun, Load, CrashRun
  <2>2. CASE CreateStep(g)
    BY <1>0, <2>2 DEF CreateStep, SystemEvent, Event
  <2>3. CASE ApplyStep(g)
    <3>1. began[g] \in 1..MaxTime
      <4>1. began[g] \in 1..now BY <1>0, <2>3, RunWrites
      <4> QED BY <1>0, <4>1, ActionAssumption
    <3>2. \A type \in EventTypes, status \in {"OPEN", "RESOLVED", "DONE"} :
            /\ SystemEvent(type, status, began[g]) \in EventSet
            /\ SystemEvent(type, status, began[g]).actor = "system"
      BY <3>1 DEF SystemEvent, Event, EventSet, EventTypes, Statuses
    <3>3. \/ log' = log
          \/ \E type \in EventTypes, status \in {"OPEN", "RESOLVED", "DONE"} :
               log' = Append(log, SystemEvent(type, status, began[g]))
      BY <1>0, <2>3, RunWrites
      DEF Kept, Refreshed, Woken, ReopenedBy, ResolvedBy, VerifiedBy, EventTypes
    <3> QED BY <1>0, <1>1, <3>2, <3>3
  <2> QED BY <1>2, <2>1, <2>2, <2>3 DEF RunStep
<1>3. ASSUME NEW u \in Users, NEW d \in Dates, Undo(u, d) PROVE FALSE
  <2>1. Latest(log) \in 1..Len(log)
    <3>1. 1..Len(log) \in SUBSET (1..Len(log)) /\ 1..Len(log) # {}
      BY <1>0, <1>3, EmptySeq, HistoryTypes DEF Undo, MayUndo
    <3> QED BY <1>0, <3>1, NewestIsLast DEF Latest, Events
  <2>2. Len(log') = Len(log) - 1 BY <1>0, <1>3, <2>1, TakenOut DEF Undo
  <2> QED BY <1>0, <2>2
<1>4. ASSUME Prune \/ Cascade PROVE FALSE
  <2>1. log' = <<>> BY <1>4 DEF Prune, Cascade, Remove
  <2> QED BY <1>0, <2>1
<1>5. ASSUME Tick \/ UNCHANGED vars PROVE FALSE BY <1>0, <1>5 DEF Tick, vars
<1> QED BY <1>2, <1>3, <1>4, <1>5 DEF Next, UserStep

\* A row whose columns are cleared, column by column.
LEMMA ClearedRow ==
  ASSUME NEW r \in RowShape, NEW status \in AnyStatus, NEW k \in Int
  PROVE  [r EXCEPT !.status = status, !.closed = 0, !.verified = 0, !.resolved = 0,
                   !.until = 0, !.reopens = k]
           = [id |-> r.id, status |-> status, until |-> 0, closed |-> 0,
              verified |-> 0, resolved |-> 0, reopens |-> k]
<1> DEFINE t == [r EXCEPT !.status = status, !.closed = 0, !.verified = 0, !.resolved = 0,
                          !.until = 0, !.reopens = k]
<1>1. t \in RowShape
  <2>1. 0 \in NoDate /\ 0 \in Instants BY ActionAssumption DEF NoDate, Instants
  <2> QED BY <2>1 DEF RowShape
<1>2. /\ t.id = r.id /\ t.status = status /\ t.until = 0 /\ t.closed = 0
      /\ t.verified = 0 /\ t.resolved = 0 /\ t.reopens = k
  BY DEF RowShape
<1> HIDE DEF t
<1>3. t = [id |-> t.id, status |-> t.status, until |-> t.until, closed |-> t.closed,
           verified |-> t.verified, resolved |-> t.resolved, reopens |-> t.reopens]
  BY <1>1 DEF RowShape
<1> QED BY <1>2, <1>3 DEF t

\* Right after a change by a user, an undo gives back the row as it was, dates and
\* count of reopenings included, if the history is in the order it was written in.
THEOREM UndoGivesBack == Spec => UndoTakesBack
<1>1. UndoInv /\ [Next]_vars =>
        [Ordered(log) /\ Len(log') > Len(log) /\ log'[Len(log')].actor # "system"
           /\ row.status # "RESOLVED" =>
           /\ PreviousStatus(log') = row.status
           /\ Restored(row', log', row.status) = row]_vars
  <2> SUFFICES ASSUME UndoInv, [Next]_vars, Ordered(log), Len(log') > Len(log),
                      log'[Len(log')].actor # "system", row.status # "RESOLVED"
               PROVE  PreviousStatus(log') = row.status /\ Restored(row', log', row.status) = row
    OBVIOUS
  <2>1. /\ log \in LogType /\ Clear(row) /\ row \in RowShape /\ now \in 1..MaxTime
        /\ \A i \in Events(log) : log[i].at \in Int /\ log[i].at <= now
        /\ Len(log) \in Nat
    BY HistoryTypes
    DEF UndoInv, ActionInv, RowInv, RunsInv, SoundRow, SoundHistory, Tells, Events, EventSet
  <2>2. PICK u \in Users, b \in Bodies : Change(u, b[1], b[2], b[3])
    BY <2>1, OnlyUsersSign DEF UndoInv
  <2> DEFINE type == EventType(row.status, b[1])
             e == Event(type, u, b[1], b[2], b[3], now)
             n == Len(log)
             last == log[n]
  <2>3. /\ type # "none" /\ log' = Append(log, e) /\ e \in EventSet /\ row'.status = b[1]
        /\ row' \in RowShape /\ row'.id = row.id
        /\ row'.reopens = row.reopens + (IF CountsAsReopen(row.status, b[1]) THEN 1 ELSE 0)
        /\ e.type = type /\ e.at = now
    <3>1. e.type = type /\ e.at = now BY DEF Event
    <3>2. type = "none" => log' = log BY <2>2, <3>1, ChangeWrites
    <3>3. type # "none" BY <2>1, <3>2
    <3> QED BY <2>2, <3>1, <3>3, ChangeWrites
  <2>4. log # <<>> /\ n # 0 /\ row.status # "NONE" /\ row.id # 0
    BY <2>1, <2>2, EmptySeq DEF UndoInv, ActionInv, RowInv, SoundRow, SoundDates, Change, Exists
  <2>5. Told(row, log) BY <2>4 DEF UndoInv, Tells
  <2>6. type = "reopened" <=> CountsAsReopen(row.status, b[1])
    BY DEF EventType, CountsAsReopen, Bodies
  <2> HIDE DEF e, type
  <2>7. /\ log' \in LogType /\ Len(log') = n + 1 /\ log'[n + 1] = e
        /\ \A i \in 1..n : log'[i] = log[i]
    BY <2>1, <2>3, Appended
  <2>8. Ordered(log')
    <3> SUFFICES ASSUME NEW i \in 1..(n + 1), NEW j \in 1..(n + 1), i < j
                 PROVE  log'[i].at <= log'[j].at
      BY <2>7 DEF Ordered, Events
    <3>1. i \in 1..n BY <2>1
    <3>2. CASE j = n + 1 BY <2>1, <2>3, <2>7, <3>1, <3>2 DEF Events
    <3>3. CASE j # n + 1
      <4>1. j \in 1..n BY <2>1, <3>3
      <4> QED BY <2>7, <3>1, <4>1 DEF Ordered, Events
    <3> QED BY <3>2, <3>3
  <2>9. /\ Latest(log') = n + 1 /\ Before(log') = n
        /\ n > 1 => Closing(log') = n - 1
    BY <2>1, <2>4, <2>7, <2>8, OrderedNewest
  <2>10. /\ log'[Latest(log')].type = type /\ log'[Before(log')] = last
         /\ n > 1 => log'[Closing(log')] = log[n - 1]
    BY <2>1, <2>3, <2>4, <2>7, <2>9
  <2>11. PreviousStatus(log') = row.status
    BY <2>1, <2>4, <2>5, <2>7, <2>10 DEF PreviousStatus, Told
  <2> DEFINE c == [row' EXCEPT !.status = row.status, !.closed = 0, !.verified = 0,
                               !.resolved = 0, !.until = 0,
                               !.reopens = IF type = "reopened" THEN row'.reopens - 1
                                                                ELSE row'.reopens]
  <2>12. /\ c = [id |-> row.id, status |-> row.status, until |-> 0, closed |-> 0,
                  verified |-> 0, resolved |-> 0, reopens |-> row.reopens]
         /\ row = [id |-> row.id, status |-> row.status, until |-> row.until,
                    closed |-> row.closed, verified |-> row.verified,
                    resolved |-> row.resolved, reopens |-> row.reopens]
         /\ Clear(row)
    <3>1. row.reopens \in Int BY <2>1 DEF RowShape
    <3> DEFINE k == IF type = "reopened" THEN row'.reopens - 1 ELSE row'.reopens
    <3>2. k = row.reopens BY <2>3, <2>6, <3>1
    <3> HIDE DEF k
    <3>3. [row' EXCEPT !.status = row.status, !.closed = 0, !.verified = 0, !.resolved = 0,
                       !.until = 0, !.reopens = k]
            = [id |-> row.id, status |-> row.status, until |-> 0, closed |-> 0,
               verified |-> 0, resolved |-> 0, reopens |-> k]
      <4>1. row' \in RowShape /\ row'.id = row.id BY <2>3
      <4>2. row.status \in AnyStatus /\ k \in Int BY <2>1, <3>1, <3>2 DEF RowShape
      <4> QED BY <4>1, <4>2, ClearedRow, Zenon
    <3>4. row = [id |-> row.id, status |-> row.status, until |-> row.until,
                 closed |-> row.closed, verified |-> row.verified,
                 resolved |-> row.resolved, reopens |-> row.reopens]
      <4>1. row \in RowShape BY <2>1
      <4> QED BY <4>1 DEF RowShape
    <3> QED BY <2>1, <3>2, <3>3, <3>4 DEF k
  <2> HIDE DEF c
  <2>13. Restored(row', log', row.status) =
           CASE row.status = "SNOOZED" -> [c EXCEPT !.until = last.until]
             [] row.status = "OPEN"    -> c
             [] row.status \in {"DONE", "DISMISSED"} /\ last.type = "verified" ->
                  [c EXCEPT !.closed = IF n > 1 THEN log'[Closing(log')].at ELSE last.at,
                            !.verified = last.at]
             [] OTHER -> [c EXCEPT !.closed = last.at]
    <3>1. Len(log') > 1 /\ ~(Len(log') < 2) /\ (Len(log') > 2 <=> n > 1)
      BY <2>1, <2>4, <2>7
    <3> QED BY <2>10, <3>1 DEF Restored, c
  <2>14. row.status \in {"OPEN", "SNOOZED", "DONE", "DISMISSED"}
    BY <2>1, <2>4 DEF RowShape, AnyStatus, Statuses
  <2>15. ASSUME row.status = "OPEN" PROVE Restored(row', log', row.status) = row
    <3>1. Restored(row', log', row.status) = c BY <2>13, <2>15
    <3> QED BY <2>12, <2>15, <3>1 DEF Clear
  <2>16. ASSUME row.status = "SNOOZED" PROVE Restored(row', log', row.status) = row
    <3>1. Restored(row', log', row.status) = [c EXCEPT !.until = row.until]
      BY <2>5, <2>13, <2>16 DEF Told
    <3> QED BY <2>12, <2>16, <3>1 DEF Clear
  <2>17. ASSUME row.status \in {"DONE", "DISMISSED"}, last.type # "verified"
         PROVE  Restored(row', log', row.status) = row
    <3>1. Restored(row', log', row.status) = [c EXCEPT !.closed = last.at] BY <2>13, <2>17
    <3>2. row.closed = last.at /\ row.verified = 0
      BY <2>5, <2>12, <2>17 DEF Told, Clear
    <3> QED BY <2>12, <2>17, <3>1, <3>2 DEF Clear
  <2>18. ASSUME row.status \in {"DONE", "DISMISSED"}, last.type = "verified"
         PROVE  Restored(row', log', row.status) = row
    <3>1. row.status = "DONE"
      <4>1. n \in 1..n BY <2>1, <2>4
      <4>2. last.status = "DONE"
        BY <2>18, <4>1 DEF UndoInv, ActionInv, RowInv, SoundHistory
      <4> QED BY <2>5, <4>2 DEF Told
    <3>2. n > 1 /\ row.verified = last.at /\ row.closed = log[n - 1].at
      BY <2>5, <2>18, <3>1 DEF Told
    <3>3. log'[Closing(log')].at = row.closed BY <2>10, <3>2
    <3>4. Restored(row', log', row.status) = [c EXCEPT !.closed = row.closed, !.verified = row.verified]
      <4> HIDE DEF n, last
      <4> QED BY <2>13, <2>18, <3>2, <3>3
    <3> QED BY <2>12, <3>1, <3>4 DEF Clear
  <2> QED BY <2>11, <2>14, <2>15, <2>16, <2>17, <2>18
<1>2. QED
  BY <1>1, UndoInvHolds, PTL DEF Spec, UndoTakesBack
=============================================================================
