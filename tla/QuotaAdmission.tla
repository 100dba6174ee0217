--------------------------- MODULE QuotaAdmission ---------------------------
(***************************************************************************)
(* How a workspace's plan limits the keywords it tracks (apps/api/src/     *)
(* auth/quota.service.ts admit; apps, competitors and charts are admitted  *)
(* by the same code).  A call that would track more reads the limit, takes *)
(* a lock, counts, writes and counts again in one transaction, and is      *)
(* rolled back when it went over.  The plan may change meanwhile, users    *)
(* pause and untrack without asking, and the capture of a listing tracks   *)
(* the words of its title without admission.                               *)
(***************************************************************************)
EXTENDS Naturals, FiniteSets

CONSTANTS Keywords,    \* keyword markets
          Admissions,  \* calls of admitKeywordMarkets
          MaxLimit     \* bound on the limits of the plans

ASSUME RoomAssumption == IsFiniteSet(Keywords) /\ MaxLimit \in Nat

VARIABLES
  planLimit,  \* what the workspace's plan allows
  active,     \* keywords tracked and not paused, committed
  admission   \* the steps of the calls

roomVars == <<planLimit, active, admission>>

NoAdmission == [step |-> "idle", wanted |-> {}, limit |-> 0, before |-> 0, written |-> {},
                crossed |-> FALSE]
AdmissionAt(a, step) == admission[a].step = step
EndAdmission(a) == admission' = [admission EXCEPT ![a] = NoAdmission]

RoomInit ==
  /\ planLimit \in 0..MaxLimit
  /\ active = {}
  /\ admission = [a \in Admissions |-> NoAdmission]
-----------------------------------------------------------------------------
(* An admission *)

\* entitlement: the limit is read before the lock.
BeginAdmission(a, wanted) ==
  /\ AdmissionAt(a, "idle")
  /\ admission' = [admission EXCEPT ![a] =
       [NoAdmission EXCEPT !.step = "lock", !.wanted = wanted, !.limit = planLimit]]
  /\ UNCHANGED <<planLimit, active>>

\* Mutant of LockIsFree: nobody waits.
LockIgnored(a) == TRUE
LockIsFree(a) == \A b \in Admissions \ {a} : admission[b].step \in {"idle", "lock"}

SerializeAdmission(a) ==
  /\ AdmissionAt(a, "lock") /\ LockIsFree(a)
  /\ admission' = [admission EXCEPT ![a].step = "count"]
  /\ UNCHANGED <<planLimit, active>>

CountBefore(a) ==
  /\ AdmissionAt(a, "count")
  /\ admission' = [admission EXCEPT ![a].step = "write", ![a].before = Cardinality(active)]
  /\ UNCHANGED <<planLimit, active>>

\* Seen by this transaction alone until it commits.
WriteAdmitted(a) ==
  /\ AdmissionAt(a, "write")
  /\ admission' = [admission EXCEPT ![a].step = "check", ![a].written = admission[a].wanted \ active]
  /\ UNCHANGED <<planLimit, active>>

After(a) == Cardinality(active \cup admission[a].written)

CountAfter(a) ==
  /\ AdmissionAt(a, "check")
  /\ IF After(a) > admission[a].limit /\ After(a) > admission[a].before
       THEN EndAdmission(a)
       ELSE admission' = [admission EXCEPT ![a].step = "commit"]
  /\ UNCHANGED <<planLimit, active>>

CommitAdmission(a) ==
  /\ AdmissionAt(a, "commit") /\ EndAdmission(a)
  /\ active' = active \cup admission[a].written
  /\ UNCHANGED planLimit

\* The write refuses, a statement fails or the process dies.
AdmissionFails(a) ==
  /\ ~AdmissionAt(a, "idle") /\ EndAdmission(a)
  /\ UNCHANGED <<planLimit, active>>
-----------------------------------------------------------------------------
(* Beside admissions *)

PlanChanges(limit) ==
  /\ planLimit' = limit
  /\ UNCHANGED <<active, admission>>

\* Pausing, untracking or removing asks nobody.
PauseKeyword(k) ==
  /\ k \in active /\ active' = active \ {k}
  /\ UNCHANGED <<planLimit, admission>>

\* syncFromSnapshot of a captured listing; an admission that has counted remembers it.
SyncFromSnapshot(k) ==
  /\ k \notin active /\ active' = active \cup {k}
  /\ admission' = [a \in Admissions |->
       IF AdmissionAt(a, "commit") THEN [admission[a] EXCEPT !.crossed = TRUE] ELSE admission[a]]
  /\ UNCHANGED planLimit

RoomNext ==
  \/ \E a \in Admissions :
       \/ \E wanted \in SUBSET Keywords : BeginAdmission(a, wanted)
       \/ SerializeAdmission(a) \/ CountBefore(a) \/ WriteAdmitted(a) \/ CountAfter(a)
       \/ CommitAdmission(a) \/ AdmissionFails(a)
  \/ \E limit \in 0..MaxLimit : PlanChanges(limit)
  \/ \E k \in Keywords : PauseKeyword(k) \/ SyncFromSnapshot(k)

RoomSpec == RoomInit /\ [][RoomNext]_roomVars
-----------------------------------------------------------------------------
(* Types *)

AdmissionType ==
  [step : {"idle", "lock", "count", "write", "check", "commit"}, wanted : SUBSET Keywords,
   limit : 0..MaxLimit, before : Nat, written : SUBSET Keywords, crossed : BOOLEAN]

\* Every variable holds a value of its type.
RoomTypeOK ==
  /\ planLimit \in 0..MaxLimit /\ active \subseteq Keywords
  /\ admission \in [Admissions -> AdmissionType]
-----------------------------------------------------------------------------
(* Safety *)

\* "You cannot add more until you remove something or upgrade"
\* (docs/legal/pricing.mdx:80): an admission that adds leaves the workspace within the
\* limit it read, or with no more than there was when it counted; of admissions that race
\* for the last room one is refused, however pauses and changes of the plan fall between.
\* Only a listing captured meanwhile may have tracked more.
RoomHolds ==
  [][\A a \in Admissions :
       AdmissionAt(a, "commit") /\ admission'[a].step = "idle" /\ ~admission[a].crossed
         /\ ~(active' \subseteq active) =>
         \/ Cardinality(active') <= admission[a].limit
         \/ Cardinality(active') <= admission[a].before]_roomVars
=============================================================================
