----------------------------- MODULE ProxyLease -----------------------------
(***************************************************************************)
(* How jobs lease one egress endpoint of the proxy pool for one store      *)
(* (apps/api/src/store-providers/egress; endpoints and stores are          *)
(* independent rows).  A job claims the endpoint, sends its requests and   *)
(* gives it back paced; a lease that is not given back ends by itself.     *)
(* The pool is synchronised with its provider beside them, and a pending   *)
(* endpoint is probed.  Time is counted in minIntervalMs.                  *)
(***************************************************************************)
EXTENDS Naturals, FiniteSets

CONSTANTS Jobs,         \* jobs, in any process; each leases once
          Hold,         \* LEASE_HOLD_MS
          Cooldown,     \* cooldownMs of a failure
          MaxRequests,  \* bound on the requests of a job
          MaxNow        \* bound on time

ASSUME LeaseAssumption == Hold \in Nat /\ Cooldown \in Nat

VARIABLES
  now,
  health,    \* the ProxyHealth row: used, the last claim, and until when it waits
  admitted,  \* the ProxyEndpoint row is enabled and not retired
  lease,     \* the steps of the jobs
  overrun    \* history: a job that outlived its hold wrote over a newer lease

poolVars == <<now, health, admitted, lease, overrun>>

NoLease == [step |-> "idle", at |-> 0, sent |-> 0, last |-> 0, judged |-> "no", cool |-> 0,
            kept |-> FALSE]
LeaseAt(j, step) == lease[j].step = step
\* What a job did is looked at later only if its pacing was kept.
LeaseOver(j, kept) == lease' = [lease EXCEPT ![j] =
  IF kept THEN [@ EXCEPT !.step = "over", !.cool = 0, !.kept = TRUE]
          ELSE [NoLease EXCEPT !.step = "over"]]
Later(a, b) == IF a >= b THEN a ELSE b

\* Instants start at 1, later than what a row without claims holds.
LeaseInit ==
  /\ now = 1
  /\ health = [used |-> 0, paced |-> 0, cool |-> 0]
  /\ admitted = FALSE
  /\ lease = [j \in Jobs |-> NoLease]
  /\ overrun = FALSE

Passes ==
  /\ now < MaxNow /\ now' = now + 1
  /\ UNCHANGED <<health, admitted, lease, overrun>>
-----------------------------------------------------------------------------
(* The pool *)

\* reconcile: the provider no longer lists the endpoint.
Retire ==
  /\ admitted /\ admitted' = FALSE
  /\ UNCHANGED <<now, health, lease, overrun>>

\* admitPending asks a pending endpoint without a lease, from any instance; its answer
\* may come when another instance has admitted the endpoint before, and the row that
\* admits it is written after its health.
Probe ==
  /\ \/ health' = [health EXCEPT !.cool = 0] /\ admitted' \in {TRUE, admitted}
     \/ UNCHANGED admitted /\ health' = [health EXCEPT !.cool = now + Cooldown]
  /\ UNCHANGED <<now, lease, overrun>>
-----------------------------------------------------------------------------
(* A job *)

\* tryAcquire takes the instant of the lease before its statement runs.
Ask(j) ==
  /\ LeaseAt(j, "idle")
  /\ lease' = [lease EXCEPT ![j].step = "claim", ![j].at = now]
  /\ UNCHANGED <<now, health, admitted, overrun>>

Claimable(at) == /\ admitted /\ health.used + 1 <= at /\ health.cool <= at /\ health.paced <= at

Claim(j) ==
  /\ LeaseAt(j, "claim") /\ Claimable(lease[j].at)
  /\ health' = [health EXCEPT !.used = lease[j].at, !.paced = lease[j].at + Hold]
  /\ lease' = [lease EXCEPT ![j].step = "open", ![j].last = lease[j].at]
  /\ UNCHANGED <<now, admitted, overrun>>

ClaimFails(j) ==
  /\ LeaseAt(j, "claim") /\ lease' = [lease EXCEPT ![j] = NoLease]
  /\ UNCHANGED <<now, health, admitted, overrun>>

SendRequest(j) ==
  /\ LeaseAt(j, "open") /\ lease[j].sent < MaxRequests
  /\ lease' = [lease EXCEPT ![j].sent = @ + 1, ![j].last = now]
  /\ UNCHANGED <<now, health, admitted, overrun>>

\* settle: what cannot be judged only gives the lease back.
EndWork(j) ==
  /\ LeaseAt(j, "open")
  /\ \E verdict \in {"no", "good", "bad"} :
       lease' = [lease EXCEPT ![j].step = IF verdict = "no" THEN "release" ELSE "read",
                              ![j].judged = verdict]
  /\ UNCHANGED <<now, health, admitted, overrun>>

\* Mutant of PacedUntil: counted from the lease alone.
PacedFromLease(j) == lease[j].at + Later(lease[j].sent, 1)
PacedUntil(j) == Later(lease[j].at + Later(lease[j].sent, 1), lease[j].last + 1)

\* Mutant of Leases: whoever holds the endpoint by now.
LeasesAny(j) == lease[j].at > 0
Leases(j) == health.used = lease[j].at

GiveUp(j) ==
  /\ LeaseAt(j, "release")
  /\ health' = IF Leases(j) THEN [health EXCEPT !.paced = PacedUntil(j)] ELSE health
  /\ LeaseOver(j, Leases(j))
  /\ UNCHANGED <<now, admitted, overrun>>

\* write of the health tracker takes its instant and reads the row, then upserts it:
\* a cool-down is counted from that instant.
ReadHealth(j) ==
  /\ LeaseAt(j, "read")
  /\ lease' = [lease EXCEPT ![j].step = "write", ![j].kept = Leases(j), ![j].judged = "no",
       ![j].cool = IF lease[j].judged = "good" THEN 0 ELSE now + Cooldown]
  /\ UNCHANGED <<now, health, admitted, overrun>>

WriteHealth(j) ==
  /\ LeaseAt(j, "write") /\ LeaseOver(j, lease[j].kept)
  /\ health' = [health EXCEPT
       !.paced = IF lease[j].kept THEN PacedUntil(j) ELSE @,
       !.cool = lease[j].cool]
  /\ overrun' = (overrun \/ (lease[j].kept /\ health.used # lease[j].at))
  /\ UNCHANGED <<now, admitted>>

\* The process dies, or the database does not take what it writes.
LeaseDies(j) ==
  /\ ~LeaseAt(j, "idle") /\ ~LeaseAt(j, "over") /\ LeaseOver(j, FALSE)
  /\ UNCHANGED <<now, health, admitted, overrun>>

LeaseNext ==
  \/ Passes \/ Retire \/ Probe
  \/ \E j \in Jobs :
       \/ Ask(j) \/ Claim(j) \/ ClaimFails(j) \/ SendRequest(j) \/ EndWork(j)
       \/ GiveUp(j) \/ ReadHealth(j) \/ WriteHealth(j) \/ LeaseDies(j)

LeaseSpec == LeaseInit /\ [][LeaseNext]_poolVars
-----------------------------------------------------------------------------
(* Types *)

LeaseType == [step : {"idle", "claim", "open", "release", "read", "write", "over"},
              at : Nat, sent : Nat, last : Nat, judged : {"no", "good", "bad"},
              cool : Nat, kept : BOOLEAN]

\* Every variable holds a value of its type.
LeaseTypeOK ==
  /\ now \in Nat /\ health \in [used : Nat, paced : Nat, cool : Nat]
  /\ admitted \in BOOLEAN
  /\ lease \in [Jobs -> LeaseType]
  /\ overrun \in BOOLEAN
-----------------------------------------------------------------------------
(* Safety *)

\* Two jobs never send requests of one store through one endpoint at once, unless the
\* older one has outlived its hold (or a job that had outlived its own has written its
\* pacing over the newer lease): also when a lease is given back late, twice judged, or
\* given back by a job that had lost it.
HeldAlone == \A i, j \in Jobs :
  LeaseAt(i, "open") /\ LeaseAt(j, "open") /\ lease[i].at < lease[j].at /\ ~overrun =>
    lease[i].at + Hold <= lease[j].at

\* No two open leases were taken at the same instant, and when a job has given its
\* lease back, the next one starts only when its requests fit the rate of the endpoint,
\* counted from its lease, and an interval after its last one.
FitsRate == \A i, j \in Jobs :
  i # j /\ LeaseAt(j, "open") /\ ~overrun =>
    /\ LeaseAt(i, "open") => lease[i].at # lease[j].at
    /\ LeaseAt(i, "over") /\ lease[i].kept /\ lease[i].at < lease[j].at =>
         /\ lease[i].at + lease[i].sent <= lease[j].at
         /\ lease[i].last < lease[j].at
=============================================================================
