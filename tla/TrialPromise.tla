---------------------------- MODULE TrialPromise ----------------------------
(***************************************************************************)
(* What the settlement of trials promises, with no transaction, retry or   *)
(* rollback in it.  A mailbox or a card is recorded once, for one          *)
(* workspace and for good.  Settling a trial is one step: it records for   *)
(* its workspace each of its keys that is not recorded, and if one was,    *)
(* the trial is over by then.  A trial is cut short only for a key that    *)
(* is recorded for another workspace.                                      *)
(***************************************************************************)
CONSTANTS Workspaces,
          Keys          \* mailboxes and cards

VARIABLES trial,        \* the trial of each workspace at Stripe
          taken,        \* the recorded keys, with the workspace each is recorded for
          settled,      \* the workspaces that are settled
          stands        \* the keys each of them has asked for

promiseVars == <<trial, taken, settled, stands>>

Start == /\ trial = [w \in Workspaces |-> "none"]
         /\ DOMAIN taken = {}
         /\ settled = {}
         /\ stands = [w \in Workspaces |-> {}]

\* Keys that are not recorded are recorded for whom they are given to.
Record(keys, who) ==
  taken' = [k \in DOMAIN taken \cup keys |-> IF k \in DOMAIN taken THEN taken[k] ELSE who[k]]

Turns(w, from, to) == /\ trial[w] = from
                      /\ trial' = [trial EXCEPT ![w] = to]
                      /\ UNCHANGED <<taken, settled, stands>>

Begin(w) == Turns(w, "none", "on")
RunOut(w) == Turns(w, "on", "over")

\* A trial whose settlement has met another's key is ended before it is settled.
CutShort(w) == /\ w \notin settled
               /\ \E k \in DOMAIN taken : taken[k] # w
               /\ Turns(w, "on", "ended")

\* All at once: a trial that stays on has every key it asked for to itself.
Settle(w) ==
  /\ w \notin settled /\ trial[w] # "none"
  /\ settled' = settled \cup {w}
  /\ UNCHANGED trial
  /\ \E keys \in SUBSET Keys :
       /\ trial[w] = "on" => keys \cap DOMAIN taken = {}
       /\ Record(keys, [k \in keys |-> w])
       /\ stands' = [stands EXCEPT ![w] = keys]

\* Whose trial is settled may get further keys, which nobody has.
Backfill ==
  /\ settled # {} /\ UNCHANGED <<trial, settled, stands>>
  /\ \E keys \in SUBSET Keys : \E who \in [keys -> settled] : Record(keys, who)

Advance == \/ \E w \in Workspaces : Begin(w) \/ RunOut(w) \/ CutShort(w) \/ Settle(w)
           \/ Backfill

Promise == Start /\ [][Advance]_promiseVars
=============================================================================
