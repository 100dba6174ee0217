------------------------------ MODULE Checkout ------------------------------
(***************************************************************************)
(* Buying a subscription for one workspace (apps/api/src/billing): calls   *)
(* of BillingService.checkout race for the checkout lease of the workspace *)
(* row, close the session opened before, open one at Stripe and record it. *)
(* One action per awaited database or Stripe call.  The session a call     *)
(* opens, and the subscription a payment on it creates, carry the name of  *)
(* the call.  Stripe and the customer are modelled by what the code relies *)
(* on: sessions are open until they are paid, expired or forgotten, and a  *)
(* customer can only pay a session whose address an answer carried.        *)
(***************************************************************************)
EXTENDS Naturals, FiniteSets

CONSTANTS Attempts,     \* calls of checkout
          None          \* a null column

ASSUME CheckoutAssumption == None \notin Attempts

VARIABLES
  holder, aged,         \* checkoutClaimToken; checkoutClaimedAt is past the limit
  recorded,             \* checkoutSessionId
  stored,               \* the subscription the row says is held
  pc, found,            \* a call's step and the session it is closing
  session, held, shown  \* Stripe: sessions, live subscriptions; answered calls

leaseVars == <<holder, aged>>
rowVars == <<leaseVars, recorded, stored>>
callVars == <<pc, found>>
stripeVars == <<session, held, shown>>
checkoutVars == <<rowVars, callVars, stripeVars>>

CheckoutInit ==
  /\ holder = None /\ aged = FALSE /\ recorded = None /\ stored = None
  /\ pc = [a \in Attempts |-> "idle"] /\ found = [a \in Attempts |-> None]
  /\ session = [a \in Attempts |-> "none"] /\ held = {} /\ shown = {}

Goto(a, step) == pc' = [pc EXCEPT ![a] = step]
Step(a, from, to) == pc[a] = from /\ Goto(a, to)

\* recordWhatStripeHolds: the reconciliation settles the row, or fails and is logged.
Reconcile == \/ stored' = stored
             \/ held = {} /\ stored' = None
             \/ \E s \in held : stored' = s
-----------------------------------------------------------------------------
(* Refusals before the lease is claimed *)

Begin(a) == /\ Step(a, "idle", IF stored = None THEN "ask" ELSE "confirm")
            /\ UNCHANGED <<rowVars, found, stripeVars>>

\* refuseSecondSubscription reconciles a row that says held, then reads it again.
Confirm(a) == /\ Reconcile
              /\ Step(a, "confirm", IF stored' = None THEN "ask" ELSE "refused")
              /\ UNCHANGED <<leaseVars, recorded, found, stripeVars>>

\* refuseLiveSubscription asks Stripe what the customer holds.
AskStripe(a) ==
  /\ \/ held = {} /\ Step(a, "ask", "claim") /\ UNCHANGED stored
     \/ held # {} /\ Step(a, "ask", "refused") /\ Reconcile
  /\ UNCHANGED <<leaseVars, recorded, found, stripeVars>>
-----------------------------------------------------------------------------
(* The lease *)

Free == holder = None \/ aged

ClaimCheckout(a) ==
  /\ IF Free THEN /\ Step(a, "claim", "read")
                  /\ holder' = a /\ aged' = FALSE
             ELSE /\ Step(a, "claim", "refused")
                  /\ UNCHANGED leaseVars
  /\ UNCHANGED <<recorded, stored, found, stripeVars>>

Holds(a) == holder = a

ReleaseCheckout(a) ==
  /\ Step(a, "release", "refused")
  /\ IF Holds(a) THEN holder' = None /\ aged' = FALSE ELSE UNCHANGED leaseVars
  /\ UNCHANGED <<recorded, stored, found, stripeVars>>

\* CHECKOUT_CLAIM_MS passes, whether or not the holder is still at work.
LeaseAges == /\ holder # None /\ ~aged /\ aged' = TRUE
             /\ UNCHANGED <<holder, recorded, stored, callVars, stripeVars>>
-----------------------------------------------------------------------------
(* closeOpenCheckout *)

ReadRecorded(a) ==
  /\ found' = [found EXCEPT ![a] = recorded]
  /\ Step(a, "read", IF recorded = None THEN "create" ELSE "look")
  /\ UNCHANGED <<rowVars, stripeVars>>

\* retrieveCheckoutSession: only an open session has to be expired.
Look(a) ==
  /\ pc[a] = "look"
  /\ Goto(a, CASE session[found[a]] = "missing" -> "forget"
               [] session[found[a]] = "open" -> "expire"
               [] OTHER -> "create")
  /\ UNCHANGED <<rowVars, found, stripeVars>>

ForgetCheckout(a) ==
  /\ Step(a, "forget", "create")
  /\ recorded' = None
  /\ UNCHANGED <<leaseVars, stored, found, stripeVars>>

\* Mutant of ExpireOpen: the session opened before stays payable.
LeaveOpen(a) ==
  /\ Step(a, "expire", "create") /\ UNCHANGED <<rowVars, found, stripeVars>>

\* Stripe refuses to expire a session that is no longer open, and the call throws.
ExpireOpen(a) ==
  /\ pc[a] = "expire"
  /\ \/ /\ session[found[a]] = "open" /\ Goto(a, "create")
        /\ session' = [session EXCEPT ![found[a]] = "expired"]
     \/ /\ session[found[a]] # "open" /\ Goto(a, "release")
        /\ UNCHANGED session
  /\ UNCHANGED <<rowVars, found, held, shown>>
-----------------------------------------------------------------------------
(* Opening a session and recording it *)

CreateSession(a) ==
  /\ Step(a, "create", "record")
  /\ session' = [session EXCEPT ![a] = "open"]
  /\ UNCHANGED <<rowVars, found, held, shown>>

\* Stripe opened the session, and the answer was lost or had no address in it.
CreateUnanswered(a) ==
  /\ Step(a, "create", "release")
  /\ session' = [session EXCEPT ![a] = "open"]
  /\ UNCHANGED <<rowVars, found, held, shown>>

\* recordCheckout: only the holder of the lease answers its caller.
RecordCheckout(a) ==
  /\ IF Holds(a) THEN /\ Step(a, "record", "answered")
                      /\ recorded' = a /\ holder' = None /\ aged' = FALSE
                      /\ shown' = shown \cup {a}
                 ELSE /\ Step(a, "record", "orphan")
                      /\ UNCHANGED <<leaseVars, recorded, shown>>
  /\ UNCHANGED <<stored, found, session, held>>

\* The row was written and its answer lost: the caller sees an error.
RecordUnanswered(a) ==
  /\ Holds(a) /\ Step(a, "record", "release")
  /\ recorded' = a /\ holder' = None /\ aged' = FALSE
  /\ UNCHANGED <<stored, found, stripeVars>>

\* expireOrphan: a failure is logged and the session stays open, unanswered.
ExpireOrphan(a) ==
  /\ Step(a, "orphan", "release")
  /\ \/ session[a] = "open" /\ session' = [session EXCEPT ![a] = "expired"]
     \/ UNCHANGED session
  /\ UNCHANGED <<rowVars, found, held, shown>>

\* A database or Stripe call inside the try throws.
CallFails(a) ==
  /\ pc[a] \in {"read", "look", "forget", "expire", "create", "record"}
  /\ Goto(a, "release")
  /\ UNCHANGED <<rowVars, found, stripeVars>>

\* The process dies; its lease stays until it ages.
Crash(a) ==
  /\ pc[a] \notin {"idle", "answered", "refused"}
  /\ Goto(a, "refused")
  /\ UNCHANGED <<rowVars, found, stripeVars>>
-----------------------------------------------------------------------------
(* Stripe, the customer and the webhook *)

Pay(a) ==
  /\ a \in shown /\ session[a] = "open"
  /\ session' = [session EXCEPT ![a] = "paid"]
  /\ held' = held \cup {a}
  /\ UNCHANGED <<rowVars, callVars, shown>>

SessionLapses(a) ==
  /\ session[a] = "open"
  /\ session' = [session EXCEPT ![a] = "expired"]
  /\ UNCHANGED <<rowVars, callVars, held, shown>>

Cancel(a) == /\ a \in held /\ held' = held \ {a}
             /\ UNCHANGED <<rowVars, callVars, session, shown>>

\* The webhook of a payment, or of a cancellation, reaches the row.
WebhookRecords == /\ \/ held = {} /\ stored' = None
                     \/ \E s \in held : stored' = s
                  /\ UNCHANGED <<leaseVars, recorded, callVars, stripeVars>>

\* A key of another account does not know the sessions opened with the old one.
StripeForgets(a) ==
  /\ session[a] \in {"paid", "expired"}
  /\ session' = [session EXCEPT ![a] = "missing"]
  /\ UNCHANGED <<rowVars, callVars, held, shown>>

Call(a) == \/ Begin(a) \/ Confirm(a) \/ AskStripe(a) \/ ClaimCheckout(a)
           \/ ReadRecorded(a) \/ Look(a) \/ ForgetCheckout(a) \/ ExpireOpen(a)
           \/ CreateSession(a) \/ CreateUnanswered(a) \/ RecordCheckout(a)
           \/ RecordUnanswered(a) \/ ExpireOrphan(a) \/ CallFails(a) \/ ReleaseCheckout(a) \/ Crash(a)

World(a) == Pay(a) \/ SessionLapses(a) \/ Cancel(a) \/ StripeForgets(a)

CheckoutNext == \/ \E a \in Attempts : Call(a) \/ World(a)
        \/ LeaseAges \/ WebhookRecords

CheckoutSpec == CheckoutInit /\ [][CheckoutNext]_checkoutVars
-----------------------------------------------------------------------------
(* Types *)

Steps == {"idle", "confirm", "ask", "claim", "read", "look", "forget", "expire",
          "create", "record", "orphan", "release", "answered", "refused"}
SessionStates == {"none", "open", "paid", "expired", "missing"}
Column == Attempts \cup {None}

\* Every variable holds a value of its type; a call that looks at a session,
\* and one recorded or answered, names a session that was opened.
CheckoutTypeOK ==
  /\ holder \in Column /\ aged \in BOOLEAN /\ recorded \in Column /\ stored \in Column
  /\ pc \in [Attempts -> Steps] /\ found \in [Attempts -> Column]
  /\ session \in [Attempts -> SessionStates]
  /\ held \subseteq Attempts /\ shown \subseteq Attempts
  /\ \A a \in Attempts : pc[a] \in {"look", "forget", "expire"} => found[a] # None
-----------------------------------------------------------------------------
(* Safety *)

Payable == {a \in shown : session[a] = "open"}
NoneMissing == \A a \in Attempts : session[a] # "missing"

\* A workspace has at most one checkout session that can be completed, however
\* calls overlap, lose their lease to a newer call, fail or die.
AtMostOnePayable == \A a, b \in Payable : a = b

\* The same, as long as Stripe knows every session it opened.
OnePayable == NoneMissing => AtMostOnePayable

\* The session a customer can pay is the one the row names, so that the next
\* checkout finds it and closes it first, as long as Stripe knows its sessions.
PayableIsRecorded == NoneMissing => \A a \in Payable : recorded = a

\* Whatever Stripe forgets: the row stops naming a session that can still be
\* completed only by forgetting it, never for another session.
ReplacesOnlyClosed ==
  [][\A a \in Payable : recorded = a => recorded' \in {a, None}]_checkoutVars
=============================================================================
