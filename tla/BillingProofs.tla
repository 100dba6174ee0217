--------------------------- MODULE BillingProofs ---------------------------
(***************************************************************************)
(* What Checkout and TrialStarts promise for any number of calls,          *)
(* workspaces, mailboxes, cards and settlements.  The invariant of the     *)
(* checkout says what the holder of the lease knows at each of its steps:  *)
(* the row still names the session it found, or none; and once it is past  *)
(* closing, the row names nothing that can be completed.  The invariant of *)
(* the trials says what an open transaction knows: its workspace is        *)
(* settled by nobody else, the keys it has won are recorded for nobody,    *)
(* and it has lost only to a key that is recorded.  With it the            *)
(* settlements are shown to implement TrialPromise, which is shown to be   *)
(* enough for a mailbox or a card to have one trial.                       *)
(***************************************************************************)
EXTENDS Checkout, TrialStarts, TLAPS
-----------------------------------------------------------------------------
(* Checkout *)

ShownAreAnswered == \A a \in shown : pc[a] = "answered"

OpenedOnce ==
  \A a \in Attempts :
    session[a] # "none" => pc[a] \in {"record", "orphan", "release", "answered", "refused"}

HolderCloses ==
  \A a \in Attempts : holder = a =>
    /\ pc[a] \in {"look", "expire", "forget"} => recorded \in {found[a], None}
    /\ pc[a] \in {"create", "record"} => recorded \notin Payable

ClosingInv == CheckoutTypeOK /\ ShownAreAnswered /\ OpenedOnce /\ HolderCloses

\* A call forgets a session only if Stripe has lost one.
ForgetsOnlyMissing == NoneMissing => \A a \in Attempts : pc[a] # "forget"

PayableInv == ClosingInv /\ ForgetsOnlyMissing /\ PayableIsRecorded
-----------------------------------------------------------------------------
\* Every step of checkout, of Stripe and of the customer keeps the types.
LEMMA CheckoutTypeStep == CheckoutTypeOK /\ [CheckoutNext]_checkoutVars => CheckoutTypeOK'
<1> USE CheckoutAssumption DEF CheckoutTypeOK, Steps, SessionStates, Column
<1> SUFFICES ASSUME CheckoutTypeOK, [CheckoutNext]_checkoutVars PROVE CheckoutTypeOK'
  OBVIOUS
<1>1. CASE UNCHANGED checkoutVars
  BY <1>1 DEF checkoutVars, rowVars, leaseVars, callVars, stripeVars
<1>2. ASSUME NEW a \in Attempts, Call(a) PROVE CheckoutTypeOK'
  <2> USE DEF Step, Goto, rowVars, leaseVars, callVars, stripeVars
  <2>1. CASE Begin(a) BY <2>1 DEF Begin
  <2>2. CASE Confirm(a) BY <2>2 DEF Confirm, Reconcile
  <2>3. CASE AskStripe(a) BY <2>3 DEF AskStripe, Reconcile
  <2>4. CASE ClaimCheckout(a) BY <2>4 DEF ClaimCheckout
  <2>5. CASE ReadRecorded(a) BY <2>5 DEF ReadRecorded
  <2>6. CASE Look(a) BY <2>6 DEF Look
  <2>7. CASE ForgetCheckout(a) BY <2>7 DEF ForgetCheckout
  <2>8. CASE ExpireOpen(a) BY <2>8 DEF ExpireOpen
  <2>9. CASE CreateSession(a) BY <2>9 DEF CreateSession
  <2>10. CASE CreateUnanswered(a) BY <2>10 DEF CreateUnanswered
  <2>11. CASE RecordCheckout(a) BY <2>11 DEF RecordCheckout
  <2>12. CASE RecordUnanswered(a) BY <2>12 DEF RecordUnanswered
  <2>13. CASE ExpireOrphan(a) BY <2>13 DEF ExpireOrphan
  <2>14. CASE CallFails(a) BY <2>14 DEF CallFails
  <2>15. CASE ReleaseCheckout(a) BY <2>15 DEF ReleaseCheckout
  <2>16. CASE Crash(a) BY <2>16 DEF Crash
  <2>17. QED
    BY <1>2, <2>1, <2>2, <2>3, <2>4, <2>5, <2>6, <2>7, <2>8, <2>9, <2>10, <2>11,
       <2>12, <2>13, <2>14, <2>15, <2>16 DEF Call
<1>3. ASSUME NEW a \in Attempts, World(a) PROVE CheckoutTypeOK'
  BY <1>3 DEF World, Pay, SessionLapses, Cancel, StripeForgets, rowVars, leaseVars,
     callVars
<1>4. CASE LeaseAges
  BY <1>4 DEF LeaseAges, callVars, stripeVars
<1>5. CASE WebhookRecords
  BY <1>5 DEF WebhookRecords, leaseVars, callVars, stripeVars
<1>6. QED
  BY <1>1, <1>2, <1>3, <1>4, <1>5 DEF CheckoutNext

\* Types hold in every state of a run of checkouts.
THEOREM CheckoutTypes == CheckoutSpec => []CheckoutTypeOK
<1>1. CheckoutInit => CheckoutTypeOK
  BY CheckoutAssumption DEF CheckoutInit, CheckoutTypeOK, Steps, SessionStates, Column
<1>2. QED
  BY <1>1, CheckoutTypeStep, PTL DEF CheckoutSpec
-----------------------------------------------------------------------------
\* What the holder of the lease knows survives every step, its own and others'.
LEMMA ClosingStep == ClosingInv /\ [CheckoutNext]_checkoutVars => ClosingInv'
<1> USE CheckoutAssumption DEF Column
<1> SUFFICES ASSUME ClosingInv, [CheckoutNext]_checkoutVars
             PROVE  ShownAreAnswered' /\ OpenedOnce' /\ HolderCloses'
  BY CheckoutTypeStep DEF ClosingInv
<1> USE DEF ShownAreAnswered, OpenedOnce, HolderCloses, Payable
<1>0. CheckoutTypeOK /\ ShownAreAnswered /\ OpenedOnce /\ HolderCloses
  BY DEF ClosingInv
<1>1. CASE UNCHANGED checkoutVars
  BY <1>0, <1>1 DEF checkoutVars, rowVars, leaseVars, callVars, stripeVars
<1>2. ASSUME NEW a \in Attempts, Call(a)
      PROVE  ShownAreAnswered' /\ OpenedOnce' /\ HolderCloses'
  <2> USE <1>0 DEF CheckoutTypeOK, Step, Goto, rowVars, leaseVars, callVars, stripeVars
  <2>1. CASE Begin(a) BY <2>1 DEF Begin
  <2>2. CASE Confirm(a) BY <2>2 DEF Confirm
  <2>3. CASE AskStripe(a) BY <2>3 DEF AskStripe
  <2>4. CASE ClaimCheckout(a) BY <2>4 DEF ClaimCheckout
  <2>5. CASE ReadRecorded(a) BY <2>5 DEF ReadRecorded
  <2>6. CASE Look(a) BY <2>6 DEF Look
  <2>7. CASE ForgetCheckout(a) BY <2>7 DEF ForgetCheckout
  <2>8. CASE ExpireOpen(a) BY <2>8 DEF ExpireOpen
  <2>9. CASE CreateSession(a) BY <2>9 DEF CreateSession
  <2>10. CASE CreateUnanswered(a) BY <2>10 DEF CreateUnanswered
  <2>11. CASE RecordCheckout(a) BY <2>11 DEF RecordCheckout, Holds
  <2>12. CASE RecordUnanswered(a) BY <2>12 DEF RecordUnanswered, Holds
  <2>13. CASE ExpireOrphan(a) BY <2>13 DEF ExpireOrphan
  <2>14. CASE CallFails(a) BY <2>14 DEF CallFails
  <2>15. CASE ReleaseCheckout(a) BY <2>15 DEF ReleaseCheckout, Holds
  <2>16. CASE Crash(a) BY <2>16 DEF Crash
  <2>17. QED
    BY <1>2, <2>1, <2>2, <2>3, <2>4, <2>5, <2>6, <2>7, <2>8, <2>9, <2>10, <2>11,
       <2>12, <2>13, <2>14, <2>15, <2>16 DEF Call
<1>3. ASSUME NEW a \in Attempts, World(a)
      PROVE  ShownAreAnswered' /\ OpenedOnce' /\ HolderCloses'
  BY <1>0, <1>3 DEF World, Pay, SessionLapses, Cancel, StripeForgets, CheckoutTypeOK,
     rowVars, leaseVars, callVars
<1>4. CASE LeaseAges
  BY <1>0, <1>4 DEF LeaseAges, callVars, stripeVars
<1>5. CASE WebhookRecords
  BY <1>0, <1>5 DEF WebhookRecords, leaseVars, callVars, stripeVars
<1>6. QED
  BY <1>1, <1>2, <1>3, <1>4, <1>5 DEF CheckoutNext

LEMMA ClosingInit == CheckoutInit => ClosingInv
BY CheckoutAssumption
   DEF CheckoutInit, ClosingInv, CheckoutTypeOK, Steps, SessionStates, Column, ShownAreAnswered,
       OpenedOnce, HolderCloses, Payable

LEMMA ClosingInvariant == CheckoutSpec => []ClosingInv
BY ClosingInit, ClosingStep, PTL DEF CheckoutSpec

\* However calls overlap, and whatever Stripe forgets, the row never trades a
\* session that can be completed for another one (closeOpenCheckout before
\* recordCheckout, under the lease token).
THEOREM OnlyClosedIsReplaced == CheckoutSpec => ReplacesOnlyClosed
<1> SUFFICES ASSUME ClosingInv, [CheckoutNext]_checkoutVars
             PROVE  [\A a \in Payable : recorded = a => recorded' \in {a, None}]_checkoutVars
  BY ClosingInvariant, PTL DEF CheckoutSpec, ReplacesOnlyClosed
<1>1. ASSUME NEW a \in Attempts, Call(a), recorded' # recorded
      PROVE  recorded' = None \/ recorded \notin Payable
  BY <1>1 DEF ClosingInv, HolderCloses, Holds, Step, Goto, rowVars, leaseVars, Call,
     Begin, Confirm, AskStripe, ClaimCheckout, ReadRecorded, Look, ForgetCheckout,
     ExpireOpen, CreateSession, CreateUnanswered, RecordCheckout, RecordUnanswered,
     ExpireOrphan, CallFails, ReleaseCheckout, Crash
<1>2. QED
  BY <1>1 DEF CheckoutNext, checkoutVars, rowVars, leaseVars, World, Pay, SessionLapses, Cancel,
     StripeForgets, LeaseAges, WebhookRecords
-----------------------------------------------------------------------------
\* A call that goes on to forget its session found it missing, and a missing
\* session stays missing.
LEMMA ForgettingStep ==
  CheckoutTypeOK /\ OpenedOnce /\ ForgetsOnlyMissing /\ [CheckoutNext]_checkoutVars => ForgetsOnlyMissing'
<1> SUFFICES ASSUME CheckoutTypeOK, OpenedOnce, ForgetsOnlyMissing, [CheckoutNext]_checkoutVars
             PROVE  ForgetsOnlyMissing'
  OBVIOUS
<1>1. ASSUME NEW a \in Attempts, Call(a) PROVE ForgetsOnlyMissing'
  <2> USE CheckoutAssumption
      DEF ForgetsOnlyMissing, NoneMissing, OpenedOnce, CheckoutTypeOK, Column, Step, Goto,
          rowVars, leaseVars, callVars, stripeVars
  <2>1. CASE Look(a) BY <2>1 DEF Look
  <2>2. CASE ExpireOpen(a) BY <2>2 DEF ExpireOpen
  <2>3. CASE ReadRecorded(a) BY <2>3 DEF ReadRecorded
  <2>4. CASE CreateSession(a) \/ CreateUnanswered(a) \/ ExpireOrphan(a)
    BY <2>4 DEF CreateSession, CreateUnanswered, ExpireOrphan
  <2>5. CASE RecordCheckout(a) \/ RecordUnanswered(a)
    BY <2>5 DEF RecordCheckout, RecordUnanswered
  <2>6. CASE Begin(a) \/ Confirm(a) \/ AskStripe(a) \/ ClaimCheckout(a)
    BY <2>6 DEF Begin, Confirm, AskStripe, ClaimCheckout
  <2>7. CASE ForgetCheckout(a) \/ CallFails(a) \/ ReleaseCheckout(a) \/ Crash(a)
    BY <2>7 DEF ForgetCheckout, CallFails, ReleaseCheckout, Crash
  <2>8. QED
    BY <1>1, <2>1, <2>2, <2>3, <2>4, <2>5, <2>6, <2>7 DEF Call
<1>2. QED
  BY <1>1 DEF CheckoutNext, ForgetsOnlyMissing, NoneMissing, CheckoutTypeOK, checkoutVars, rowVars, callVars,
     stripeVars, World, Pay, SessionLapses, Cancel, StripeForgets, LeaseAges, WebhookRecords

\* The session that can be completed stays the recorded one.
LEMMA RecordedStep ==
  PayableInv /\ [CheckoutNext]_checkoutVars => PayableIsRecorded'
<1> SUFFICES ASSUME PayableInv, [CheckoutNext]_checkoutVars PROVE PayableIsRecorded'
  OBVIOUS
<1> USE CheckoutAssumption DEF Column
<1>0. CheckoutTypeOK /\ ShownAreAnswered /\ OpenedOnce /\ HolderCloses
      /\ ForgetsOnlyMissing /\ PayableIsRecorded
  BY DEF PayableInv, ClosingInv
<1> USE DEF PayableIsRecorded, Payable, NoneMissing
<1>1. ASSUME NEW a \in Attempts, Call(a) PROVE PayableIsRecorded'
  <2> USE <1>0 DEF CheckoutTypeOK, Step, Goto, rowVars, leaseVars, callVars, stripeVars
  <2>1. CASE ForgetCheckout(a) BY <2>1 DEF ForgetCheckout, ForgetsOnlyMissing
  <2>2. CASE ExpireOpen(a) BY <2>2 DEF ExpireOpen
  <2>3. CASE CreateSession(a) \/ CreateUnanswered(a)
    BY <2>3 DEF CreateSession, CreateUnanswered, ShownAreAnswered, OpenedOnce
  <2>4. CASE RecordCheckout(a) \/ RecordUnanswered(a)
    BY <2>4 DEF RecordCheckout, RecordUnanswered, Holds, HolderCloses
  <2>5. CASE ExpireOrphan(a) BY <2>5 DEF ExpireOrphan
  <2>6. CASE Begin(a) \/ Confirm(a) \/ AskStripe(a) \/ ClaimCheckout(a)
    BY <2>6 DEF Begin, Confirm, AskStripe, ClaimCheckout
  <2>7. CASE ReadRecorded(a) \/ Look(a) \/ CallFails(a) \/ ReleaseCheckout(a)
             \/ Crash(a)
    BY <2>7 DEF ReadRecorded, Look, CallFails, ReleaseCheckout, Crash
  <2>8. QED
    BY <1>1, <2>1, <2>2, <2>3, <2>4, <2>5, <2>6, <2>7 DEF Call
<1>2. ASSUME NEW a \in Attempts, World(a) PROVE PayableIsRecorded'
  BY <1>0, <1>2 DEF World, Pay, SessionLapses, Cancel, StripeForgets, CheckoutTypeOK, rowVars
<1>3. QED
  BY <1>0, <1>1, <1>2 DEF CheckoutNext, checkoutVars, rowVars, stripeVars, LeaseAges, WebhookRecords

\* As long as Stripe knows its sessions, the one that can be completed is the one
\* the row names, so the next checkout closes it.
THEOREM PayableStaysRecorded == CheckoutSpec => []PayableIsRecorded
<1>1. CheckoutInit => PayableInv
  BY ClosingInit DEF CheckoutInit, PayableInv, ForgetsOnlyMissing, NoneMissing, PayableIsRecorded, Payable
<1>2. PayableInv /\ [CheckoutNext]_checkoutVars => PayableInv'
  BY ClosingStep, ForgettingStep, RecordedStep DEF PayableInv, ClosingInv
<1>3. PayableInv => PayableIsRecorded
  BY DEF PayableInv
<1>4. QED
  BY <1>1, <1>2, <1>3, PTL DEF CheckoutSpec

\* As long as Stripe knows its sessions, a workspace never has two checkout
\* sessions that can be completed.
THEOREM OneIsPayable == CheckoutSpec => []OnePayable
<1>1. PayableIsRecorded => OnePayable
  BY DEF PayableIsRecorded, OnePayable, AtMostOnePayable
<1>2. QED
  BY <1>1, PayableStaysRecorded, PTL
-----------------------------------------------------------------------------
(* Trials *)

OneAtATime == \A s, t \in Settles :
  s # t /\ InTransaction(s) /\ InTransaction(t) =>
    /\ settle[s].workspace # settle[t].workspace
    /\ settle[s].won \cap settle[t].won = {}

OpenIsUnsettled == \A s \in Settles : InTransaction(s) =>
  /\ settle[s].workspace \notin settled
  /\ settle[s].won \subseteq KeysOf(s)
  /\ settle[s].won \cap DOMAIN taken = {}

ClaimsAreOfSettled ==
  /\ \A k \in DOMAIN taken : taken[k] \in settled
  /\ \A p \in page : p[1] \in settled

WhatIsNotWonIsLost == \A s \in Settles :
  /\ Works(s, "lock") => settle[s].won = {} /\ ~settle[s].lost
  /\ settle[s].step \in {"card", "end", "commit"} =>
       settle[s].mailbox \in settle[s].won \cup {NoKey} \/ settle[s].lost
  /\ settle[s].step \in {"end", "commit"} =>
       settle[s].card \in settle[s].won \cup {NoKey} \/ settle[s].lost

LostToAClaim == \A s \in Settles :
  InTransaction(s) /\ settle[s].lost => KeysOf(s) \cap DOMAIN taken # {}

TrialsBegan == \A s \in Settles : ~Works(s, "idle") =>
  /\ trial[settle[s].workspace] # "none"
  /\ ~settle[s].trialing => trial[settle[s].workspace] # "on"
  /\ Works(s, "commit") /\ settle[s].lost => trial[settle[s].workspace] # "on"

TrialsHoldTheirKeys == \A w \in settled :
  /\ trial[w] # "none"
  /\ trial[w] = "on" => \A k \in stands[w] : k \in DOMAIN taken /\ taken[k] = w

TrialInv ==
  /\ TrialTypeOK /\ OneAtATime /\ OpenIsUnsettled /\ ClaimsAreOfSettled
  /\ WhatIsNotWonIsLost /\ LostToAClaim /\ TrialsBegan /\ TrialsHoldTheirKeys
-----------------------------------------------------------------------------
(* What one step does to the calls of settle *)

OthersStay(s) == \A t \in Settles \ {s} : settle'[t] = settle[t]

SameRequest(s) ==
  /\ settle'[s].workspace = settle[s].workspace
  /\ settle'[s].mailbox = settle[s].mailbox /\ settle'[s].card = settle[s].card
  /\ settle'[s].trialing = settle[s].trialing

LEMMA AtWork ==
  ASSUME TrialTypeOK, NEW s \in Settles, settle[s].step # "idle"
  PROVE  settle[s] \in Request
BY DEF TrialTypeOK, SettleType, Resting, Request

LEMMA GoesOn ==
  ASSUME TrialTypeOK, NEW s \in Settles, settle[s].step # "idle",
         NEW next \in {"mailbox", "commit"}, Goes(s, next)
  PROVE  /\ OthersStay(s) /\ SameRequest(s)
         /\ settle'[s].step = next
         /\ settle'[s].won = settle[s].won /\ settle'[s].lost = settle[s].lost
         /\ settle' \in [Settles -> SettleType]
<1>1. settle[s] \in Request BY AtWork
<1> QED BY <1>1 DEF Goes, OthersStay, SameRequest, TrialTypeOK, SettleType, Request

LEMMA IsDone ==
  ASSUME TrialTypeOK, NEW s \in Settles, Done(s)
  PROVE  /\ OthersStay(s) /\ settle'[s] = Resting
         /\ settle' \in [Settles -> SettleType]
BY DEF Done, OthersStay, TrialTypeOK, SettleType

LEMMA ClaimsAKey ==
  ASSUME TrialTypeOK, NEW s \in Settles, settle[s].step # "idle",
         NEW k \in Keys \cup {NoKey}, NEW next \in {"card", "end"}, ClaimKey(s, k, next)
  PROVE  /\ OthersStay(s) /\ SameRequest(s)
         /\ settle'[s].step = next
         /\ settle'[s].won = IF k = NoKey \/ k \in DOMAIN taken
                               THEN settle[s].won ELSE settle[s].won \cup {k}
         /\ settle'[s].lost = (settle[s].lost \/ k \in DOMAIN taken)
         /\ settle' \in [Settles -> SettleType]
<1>1. settle[s] \in Request BY AtWork
<1>2. settle \in [Settles -> SettleType] BY DEF TrialTypeOK
<1> DEFINE won == IF k = NoKey \/ k \in DOMAIN taken
                    THEN settle[s].won ELSE settle[s].won \cup {k}
           lost == settle[s].lost \/ k \in DOMAIN taken
<1>3. settle' = [settle EXCEPT ![s] = [settle[s] EXCEPT !.step = next, !.won = won, !.lost = lost]]
  BY <1>2 DEF ClaimKey
<1>4. won \in SUBSET Keys /\ lost \in BOOLEAN BY <1>1 DEF Request
<1>5. [settle[s] EXCEPT !.step = next, !.won = won, !.lost = lost] \in SettleType
  BY <1>1, <1>4 DEF Request, SettleType
<1>6. settle' \in [Settles -> SettleType] BY <1>2, <1>3, <1>5
<1>7. settle'[s] = [settle[s] EXCEPT !.step = next, !.won = won, !.lost = lost]
  BY <1>2, <1>3
<1>8. OthersStay(s) BY <1>2, <1>3 DEF OthersStay
<1> QED BY <1>1, <1>6, <1>7, <1>8 DEF SameRequest, Request
-----------------------------------------------------------------------------
\* Every step of Stripe, of the users, of a settlement and of the backfill keeps the
\* types.
LEMMA SettleTypes ==
  ASSUME TrialTypeOK, NEW s \in Settles,
         \/ Lock(s) \/ ClaimMailbox(s) \/ ClaimCard(s) \/ EndTrial(s) \/ Commit(s)
         \/ RollBack(s)
  PROVE  TrialTypeOK'
<1>0. TrialTypeOK OBVIOUS
<1>1. CASE Lock(s)
  <2>1. settle' \in [Settles -> SettleType]
    BY <1>1, GoesOn, IsDone DEF Lock, Works
  <2> QED BY <1>0, <1>1, <2>1 DEF Lock, TrialTypeOK
<1>2. CASE ClaimMailbox(s)
  <2>1. settle[s].mailbox \in Keys \cup {NoKey}
    BY <1>2, AtWork DEF ClaimMailbox, Works, Request, Keys
  <2>2. settle' \in [Settles -> SettleType]
    BY <1>2, <2>1, ClaimsAKey DEF ClaimMailbox, Works
  <2> QED BY <1>0, <1>2, <2>2 DEF ClaimMailbox, ClaimKey, TrialTypeOK
<1>3. CASE ClaimCard(s)
  <2>1. settle[s].card \in Keys \cup {NoKey}
    BY <1>3, AtWork DEF ClaimCard, Works, Request, Keys
  <2>2. settle' \in [Settles -> SettleType]
    BY <1>3, <2>1, ClaimsAKey DEF ClaimCard, Works
  <2> QED BY <1>0, <1>3, <2>2 DEF ClaimCard, ClaimKey, TrialTypeOK
<1>4. CASE EndTrial(s)
  <2>1. settle' \in [Settles -> SettleType]
    BY <1>4, GoesOn DEF EndTrial, Works
  <2>2. trial' \in [Workspaces -> {"none", "on", "over", "ended"}]
    BY <1>0, <1>4 DEF EndTrial, TrialTypeOK
  <2> QED BY <1>0, <1>4, <2>1, <2>2 DEF EndTrial, TrialTypeOK
<1>5. CASE Commit(s)
  <2>1. settle[s] \in Request BY <1>5, AtWork DEF Commit, Works
  <2>2. settle' \in [Settles -> SettleType] BY <1>5, IsDone DEF Commit
  <2>3. DOMAIN taken' \subseteq Keys /\ taken' \in [DOMAIN taken' -> Workspaces]
    BY <1>0, <1>5, <2>1 DEF Commit, Claimed, TrialTypeOK, Request
  <2>4. KeysOf(s) \subseteq Keys BY <2>1 DEF KeysOf, Request, Keys
  <2>5. stands' \in [Workspaces -> SUBSET Keys]
    BY <1>0, <1>5, <2>1, <2>4 DEF Commit, TrialTypeOK
  <2>6. settled' \subseteq Workspaces
    BY <1>0, <1>5, <2>1 DEF Commit, TrialTypeOK, Request
  <2> QED BY <1>0, <1>5, <2>2, <2>3, <2>5, <2>6 DEF Commit, TrialTypeOK
<1>6. CASE RollBack(s)
  BY <1>0, <1>6, IsDone DEF RollBack, TrialTypeOK
<1> QED BY <1>1, <1>2, <1>3, <1>4, <1>5, <1>6

LEMMA TrialTypeStep == TrialTypeOK /\ [TrialNext]_trialVars => TrialTypeOK'
<1> SUFFICES ASSUME TrialTypeOK, [TrialNext]_trialVars PROVE TrialTypeOK'
  OBVIOUS
<1>0. TrialTypeOK OBVIOUS
<1>1. CASE UNCHANGED trialVars BY <1>1 DEF trialVars, TrialTypeOK
<1>2. ASSUME NEW w \in Workspaces, TrialBegins(w) \/ TrialRunsOut(w) PROVE TrialTypeOK'
  BY <1>0, <1>2 DEF TrialBegins, TrialRunsOut, TrialTypeOK
<1>3. ASSUME NEW w \in Workspaces, NEW m \in Mailboxes, OwnerMoves(w, m) PROVE TrialTypeOK'
  BY <1>0, <1>3 DEF OwnerMoves, TrialTypeOK
<1>4. ASSUME NEW s \in Settles, NEW w \in Workspaces, BeginSettle(s, w) PROVE TrialTypeOK'
  <2>1. settle' \in [Settles -> SettleType]
    BY <1>0, <1>4 DEF BeginSettle, TrialTypeOK, SettleType, Request
  <2> QED BY <1>0, <1>4, <2>1 DEF BeginSettle, TrialTypeOK
<1>5. CASE ReadPage
  <2>1. page' \subseteq Workspaces \X Mailboxes
    BY <1>0, <1>5 DEF ReadPage, TrialTypeOK
  <2> QED BY <1>0, <1>5, <2>1 DEF ReadPage, TrialTypeOK
<1>6. CASE ClaimPage
  <2>1. DOMAIN taken' \subseteq Keys /\ taken' \in [DOMAIN taken' -> Workspaces]
    BY <1>0, <1>6 DEF ClaimPage, TrialTypeOK, Keys
  <2> QED BY <1>0, <1>6, <2>1 DEF ClaimPage, TrialTypeOK
<1> QED
  BY <1>1, <1>2, <1>3, <1>4, <1>5, <1>6, SettleTypes DEF TrialNext
-----------------------------------------------------------------------------
(* Each step keeps the invariant *)

\* Stripe begins or ends a trial by itself; an owner moves.
LEMMA WorldStep ==
  ASSUME TrialInv, UNCHANGED <<settled, taken, settle, page, stands>>,
         \A w \in Workspaces : \/ trial'[w] = trial[w]
                               \/ trial[w] = "none" /\ trial'[w] = "on"
                               \/ trial[w] = "on" /\ trial'[w] = "over"
  PROVE  /\ OneAtATime' /\ OpenIsUnsettled' /\ ClaimsAreOfSettled'
         /\ WhatIsNotWonIsLost' /\ LostToAClaim' /\ TrialsBegan' /\ TrialsHoldTheirKeys'
<1>0. TrialInv OBVIOUS
<1>1. \A s \in Settles : (InTransaction(s))' = InTransaction(s) /\ KeysOf(s)' = KeysOf(s)
                        /\ \A step : Works(s, step)' = Works(s, step)
  BY DEF InTransaction, KeysOf, Works
<1>2. OneAtATime' BY <1>0, <1>1 DEF TrialInv, OneAtATime
<1>3. OpenIsUnsettled' BY <1>0, <1>1 DEF TrialInv, OpenIsUnsettled
<1>4. ClaimsAreOfSettled' BY <1>0 DEF TrialInv, ClaimsAreOfSettled
<1>5. WhatIsNotWonIsLost' BY <1>0 DEF TrialInv, WhatIsNotWonIsLost, Works
<1>6. LostToAClaim' BY <1>0, <1>1 DEF TrialInv, LostToAClaim
<1>7. TrialsBegan'
  <2> SUFFICES ASSUME NEW s \in Settles, ~Works(s, "idle")'
               PROVE  /\ trial'[settle[s].workspace] # "none"
                      /\ ~settle[s].trialing => trial'[settle[s].workspace] # "on"
                      /\ Works(s, "commit") /\ settle[s].lost
                           => trial'[settle[s].workspace] # "on"
    BY DEF TrialsBegan, Works
  <2>1. settle[s].workspace \in Workspaces
    BY <1>0, AtWork DEF TrialInv, Works, Request
  <2> QED BY <1>0, <2>1 DEF TrialInv, TrialsBegan, Works
<1>8. TrialsHoldTheirKeys'
  BY <1>0 DEF TrialInv, TrialTypeOK, TrialsHoldTheirKeys
<1> QED BY <1>2, <1>3, <1>4, <1>5, <1>6, <1>7, <1>8

\* A settlement begins, or ends without a trace.
LEMMA RestStep ==
  ASSUME TrialInv, NEW s \in Settles, OthersStay(s),
         UNCHANGED <<trial, settled, taken, page, stands>>,
         ~InTransaction(s)',
         \/ settle'[s].step = "idle"
         \/ /\ settle'[s].step = "lock" /\ settle'[s].won = {} /\ settle'[s].lost = FALSE
            /\ trial[settle'[s].workspace] # "none"
            /\ settle'[s].trialing = (trial[settle'[s].workspace] = "on")
  PROVE  /\ OneAtATime' /\ OpenIsUnsettled' /\ ClaimsAreOfSettled'
         /\ WhatIsNotWonIsLost' /\ LostToAClaim' /\ TrialsBegan' /\ TrialsHoldTheirKeys'
<1>0. TrialInv OBVIOUS
<1>1. \A t \in Settles \ {s} : settle'[t] = settle[t] BY DEF OthersStay
<1>2. \A t \in Settles : InTransaction(t)' => t # s OBVIOUS
<1>3. \A t \in Settles \ {s} : (InTransaction(t))' = InTransaction(t) /\ KeysOf(t)' = KeysOf(t)
  BY <1>1 DEF InTransaction, KeysOf
<1>4. OneAtATime' BY <1>0, <1>1, <1>2, <1>3 DEF TrialInv, OneAtATime
<1>5. OpenIsUnsettled' BY <1>0, <1>1, <1>2, <1>3 DEF TrialInv, OpenIsUnsettled
<1>6. ClaimsAreOfSettled' BY <1>0 DEF TrialInv, ClaimsAreOfSettled
<1>7. WhatIsNotWonIsLost' BY <1>0, <1>1 DEF TrialInv, WhatIsNotWonIsLost, Works
<1>8. LostToAClaim' BY <1>0, <1>1, <1>2, <1>3 DEF TrialInv, LostToAClaim
<1>9. TrialsBegan' BY <1>0, <1>1 DEF TrialInv, TrialsBegan, Works
<1>10. TrialsHoldTheirKeys' BY <1>0 DEF TrialInv, TrialsHoldTheirKeys
<1> QED BY <1>4, <1>5, <1>6, <1>7, <1>8, <1>9, <1>10

\* A transaction opens: the lock keeps others of the workspace out.
LEMMA LockStep ==
  ASSUME TrialInv, NEW s \in Settles, Lock(s), settle[s].workspace \notin settled
  PROVE  /\ OneAtATime' /\ OpenIsUnsettled' /\ ClaimsAreOfSettled'
         /\ WhatIsNotWonIsLost' /\ LostToAClaim' /\ TrialsBegan' /\ TrialsHoldTheirKeys'
<1>0. TrialInv /\ TrialTypeOK BY DEF TrialInv
<1>1. /\ OthersStay(s) /\ SameRequest(s) /\ settle'[s].step = "mailbox"
      /\ settle'[s].won = settle[s].won /\ settle'[s].lost = settle[s].lost
  BY <1>0, GoesOn DEF Lock, Works
<1>2. UNCHANGED <<trial, owner, card, settled, taken, page, stands>> BY DEF Lock
<1>3. settle[s].won = {} /\ ~settle[s].lost
  BY <1>0 DEF Lock, TrialInv, WhatIsNotWonIsLost
<1>4. \A t \in Settles \ {s} : /\ settle'[t] = settle[t]
                               /\ (InTransaction(t))' = InTransaction(t) /\ KeysOf(t)' = KeysOf(t)
  BY <1>1 DEF InTransaction, KeysOf, OthersStay
<1>5. \A t \in Settles \ {s} : InTransaction(t) => settle[t].workspace # settle[s].workspace
  BY DEF Lock, Locked
<1>6. OneAtATime'
  BY <1>0, <1>1, <1>3, <1>4, <1>5 DEF TrialInv, OneAtATime, SameRequest
<1>7. OpenIsUnsettled'
  BY <1>0, <1>1, <1>2, <1>3, <1>4 DEF TrialInv, OpenIsUnsettled, SameRequest
<1>8. ClaimsAreOfSettled' BY <1>0, <1>2 DEF TrialInv, ClaimsAreOfSettled
<1>9. WhatIsNotWonIsLost'
  BY <1>0, <1>1, <1>4 DEF TrialInv, WhatIsNotWonIsLost, Works
<1>10. LostToAClaim' BY <1>0, <1>1, <1>2, <1>3, <1>4 DEF TrialInv, LostToAClaim
<1>11. TrialsBegan'
  BY <1>0, <1>1, <1>2, <1>4 DEF TrialInv, TrialsBegan, Works, SameRequest, Lock
<1>12. TrialsHoldTheirKeys' BY <1>0, <1>2 DEF TrialInv, TrialsHoldTheirKeys
<1> QED BY <1>6, <1>7, <1>8, <1>9, <1>10, <1>11, <1>12

\* A key is won, or somebody's claim of it is met.
LEMMA ClaimStep ==
  ASSUME TrialInv, NEW s \in Settles,
         \/ ClaimMailbox(s) \/ ClaimCard(s)
  PROVE  /\ OneAtATime' /\ OpenIsUnsettled' /\ ClaimsAreOfSettled'
         /\ WhatIsNotWonIsLost' /\ LostToAClaim' /\ TrialsBegan' /\ TrialsHoldTheirKeys'
<1> DEFINE k == IF Works(s, "mailbox") THEN settle[s].mailbox ELSE settle[s].card
           next == IF Works(s, "mailbox") THEN "card" ELSE "end"
<1>0. TrialInv /\ TrialTypeOK BY DEF TrialInv
<1>1. /\ ClaimKey(s, k, next)
      /\ \/ next = "card" /\ Works(s, "mailbox") /\ k = settle[s].mailbox
         \/ next = "end" /\ Works(s, "card") /\ k = settle[s].card
  BY DEF ClaimMailbox, ClaimCard, Works
<1>2. settle[s] \in Request BY <1>0, <1>1, AtWork DEF Works
<1>3. k \in Keys \cup {NoKey} BY <1>2 DEF Request, Keys
<1>4. /\ OthersStay(s) /\ SameRequest(s) /\ settle'[s].step = next
      /\ settle'[s].won = IF k = NoKey \/ k \in DOMAIN taken
                            THEN settle[s].won ELSE settle[s].won \cup {k}
      /\ settle'[s].lost = (settle[s].lost \/ k \in DOMAIN taken)
  <2> HIDE DEF k, next
  <2> QED BY <1>0, <1>1, <1>3, ClaimsAKey DEF Works
<1>5. UNCHANGED <<trial, owner, card, settled, taken, page, stands>>
  BY <1>1 DEF ClaimKey
<1>6. ~Contested(s, k) BY <1>1 DEF ClaimKey
<1>7. InTransaction(s) /\ InTransaction(s)' BY <1>1, <1>4 DEF InTransaction, Works
<1>8. KeysOf(s)' = KeysOf(s) BY <1>4 DEF KeysOf, SameRequest
<1>9. k # NoKey => k \in KeysOf(s) BY <1>1 DEF KeysOf
<1>10. \A t \in Settles \ {s} : /\ settle'[t] = settle[t]
                                /\ (InTransaction(t))' = InTransaction(t) /\ KeysOf(t)' = KeysOf(t)
  BY <1>4 DEF InTransaction, KeysOf, OthersStay
<1>11. k # NoKey => k \in Keys BY <1>3
<1>12. NoKey \notin DOMAIN taken
  BY <1>0, TrialAssumption DEF TrialTypeOK, Keys
<1> HIDE DEF k, next
<1>13. OneAtATime'
  <2> SUFFICES ASSUME NEW a \in Settles, NEW b \in Settles,
                      a # b, InTransaction(a)', InTransaction(b)'
               PROVE  /\ settle'[a].workspace # settle'[b].workspace
                      /\ settle'[a].won \cap settle'[b].won = {}
    BY DEF OneAtATime
  <2>1. InTransaction(a) /\ InTransaction(b) BY <1>7, <1>10
  <2>2. /\ settle[a].workspace # settle[b].workspace
        /\ settle[a].won \cap settle[b].won = {}
    BY <1>0, <2>1 DEF TrialInv, OneAtATime
  <2>3. CASE a = s
    <3>1. k \notin settle[b].won BY <1>6, <2>1, <2>3 DEF Contested
    <3> QED BY <1>4, <1>10, <2>2, <2>3, <3>1 DEF SameRequest
  <2>4. CASE b = s
    <3>1. k \notin settle[a].won BY <1>6, <2>1, <2>4 DEF Contested
    <3> QED BY <1>4, <1>10, <2>2, <2>4, <3>1 DEF SameRequest
  <2>5. CASE a # s /\ b # s BY <1>10, <2>2, <2>5
  <2> QED BY <2>3, <2>4, <2>5
<1>14. OpenIsUnsettled'
  <2> SUFFICES ASSUME NEW a \in Settles, InTransaction(a)'
               PROVE  /\ settle'[a].workspace \notin settled
                      /\ settle'[a].won \subseteq KeysOf(a)'
                      /\ settle'[a].won \cap DOMAIN taken = {}
    BY <1>5 DEF OpenIsUnsettled
  <2>1. InTransaction(a) BY <1>7, <1>10
  <2>2. /\ settle[a].workspace \notin settled
        /\ settle[a].won \subseteq KeysOf(a)
        /\ settle[a].won \cap DOMAIN taken = {}
    BY <1>0, <2>1 DEF TrialInv, OpenIsUnsettled
  <2>3. CASE a = s BY <1>4, <1>8, <1>9, <2>2, <2>3 DEF SameRequest
  <2>4. CASE a # s BY <1>10, <2>2, <2>4
  <2> QED BY <2>3, <2>4
<1>15. ClaimsAreOfSettled' BY <1>0, <1>5 DEF TrialInv, ClaimsAreOfSettled
<1>16. WhatIsNotWonIsLost'
  <2> SUFFICES ASSUME NEW a \in Settles
               PROVE  WhatIsNotWonIsLost!(a)'
    BY DEF WhatIsNotWonIsLost
  <2>1. WhatIsNotWonIsLost!(a) BY <1>0 DEF TrialInv, WhatIsNotWonIsLost
  <2>2. CASE a = s
    BY <1>1, <1>4, <2>1, <2>2 DEF SameRequest, Works
  <2>3. CASE a # s BY <1>10, <2>1, <2>3 DEF Works
  <2> QED BY <2>2, <2>3
<1>17. LostToAClaim'
  <2> SUFFICES ASSUME NEW a \in Settles, InTransaction(a)', settle'[a].lost
               PROVE  KeysOf(a)' \cap DOMAIN taken # {}
    BY <1>5 DEF LostToAClaim
  <2>1. InTransaction(a) BY <1>7, <1>10
  <2>2. settle[a].lost => KeysOf(a) \cap DOMAIN taken # {}
    BY <1>0, <2>1 DEF TrialInv, LostToAClaim
  <2>3. CASE a = s BY <1>4, <1>8, <1>9, <1>12, <2>2, <2>3
  <2>4. CASE a # s BY <1>10, <2>2, <2>4
  <2> QED BY <2>3, <2>4
<1>18. TrialsBegan'
  <2> SUFFICES ASSUME NEW a \in Settles
               PROVE  TrialsBegan!(a)'
    BY DEF TrialsBegan
  <2>1. TrialsBegan!(a) BY <1>0 DEF TrialInv, TrialsBegan
  <2>2. CASE a = s
    BY <1>1, <1>4, <1>5, <2>1, <2>2 DEF SameRequest, Works
  <2>3. CASE a # s BY <1>5, <1>10, <2>1, <2>3 DEF Works
  <2> QED BY <2>2, <2>3
<1>19. TrialsHoldTheirKeys' BY <1>0, <1>5 DEF TrialInv, TrialsHoldTheirKeys
<1> QED BY <1>13, <1>14, <1>15, <1>16, <1>17, <1>18, <1>19
\* Stripe is asked to end the trial of a settlement that lost a claim.
LEMMA EndStep ==
  ASSUME TrialInv, NEW s \in Settles, EndTrial(s)
  PROVE  /\ OneAtATime' /\ OpenIsUnsettled' /\ ClaimsAreOfSettled'
         /\ WhatIsNotWonIsLost' /\ LostToAClaim' /\ TrialsBegan' /\ TrialsHoldTheirKeys'
<1> DEFINE w == settle[s].workspace
<1>0. TrialInv /\ TrialTypeOK BY DEF TrialInv
<1>1. settle[s].step = "end" /\ settle[s] \in Request
  BY <1>0, AtWork DEF EndTrial, Works
<1>2. /\ OthersStay(s) /\ SameRequest(s) /\ settle'[s].step = "commit"
      /\ settle'[s].won = settle[s].won /\ settle'[s].lost = settle[s].lost
  BY <1>0, <1>1, GoesOn DEF EndTrial
<1>3. UNCHANGED <<owner, card, settled, taken, page, stands>> BY DEF EndTrial
<1>4. w \in Workspaces /\ w \notin settled
  BY <1>0, <1>1 DEF TrialInv, OpenIsUnsettled, InTransaction, Request
<1>5. \A v \in Workspaces : trial'[v] = trial[v] \/ (v = w /\ trial[v] = "on" /\ trial'[v] = "ended")
  BY <1>0, <1>4 DEF EndTrial, TrialTypeOK
<1>6. settle[s].lost => trial'[w] # "on"
  <2>1. ~settle[s].trialing => trial[w] # "on"
    BY <1>0, <1>1 DEF TrialInv, TrialsBegan, Works
  <2> QED BY <1>0, <1>4, <2>1 DEF EndTrial, TrialTypeOK
<1>7. \A t \in Settles : /\ t # s => settle'[t] = settle[t]
                        /\ (InTransaction(t))' = InTransaction(t) /\ KeysOf(t)' = KeysOf(t)
                        /\ settle'[t].workspace = settle[t].workspace
                        /\ settle'[t].won = settle[t].won /\ settle'[t].lost = settle[t].lost
  BY <1>1, <1>2 DEF InTransaction, KeysOf, OthersStay, SameRequest
<1>8. OneAtATime' BY <1>0, <1>7 DEF TrialInv, OneAtATime
<1>9. OpenIsUnsettled' BY <1>0, <1>3, <1>7 DEF TrialInv, OpenIsUnsettled
<1>10. ClaimsAreOfSettled' BY <1>0, <1>3 DEF TrialInv, ClaimsAreOfSettled
<1>11. WhatIsNotWonIsLost'
  <2> SUFFICES ASSUME NEW a \in Settles PROVE WhatIsNotWonIsLost!(a)'
    BY DEF WhatIsNotWonIsLost
  <2>1. WhatIsNotWonIsLost!(a) BY <1>0 DEF TrialInv, WhatIsNotWonIsLost
  <2>2. CASE a = s BY <1>1, <1>2, <2>1, <2>2 DEF SameRequest, Works
  <2>3. CASE a # s BY <1>7, <2>1, <2>3 DEF Works
  <2> QED BY <2>2, <2>3
<1>12. LostToAClaim' BY <1>0, <1>3, <1>7 DEF TrialInv, LostToAClaim
<1>13. TrialsBegan'
  <2> SUFFICES ASSUME NEW a \in Settles, ~Works(a, "idle")'
               PROVE  /\ trial'[settle'[a].workspace] # "none"
                      /\ ~settle'[a].trialing => trial'[settle'[a].workspace] # "on"
                      /\ Works(a, "commit")' /\ settle'[a].lost
                           => trial'[settle'[a].workspace] # "on"
    BY DEF TrialsBegan
  <2>1. ~Works(a, "idle") BY <1>1, <1>7 DEF Works
  <2>2. settle[a].workspace \in Workspaces
    BY <1>0, <2>1, AtWork DEF Works, Request
  <2>3. TrialsBegan!(a) BY <1>0 DEF TrialInv, TrialsBegan
  <2>4. CASE a = s
    BY <1>2, <1>5, <1>6, <2>1, <2>2, <2>3, <2>4 DEF SameRequest
  <2>5. CASE a # s
    BY <1>5, <1>7, <2>1, <2>2, <2>3, <2>5 DEF Works
  <2> QED BY <2>4, <2>5
<1>14. TrialsHoldTheirKeys'
  BY <1>0, <1>3, <1>4, <1>5 DEF TrialInv, TrialTypeOK, TrialsHoldTheirKeys
<1> QED BY <1>8, <1>9, <1>10, <1>11, <1>12, <1>13, <1>14

\* The transaction commits: a trial that is still on has won every key it asked for.
LEMMA CommitStep ==
  ASSUME TrialInv, NEW s \in Settles, Commit(s)
  PROVE  /\ OneAtATime' /\ OpenIsUnsettled' /\ ClaimsAreOfSettled'
         /\ WhatIsNotWonIsLost' /\ LostToAClaim' /\ TrialsBegan' /\ TrialsHoldTheirKeys'
<1> DEFINE w == settle[s].workspace
<1>0. TrialInv /\ TrialTypeOK BY DEF TrialInv
<1>1. settle[s].step = "commit" /\ settle[s] \in Request /\ InTransaction(s)
  BY <1>0, AtWork DEF Commit, Works, InTransaction
<1>2. OthersStay(s) /\ settle'[s] = Resting BY <1>0, IsDone DEF Commit
<1>3. UNCHANGED <<trial, owner, card, page>> BY DEF Commit
<1>4. w \in Workspaces BY <1>1 DEF Request
<1>5. /\ DOMAIN taken' = DOMAIN taken \cup settle[s].won
      /\ \A k \in DOMAIN taken : taken'[k] = taken[k]
      /\ \A k \in settle[s].won : k \notin DOMAIN taken => taken'[k] = w
  BY DEF Commit, Claimed
<1>6. settled' = settled \cup {w} BY DEF Commit
<1>7. stands'[w] = KeysOf(s) /\ \A v \in Workspaces \ {w} : stands'[v] = stands[v]
  BY <1>0, <1>4 DEF Commit, TrialTypeOK
<1>8. \A t \in Settles \ {s} : /\ settle'[t] = settle[t]
                               /\ (InTransaction(t))' = InTransaction(t) /\ KeysOf(t)' = KeysOf(t)
  BY <1>2 DEF InTransaction, KeysOf, OthersStay
<1>9. ~InTransaction(s)' BY <1>2 DEF InTransaction, Resting
<1>10. \A t \in Settles \ {s} : InTransaction(t) =>
         /\ settle[t].workspace # w /\ settle[t].won \cap settle[s].won = {}
  BY <1>0, <1>1 DEF TrialInv, OneAtATime
<1>11. OneAtATime' BY <1>0, <1>8, <1>9 DEF TrialInv, OneAtATime
<1>12. OpenIsUnsettled'
  <2> SUFFICES ASSUME NEW a \in Settles, InTransaction(a)'
               PROVE  /\ settle'[a].workspace \notin settled'
                      /\ settle'[a].won \subseteq KeysOf(a)'
                      /\ settle'[a].won \cap DOMAIN taken' = {}
    BY DEF OpenIsUnsettled
  <2>1. a # s /\ InTransaction(a) BY <1>8, <1>9
  <2>2. /\ settle[a].workspace \notin settled
        /\ settle[a].won \subseteq KeysOf(a)
        /\ settle[a].won \cap DOMAIN taken = {}
    BY <1>0, <2>1 DEF TrialInv, OpenIsUnsettled
  <2> QED BY <1>5, <1>6, <1>8, <1>10, <2>1, <2>2
<1>13. ClaimsAreOfSettled'
  BY <1>0, <1>3, <1>5, <1>6 DEF TrialInv, ClaimsAreOfSettled
<1>14. WhatIsNotWonIsLost'
  BY <1>0, <1>2, <1>8 DEF TrialInv, WhatIsNotWonIsLost, Works, Resting
<1>15. LostToAClaim' BY <1>0, <1>5, <1>8, <1>9 DEF TrialInv, LostToAClaim
<1>16. TrialsBegan' BY <1>0, <1>2, <1>3, <1>8 DEF TrialInv, TrialsBegan, Works, Resting
<1>17. TrialsHoldTheirKeys'
  <2> SUFFICES ASSUME NEW v \in settled'
               PROVE  /\ trial[v] # "none"
                      /\ trial[v] = "on" => \A k \in stands'[v] : k \in DOMAIN taken' /\ taken'[k] = v
    BY <1>3 DEF TrialsHoldTheirKeys
  <2>1. CASE v = w
    <3>1. trial[w] # "none" /\ (settle[s].lost => trial[w] # "on")
      BY <1>0, <1>1 DEF TrialInv, TrialsBegan, Works
    <3>2. ~settle[s].lost => KeysOf(s) \subseteq settle[s].won
      BY <1>0, <1>1 DEF TrialInv, WhatIsNotWonIsLost, KeysOf
    <3>3. settle[s].won \cap DOMAIN taken = {}
      BY <1>0, <1>1 DEF TrialInv, OpenIsUnsettled
    <3> QED BY <1>5, <1>7, <2>1, <3>1, <3>2, <3>3
  <2>2. CASE v # w
    <3>1. v \in settled /\ v \in Workspaces BY <1>0, <1>6, <2>2 DEF TrialTypeOK
    <3> QED BY <1>0, <1>5, <1>7, <2>2, <3>1 DEF TrialInv, TrialsHoldTheirKeys
  <2> QED BY <2>1, <2>2
<1> QED BY <1>11, <1>12, <1>13, <1>14, <1>15, <1>16, <1>17

\* The backfill reads and claims for owners whose trials are settled.
LEMMA PageStep ==
  ASSUME TrialInv, ReadPage \/ ClaimPage
  PROVE  /\ OneAtATime' /\ OpenIsUnsettled' /\ ClaimsAreOfSettled'
         /\ WhatIsNotWonIsLost' /\ LostToAClaim' /\ TrialsBegan' /\ TrialsHoldTheirKeys'
<1>0. TrialInv /\ TrialTypeOK BY DEF TrialInv
<1>1. UNCHANGED <<trial, owner, card, settled, settle, stands>> BY DEF ReadPage, ClaimPage
<1>2. /\ DOMAIN taken \subseteq DOMAIN taken'
      /\ \A k \in DOMAIN taken : taken'[k] = taken[k]
      /\ \A k \in DOMAIN taken' : taken'[k] \in settled
      /\ \A k \in DOMAIN taken' \ DOMAIN taken : \A s \in Settles :
           InTransaction(s) => k \notin settle[s].won
      /\ \A p \in page' : p[1] \in settled
  <2>1. CASE ReadPage BY <1>0, <2>1 DEF ReadPage, TrialInv, ClaimsAreOfSettled
  <2>2. CASE ClaimPage
    <3>1. PICK maker \in [{p[2] : p \in page} -> Workspaces] :
            /\ \A m \in DOMAIN maker : <<maker[m], m>> \in page
            /\ taken' = [k \in DOMAIN taken \cup DOMAIN maker |->
                          IF k \in DOMAIN taken THEN taken[k] ELSE maker[k]]
      BY <2>2 DEF ClaimPage
    <3>2. \A k \in DOMAIN maker : maker[k] \in settled
      BY <1>0, <3>1 DEF TrialInv, ClaimsAreOfSettled
    <3>3. \A k \in DOMAIN maker, s \in Settles : InTransaction(s) => k \notin settle[s].won
      BY <2>2, <3>1 DEF ClaimPage
    <3>4. page' = {} BY <2>2 DEF ClaimPage
    <3> QED BY <1>0, <3>1, <3>2, <3>3, <3>4 DEF TrialInv, ClaimsAreOfSettled
  <2> QED BY <2>1, <2>2
<1>3. \A s \in Settles : (InTransaction(s))' = InTransaction(s) /\ KeysOf(s)' = KeysOf(s)
                        /\ \A step : Works(s, step)' = Works(s, step)
  BY <1>1 DEF InTransaction, KeysOf, Works
<1>4. OneAtATime' BY <1>0, <1>1, <1>3 DEF TrialInv, OneAtATime
<1>5. OpenIsUnsettled' BY <1>0, <1>1, <1>2, <1>3 DEF TrialInv, OpenIsUnsettled
<1>6. ClaimsAreOfSettled' BY <1>1, <1>2 DEF ClaimsAreOfSettled
<1>7. WhatIsNotWonIsLost' BY <1>0, <1>1 DEF TrialInv, WhatIsNotWonIsLost, Works
<1>8. LostToAClaim' BY <1>0, <1>1, <1>2, <1>3 DEF TrialInv, LostToAClaim
<1>9. TrialsBegan' BY <1>0, <1>1 DEF TrialInv, TrialsBegan, Works
<1>10. TrialsHoldTheirKeys' BY <1>0, <1>1, <1>2 DEF TrialInv, TrialsHoldTheirKeys
<1> QED BY <1>4, <1>5, <1>6, <1>7, <1>8, <1>9, <1>10
-----------------------------------------------------------------------------
(* The invariant, and what follows from it *)

LEMMA TrialInvStep == TrialInv /\ [TrialNext]_trialVars => TrialInv'
<1> SUFFICES ASSUME TrialInv, [TrialNext]_trialVars PROVE TrialInv'
  OBVIOUS
<1>0. TrialInv /\ TrialTypeOK BY DEF TrialInv
<1> DEFINE Kept == /\ OneAtATime' /\ OpenIsUnsettled' /\ ClaimsAreOfSettled'
                   /\ WhatIsNotWonIsLost' /\ LostToAClaim' /\ TrialsBegan'
                   /\ TrialsHoldTheirKeys'
<1>1. ASSUME UNCHANGED trialVars PROVE Kept
  BY <1>1, WorldStep DEF trialVars
<1>2. ASSUME NEW w \in Workspaces, TrialBegins(w) \/ TrialRunsOut(w) PROVE Kept
  <2>1. \A v \in Workspaces : \/ trial'[v] = trial[v]
                              \/ trial[v] = "none" /\ trial'[v] = "on"
                              \/ trial[v] = "on" /\ trial'[v] = "over"
    BY <1>0, <1>2 DEF TrialBegins, TrialRunsOut, TrialTypeOK
  <2> QED BY <1>2, <2>1, WorldStep DEF TrialBegins, TrialRunsOut
<1>3. ASSUME NEW w \in Workspaces, NEW m \in Mailboxes, OwnerMoves(w, m) PROVE Kept
  BY <1>3, WorldStep DEF OwnerMoves
<1>4. ASSUME NEW s \in Settles, NEW w \in Workspaces, BeginSettle(s, w) PROVE Kept
  <2>1. /\ settle'[s].step = "lock" /\ settle'[s].won = {} /\ settle'[s].lost = FALSE
        /\ settle'[s].workspace = w /\ settle'[s].trialing = (trial[w] = "on")
        /\ OthersStay(s)
    BY <1>0, <1>4 DEF BeginSettle, TrialTypeOK, OthersStay
  <2>2. ~InTransaction(s)' BY <2>1 DEF InTransaction
  <2> QED BY <1>4, <2>1, <2>2, RestStep DEF BeginSettle
<1>5. ASSUME NEW s \in Settles, Lock(s) PROVE Kept
  <2>1. CASE settle[s].workspace \in settled
    <3>1. OthersStay(s) /\ settle'[s] = Resting BY <1>0, <1>5, <2>1, IsDone DEF Lock
    <3>2. settle'[s].step = "idle" /\ ~InTransaction(s)' BY <3>1 DEF Resting, InTransaction
    <3> QED BY <1>5, <3>1, <3>2, RestStep DEF Lock
  <2>2. CASE settle[s].workspace \notin settled BY <1>5, <2>2, LockStep
  <2> QED BY <2>1, <2>2
<1>6. ASSUME NEW s \in Settles, ClaimMailbox(s) \/ ClaimCard(s) PROVE Kept
  BY <1>6, ClaimStep
<1>7. ASSUME NEW s \in Settles, EndTrial(s) PROVE Kept BY <1>7, EndStep
<1>8. ASSUME NEW s \in Settles, Commit(s) PROVE Kept BY <1>8, CommitStep
<1>9. ASSUME NEW s \in Settles, RollBack(s) PROVE Kept
  <2>1. OthersStay(s) /\ settle'[s] = Resting BY <1>0, <1>9, IsDone DEF RollBack
  <2>2. settle'[s].step = "idle" /\ ~InTransaction(s)' BY <2>1 DEF Resting, InTransaction
  <2> QED BY <1>9, <2>1, <2>2, RestStep DEF RollBack
<1>10. ASSUME ReadPage \/ ClaimPage PROVE Kept BY <1>10, PageStep
<1> HIDE DEF Kept
<1>11. Kept
  BY <1>1, <1>2, <1>3, <1>4, <1>5, <1>6, <1>7, <1>8, <1>9, <1>10 DEF TrialNext
<1> QED BY <1>0, <1>11, TrialTypeStep DEF Kept, TrialInv

LEMMA TrialInvInit == TrialInit => TrialInv
<1> SUFFICES ASSUME TrialInit PROVE TrialInv
  OBVIOUS
<1>1. TrialTypeOK
  BY DEF TrialInit, TrialTypeOK, SettleType, Resting
<1>2. \A s \in Settles : settle[s].step = "idle" BY DEF TrialInit, Resting
<1> QED
  BY <1>1, <1>2 DEF TrialInit, TrialInv, OneAtATime, OpenIsUnsettled, ClaimsAreOfSettled,
     WhatIsNotWonIsLost, LostToAClaim, TrialsBegan, TrialsHoldTheirKeys, InTransaction, Works

\* The inductive invariant holds in every state, for any number of workspaces, keys and
\* settlements.
THEOREM TrialInvHolds == TrialSpec => []TrialInv
BY TrialInvInit, TrialInvStep, PTL DEF TrialSpec

\* Every variable keeps its type.
THEOREM TrialTypes == TrialSpec => []TrialTypeOK
<1>1. TrialInv => TrialTypeOK BY DEF TrialInv
<1> QED BY <1>1, TrialInvHolds, PTL

\* A mailbox and a card get one trial each: no two settled trials that still run share
\* a key (trial-starts.ts settle and trial-claims.ts insert, beside the backfill).
THEOREM KeysAreForOneTrial == TrialSpec => []OneTrialPerKey
<1>1. TrialInv => OneTrialPerKey
  <2> SUFFICES ASSUME TrialInv, NEW v \in settled, NEW w \in settled, v # w,
                      trial[v] = "on", trial[w] = "on"
               PROVE  stands[v] \cap stands[w] = {}
    BY DEF OneTrialPerKey
  <2>1. /\ \A k \in stands[v] : taken[k] = v
        /\ \A k \in stands[w] : taken[k] = w
    BY DEF TrialInv, TrialsHoldTheirKeys
  <2> QED BY <2>1
<1> QED BY <1>1, TrialInvHolds, PTL

\* A trial is ended only for a mailbox or a card recorded for another workspace, also by
\* the retry of a settlement that was rolled back (trial-starts.ts endTrial).
THEOREM TrialsEndForAnother == TrialSpec => EndsOnlyForAnother
<1> DEFINE Ends(w) == trial[w] # "ended" /\ trial'[w] = "ended" =>
             \E s \in Settles : settle[s].step = "end" /\ settle[s].workspace = w
               /\ \E k \in KeysOf(s) \cap DOMAIN taken : taken[k] # w
<1>1. TrialInv /\ [TrialNext]_trialVars => [\A w \in Workspaces : Ends(w)]_trialVars
  <2> SUFFICES ASSUME TrialInv, TrialNext, NEW w \in Workspaces,
                      trial[w] # "ended", trial'[w] = "ended"
               PROVE  \E s \in Settles : settle[s].step = "end" /\ settle[s].workspace = w
                        /\ \E k \in KeysOf(s) \cap DOMAIN taken : taken[k] # w
    BY DEF trialVars
  <2>0. TrialInv /\ TrialTypeOK BY DEF TrialInv
  <2>1. ASSUME NEW v \in Workspaces, TrialBegins(v) \/ TrialRunsOut(v) PROVE FALSE
    BY <2>0, <2>1 DEF TrialBegins, TrialRunsOut, TrialTypeOK
  <2>2. PICK s \in Settles : EndTrial(s)
    BY <2>0, <2>1 DEF TrialNext, OwnerMoves, BeginSettle, Lock, ClaimMailbox, ClaimCard,
       ClaimKey, Commit, RollBack, ReadPage, ClaimPage
  <2>3. /\ settle[s].step = "end" /\ InTransaction(s)
        /\ settle[s].lost /\ settle[s].workspace = w
    BY <2>0, <2>2 DEF EndTrial, Works, InTransaction, TrialTypeOK
  <2>4. PICK k \in KeysOf(s) \cap DOMAIN taken : TRUE
    BY <2>0, <2>3 DEF TrialInv, LostToAClaim
  <2>5. taken[k] \in settled /\ w \notin settled
    BY <2>0, <2>3, <2>4 DEF TrialInv, ClaimsAreOfSettled, OpenIsUnsettled
  <2> QED BY <2>3, <2>4, <2>5
<1> QED BY <1>1, TrialInvHolds, PTL DEF TrialSpec, EndsOnlyForAnother
-----------------------------------------------------------------------------
(* The settlements implement TrialPromise *)

\* A key a settlement has asked for is won, or recorded before: nothing is given back.
AskedAreKept == \A s \in Settles :
  /\ settle[s].step \in {"card", "end", "commit"} =>
       settle[s].mailbox \in settle[s].won \cup {NoKey} \cup DOMAIN taken
  /\ settle[s].step \in {"end", "commit"} =>
       settle[s].card \in settle[s].won \cup {NoKey} \cup DOMAIN taken

\* What one step does to AskedAreKept, seen from a single settlement.
LEMMA AskedStay ==
  ASSUME TrialTypeOK, AskedAreKept, TrialNext, NEW s \in Settles
  PROVE  AskedAreKept!(s)'
<1>0. AskedAreKept!(s) BY DEF AskedAreKept
<1>1. DOMAIN taken \subseteq DOMAIN taken'
  BY DEF TrialNext, TrialBegins, TrialRunsOut, OwnerMoves, BeginSettle, Lock, ClaimMailbox,
     ClaimCard, ClaimKey, EndTrial, Commit, Claimed, RollBack, ReadPage, ClaimPage
<1>2. CASE settle'[s] = settle[s] BY <1>0, <1>1, <1>2
<1>3. ASSUME NEW t \in Settles, t # s, OthersStay(t) PROVE AskedAreKept!(s)'
  <2>1. settle'[s] = settle[s] BY <1>3 DEF OthersStay
  <2> QED BY <2>1, <1>2
<1>4. ASSUME NEW t \in Settles, NEW w \in Workspaces, BeginSettle(t, w) PROVE AskedAreKept!(s)'
  <2>1. OthersStay(t) /\ settle'[t].step = "lock" BY <1>4 DEF BeginSettle, TrialTypeOK, OthersStay
  <2> QED BY <1>3, <2>1
<1>5. ASSUME NEW t \in Settles, Lock(t) PROVE AskedAreKept!(s)'
  <2>1. OthersStay(t) /\ settle'[t].step \in {"idle", "mailbox"}
    BY <1>5, GoesOn, IsDone DEF Lock, Works, Resting
  <2> QED BY <1>3, <2>1
<1>6. ASSUME NEW t \in Settles, ClaimMailbox(t) PROVE AskedAreKept!(s)'
  <2>1. settle[t].mailbox \in Keys \cup {NoKey} /\ settle[t].step # "idle"
    BY <1>6, AtWork DEF ClaimMailbox, Works, Request, Keys
  <2>2. /\ OthersStay(t) /\ SameRequest(t) /\ settle'[t].step = "card"
        /\ settle'[t].won = IF settle[t].mailbox = NoKey \/ settle[t].mailbox \in DOMAIN taken
                              THEN settle[t].won ELSE settle[t].won \cup {settle[t].mailbox}
    BY <1>6, <2>1, ClaimsAKey DEF ClaimMailbox
  <2>3. CASE t = s BY <1>1, <2>2, <2>3 DEF SameRequest
  <2> QED BY <1>3, <2>2, <2>3
<1>7. ASSUME NEW t \in Settles, ClaimCard(t) PROVE AskedAreKept!(s)'
  <2>1. settle[t].card \in Keys \cup {NoKey} /\ settle[t].step = "card"
    BY <1>7, AtWork DEF ClaimCard, Works, Request, Keys
  <2>2. /\ OthersStay(t) /\ SameRequest(t) /\ settle'[t].step = "end"
        /\ settle'[t].won = IF settle[t].card = NoKey \/ settle[t].card \in DOMAIN taken
                              THEN settle[t].won ELSE settle[t].won \cup {settle[t].card}
    BY <1>7, <2>1, ClaimsAKey DEF ClaimCard
  <2>3. CASE t = s BY <1>0, <1>1, <2>1, <2>2, <2>3 DEF SameRequest
  <2> QED BY <1>3, <2>2, <2>3
<1>8. ASSUME NEW t \in Settles, EndTrial(t) PROVE AskedAreKept!(s)'
  <2>1. settle[t].step = "end" BY <1>8 DEF EndTrial, Works
  <2>2. /\ OthersStay(t) /\ SameRequest(t) /\ settle'[t].step = "commit"
        /\ settle'[t].won = settle[t].won
    BY <1>8, <2>1, GoesOn DEF EndTrial
  <2>3. CASE t = s BY <1>0, <1>1, <2>1, <2>2, <2>3 DEF SameRequest
  <2> QED BY <1>3, <2>2, <2>3
<1>9. ASSUME NEW t \in Settles, Commit(t) \/ RollBack(t) PROVE AskedAreKept!(s)'
  <2>1. OthersStay(t) /\ settle'[t].step = "idle"
    BY <1>9, IsDone DEF Commit, RollBack, Resting
  <2> QED BY <1>3, <2>1
<1>10. ASSUME UNCHANGED settle PROVE AskedAreKept!(s)' BY <1>2, <1>10
<1> QED
  BY <1>4, <1>5, <1>6, <1>7, <1>8, <1>9, <1>10
  DEF TrialNext, TrialBegins, TrialRunsOut, OwnerMoves, ReadPage, ClaimPage

LEMMA AskedHold == TrialSpec => [](TrialInv /\ AskedAreKept)
<1>1. TrialInit => AskedAreKept BY DEF TrialInit, Resting, AskedAreKept
<1>2. TrialInv /\ AskedAreKept /\ [TrialNext]_trialVars => AskedAreKept'
  <2> SUFFICES ASSUME TrialInv, AskedAreKept, [TrialNext]_trialVars PROVE AskedAreKept'
    OBVIOUS
  <2>1. CASE TrialNext
    <3>1. TrialTypeOK BY DEF TrialInv
    <3> QED BY <2>1, <3>1, AskedStay DEF AskedAreKept
  <2>2. CASE UNCHANGED trialVars BY <2>2 DEF trialVars, AskedAreKept
  <2> QED BY <2>1, <2>2
<1> QED BY <1>1, <1>2, TrialInvHolds, PTL DEF TrialSpec

\* Stripe is asked to end a trial: the key that was met is another's.
LEMMA EndCutsShort ==
  ASSUME TrialInv, NEW s \in Settles, EndTrial(s)
  PROVE  \/ \E w \in Workspaces : TrialsPromised!CutShort(w)
         \/ UNCHANGED <<trial, taken, settled, stands>>
<1> DEFINE w == settle[s].workspace
<1>0. TrialInv /\ TrialTypeOK BY DEF TrialInv
<1>1. settle[s].step = "end" /\ settle[s] \in Request /\ InTransaction(s)
  BY <1>0, AtWork DEF EndTrial, Works, InTransaction
<1>2. UNCHANGED <<taken, settled, stands>> BY DEF EndTrial
<1>3. CASE settle[s].lost /\ settle[s].trialing /\ trial[w] = "on"
  <2>1. PICK k \in DOMAIN taken : TRUE BY <1>0, <1>1, <1>3 DEF TrialInv, LostToAClaim
  <2>2. taken[k] \in settled /\ w \notin settled /\ w \in Workspaces
    BY <1>0, <1>1 DEF TrialInv, ClaimsAreOfSettled, OpenIsUnsettled, Request
  <2>3. trial' = [trial EXCEPT ![w] = "ended"] BY <1>3 DEF EndTrial
  <2>4. TrialsPromised!CutShort(w)
    BY <1>2, <1>3, <2>1, <2>2, <2>3 DEF TrialsPromised!CutShort, TrialsPromised!Turns
  <2> QED BY <2>2, <2>4
<1>4. CASE ~(settle[s].lost /\ settle[s].trialing /\ trial[w] = "on")
  BY <1>2, <1>4 DEF EndTrial
<1> QED BY <1>3, <1>4

\* A commit is the one step in which others see the settlement.
LEMMA CommitSettles ==
  ASSUME TrialInv, AskedAreKept, NEW s \in Settles, Commit(s)
  PROVE  \E w \in Workspaces : TrialsPromised!Settle(w)
<1> DEFINE w == settle[s].workspace
           keys == KeysOf(s)
<1>0. TrialInv /\ TrialTypeOK BY DEF TrialInv
<1>1. settle[s].step = "commit" /\ settle[s] \in Request /\ InTransaction(s)
  BY <1>0, AtWork DEF Commit, Works, InTransaction
<1>2. w \in Workspaces /\ keys \in SUBSET Keys BY <1>1 DEF Request, KeysOf, Keys
<1>3. w \notin settled /\ settle[s].won \subseteq keys /\ settle[s].won \cap DOMAIN taken = {}
  BY <1>0, <1>1 DEF TrialInv, OpenIsUnsettled
<1>4. trial[w] # "none" /\ (settle[s].lost => trial[w] # "on")
  BY <1>0, <1>1 DEF TrialInv, TrialsBegan, Works
<1>5. trial[w] = "on" => keys \cap DOMAIN taken = {}
  <2>1. ~settle[s].lost => keys \subseteq settle[s].won
    BY <1>0, <1>1 DEF TrialInv, WhatIsNotWonIsLost, KeysOf
  <2> QED BY <1>3, <1>4, <2>1
<1>6. DOMAIN taken \cup keys = DOMAIN taken \cup settle[s].won
  <2>1. keys \subseteq settle[s].won \cup DOMAIN taken
    BY <1>1 DEF AskedAreKept, KeysOf
  <2> QED BY <1>3, <2>1
<1>7. TrialsPromised!Record(keys, [k \in keys |-> w])
  <2>1. taken' = [k \in DOMAIN taken \cup settle[s].won |->
                    IF k \in DOMAIN taken THEN taken[k] ELSE w]
    BY DEF Commit, Claimed
  <2>2. \A k \in DOMAIN taken \cup keys :
          (IF k \in DOMAIN taken THEN taken[k] ELSE w)
            = (IF k \in DOMAIN taken THEN taken[k] ELSE [j \in keys |-> w][k])
    OBVIOUS
  <2> QED BY <1>6, <2>1, <2>2 DEF TrialsPromised!Record
<1>8. /\ settled' = settled \cup {w} /\ UNCHANGED trial
      /\ stands' = [stands EXCEPT ![w] = keys]
  BY DEF Commit
<1>9. TrialsPromised!Settle(w)
  BY <1>2, <1>3, <1>4, <1>5, <1>7, <1>8 DEF TrialsPromised!Settle
<1> QED BY <1>2, <1>9

\* The page at startup claims for owners whose trials are settled.
LEMMA PageBackfills ==
  ASSUME TrialInv, ClaimPage
  PROVE  TrialsPromised!Backfill
<1>1. PICK maker \in [{p[2] : p \in page} -> Workspaces] :
        /\ \A m \in DOMAIN maker : <<maker[m], m>> \in page
        /\ taken' = [k \in DOMAIN taken \cup DOMAIN maker |->
                       IF k \in DOMAIN taken THEN taken[k] ELSE maker[k]]
  BY DEF ClaimPage
<1> DEFINE keys == {p[2] : p \in page}
<1>2. DOMAIN maker = keys /\ \A m \in keys : maker[m] \in settled
  BY <1>1 DEF TrialInv, ClaimsAreOfSettled
<1>3. keys \in SUBSET Keys BY DEF TrialInv, TrialTypeOK, Keys
<1>4. maker \in [keys -> settled] BY <1>1, <1>2
<1>5. settled # {} BY DEF ClaimPage, TrialInv, ClaimsAreOfSettled
<1>6. TrialsPromised!Record(keys, maker) BY <1>1, <1>2 DEF TrialsPromised!Record
<1> HIDE DEF keys
<1>7. UNCHANGED <<trial, settled, stands>> BY DEF ClaimPage
<1> QED BY <1>3, <1>4, <1>5, <1>6, <1>7 DEF TrialsPromised!Backfill

\* Each step of the settlements is a step of TrialPromise, or one that nobody sees: a
\* settlement takes effect at its commit, all at once, whatever overlaps it and however
\* often it was rolled back before.
THEOREM TrialsImplementPromise == TrialSpec => SettlesAtOnce
<1>1. TrialInit => TrialsPromised!Start BY DEF TrialInit, TrialsPromised!Start
<1>2. TrialInv /\ AskedAreKept /\ [TrialNext]_trialVars
        => [TrialsPromised!Advance]_(TrialsPromised!promiseVars)
  <2> SUFFICES ASSUME TrialInv, AskedAreKept, [TrialNext]_trialVars
               PROVE  TrialsPromised!Advance \/ UNCHANGED <<trial, taken, settled, stands>>
    BY DEF TrialsPromised!promiseVars
  <2>1. ASSUME NEW w \in Workspaces, TrialBegins(w) \/ TrialRunsOut(w)
        PROVE  TrialsPromised!Begin(w) \/ TrialsPromised!RunOut(w)
    BY <2>1 DEF TrialBegins, TrialRunsOut, TrialsPromised!Begin, TrialsPromised!RunOut,
      TrialsPromised!Turns
  <2>2. ASSUME NEW s \in Settles, EndTrial(s)
        PROVE  \/ \E w \in Workspaces : TrialsPromised!CutShort(w)
               \/ UNCHANGED <<trial, taken, settled, stands>>
    BY <2>2, EndCutsShort
  <2>3. ASSUME NEW s \in Settles, Commit(s)
        PROVE  \E w \in Workspaces : TrialsPromised!Settle(w)
    BY <2>3, CommitSettles
  <2>4. ASSUME ClaimPage PROVE TrialsPromised!Backfill BY <2>4, PageBackfills
  <2>5. ASSUME \/ UNCHANGED trialVars \/ ReadPage
               \/ \E w \in Workspaces, m \in Mailboxes : OwnerMoves(w, m)
               \/ \E s \in Settles : \/ \E w \in Workspaces : BeginSettle(s, w)
                                     \/ Lock(s) \/ ClaimMailbox(s) \/ ClaimCard(s) \/ RollBack(s)
        PROVE  UNCHANGED <<trial, taken, settled, stands>>
    BY <2>5 DEF trialVars, ReadPage, OwnerMoves, BeginSettle, Lock, ClaimMailbox, ClaimCard,
      ClaimKey, RollBack
  <2> QED BY <2>1, <2>2, <2>3, <2>4, <2>5 DEF TrialNext, TrialsPromised!Advance
<1> QED
  BY <1>1, <1>2, AskedHold, PTL DEF TrialSpec, SettlesAtOnce, TrialsPromised!Promise

\* A settled trial that still runs has every key it asked for recorded for itself.
PromisedInv ==
  /\ settled \subseteq Workspaces /\ stands \in [Workspaces -> SUBSET Keys]
  /\ DOMAIN trial = Workspaces
  /\ \A w \in settled : trial[w] # "none"
       /\ (trial[w] = "on" => \A k \in stands[w] : k \in DOMAIN taken /\ taken[k] = w)

\* What the abstract module says is enough for what customers are promised: there too
\* no two settled trials that still run share a mailbox or a card (trial-starts.ts settle).
THEOREM PromiseIsEnough == TrialsPromised!Promise => []OneTrialPerKey
<1> USE DEF TrialsPromised!Turns, TrialsPromised!Record
<1>1. TrialsPromised!Start => PromisedInv BY DEF TrialsPromised!Start, PromisedInv
<1>2. PromisedInv /\ [TrialsPromised!Advance]_(TrialsPromised!promiseVars) => PromisedInv'
  <2> SUFFICES ASSUME PromisedInv, [TrialsPromised!Advance]_(TrialsPromised!promiseVars)
               PROVE  PromisedInv'
    OBVIOUS
  <2>1. CASE UNCHANGED TrialsPromised!promiseVars
    BY <2>1 DEF PromisedInv, TrialsPromised!promiseVars
  <2>2. ASSUME NEW w \in Workspaces,
               TrialsPromised!Begin(w) \/ TrialsPromised!RunOut(w) \/ TrialsPromised!CutShort(w)
        PROVE  PromisedInv'
    BY <2>2 DEF PromisedInv, TrialsPromised!Begin, TrialsPromised!RunOut, TrialsPromised!CutShort
  <2>3. ASSUME NEW w \in Workspaces, TrialsPromised!Settle(w) PROVE PromisedInv'
    <3>1. PICK keys \in SUBSET Keys :
            /\ trial[w] = "on" => keys \cap DOMAIN taken = {}
            /\ TrialsPromised!Record(keys, [k \in keys |-> w])
            /\ stands' = [stands EXCEPT ![w] = keys]
      BY <2>3 DEF TrialsPromised!Settle
    <3>2. settled' = settled \cup {w} /\ UNCHANGED trial /\ trial[w] # "none" /\ w \notin settled
      BY <2>3 DEF TrialsPromised!Settle
    <3>3. /\ DOMAIN taken' = DOMAIN taken \cup keys
          /\ \A k \in DOMAIN taken : taken'[k] = taken[k]
          /\ \A k \in keys : k \notin DOMAIN taken => taken'[k] = w
      BY <3>1
    <3>4. stands' \in [Workspaces -> SUBSET Keys] /\ stands'[w] = keys
          /\ \A v \in Workspaces \ {w} : stands'[v] = stands[v]
      BY <3>1 DEF PromisedInv
    <3> QED BY <3>1, <3>2, <3>3, <3>4 DEF PromisedInv
  <2>4. CASE TrialsPromised!Backfill
    <3>1. /\ DOMAIN taken \subseteq DOMAIN taken'
          /\ \A k \in DOMAIN taken : taken'[k] = taken[k]
          /\ UNCHANGED <<trial, settled, stands>>
      BY <2>4 DEF TrialsPromised!Backfill
    <3> QED BY <3>1 DEF PromisedInv
  <2> QED BY <2>1, <2>2, <2>3, <2>4 DEF TrialsPromised!Advance
<1>3. PromisedInv => OneTrialPerKey
  <2> SUFFICES ASSUME PromisedInv, NEW v \in settled, NEW w \in settled, v # w,
                      trial[v] = "on", trial[w] = "on"
               PROVE  stands[v] \cap stands[w] = {}
    BY DEF OneTrialPerKey
  <2>1. (\A k \in stands[v] : taken[k] = v) /\ (\A k \in stands[w] : taken[k] = w)
    BY DEF PromisedInv
  <2> QED BY <2>1
<1> QED BY <1>1, <1>2, <1>3, PTL DEF TrialsPromised!Promise
=============================================================================
