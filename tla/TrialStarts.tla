----------------------------- MODULE TrialStarts -----------------------------
(***************************************************************************)
(* One trial per mailbox and per card (apps/api/src/billing/trial-starts.ts *)
(* and auth/trial-claims.ts).  The webhook and the reconciler settle a      *)
(* trial that started: in one transaction, under a lock of the workspace,   *)
(* they claim the owner's mailbox and the card, end the trial at Stripe if  *)
(* a claim is lost, and record the settlement.  The transaction may be      *)
(* rolled back at any point, also after Stripe answered, and is retried.    *)
(***************************************************************************)
EXTENDS Naturals, FiniteSets

CONSTANTS Workspaces,
          Mailboxes, Cards,  \* what a trial claims
          Settles,           \* calls of settle
          NoKey              \* no owner, or a payment method that is not a card

ASSUME TrialAssumption == NoKey \notin Mailboxes \cup Cards

VARIABLES
  trial,      \* the trial of the workspace's subscription at Stripe
  owner,      \* the mailbox of the workspace's owner
  card,       \* the card of its subscription
  settled,    \* workspaces with a trialClaimedAt
  taken,      \* the committed TrialClaim rows, with the workspace each was made for
  settle,     \* the steps of the calls of settle
  page,       \* owners the backfill at startup has read and not yet claimed for
  stands      \* history: the keys a committed settlement asked for

trialVars == <<trial, owner, card, settled, taken, settle, page, stands>>

Keys == Mailboxes \cup Cards
Resting == [step |-> "idle"]
Works(s, step) == settle[s].step = step

TrialInit ==
  /\ trial = [w \in Workspaces |-> "none"]
  /\ owner \in [Workspaces -> Mailboxes \cup {NoKey}]
  /\ card \in [Workspaces -> Cards \cup {NoKey}]
  /\ settled = {} /\ taken = [k \in {} |-> NoKey]
  /\ settle = [s \in Settles |-> Resting]
  /\ page = {}
  /\ stands = [w \in Workspaces |-> {}]
-----------------------------------------------------------------------------
(* Stripe and the users *)

TrialBegins(w) ==
  /\ trial[w] = "none"
  /\ trial' = [trial EXCEPT ![w] = "on"]
  /\ UNCHANGED <<owner, card, settled, taken, settle, page, stands>>

\* Day seven, or the customer cancels.
TrialRunsOut(w) ==
  /\ trial[w] = "on"
  /\ trial' = [trial EXCEPT ![w] = "over"]
  /\ UNCHANGED <<owner, card, settled, taken, settle, page, stands>>

OwnerMoves(w, m) ==
  /\ owner' = [owner EXCEPT ![w] = m]
  /\ UNCHANGED <<trial, card, settled, taken, settle, page, stands>>
-----------------------------------------------------------------------------
(* settle *)

BeginSettle(s, w) ==
  /\ Works(s, "idle") /\ trial[w] # "none" /\ w \notin settled
  /\ settle' = [settle EXCEPT ![s] =
       [step |-> "lock", workspace |-> w, mailbox |-> owner[w], card |-> card[w],
        trialing |-> trial[w] = "on", won |-> {}, lost |-> FALSE]]
  /\ UNCHANGED <<trial, owner, card, settled, taken, page, stands>>

InTransaction(s) == settle[s].step \in {"mailbox", "card", "end", "commit"}
Locked(w) == \E s \in Settles : InTransaction(s) /\ settle[s].workspace = w
Goes(s, step) == settle' = [settle EXCEPT ![s].step = step]
Done(s) == settle' = [settle EXCEPT ![s] = Resting]

\* Mutant of Lock: the workspace is not read again under the lock.
LockWithoutReading(s) ==
  /\ Works(s, "lock") /\ ~Locked(settle[s].workspace)
  /\ Goes(s, "mailbox")
  /\ UNCHANGED <<trial, owner, card, settled, taken, page, stands>>

Lock(s) ==
  /\ Works(s, "lock") /\ ~Locked(settle[s].workspace)
  /\ IF settle[s].workspace \in settled THEN Done(s) ELSE Goes(s, "mailbox")
  /\ UNCHANGED <<trial, owner, card, settled, taken, page, stands>>

\* An insert waits for the transaction that has inserted the key.
Contested(s, k) == \E t \in Settles \ {s} : InTransaction(t) /\ k \in settle[t].won

\* Mutant of ClaimKey: it looks for the claim first and does not wait for others.
LookThenClaim(s, k, next) ==
  /\ settle' = [settle EXCEPT
       ![s].step = next,
       ![s].won = IF k = NoKey \/ k \in DOMAIN taken THEN @ ELSE @ \cup {k},
       ![s].lost = @ \/ k \in DOMAIN taken]
  /\ UNCHANGED <<trial, owner, card, settled, taken, page, stands>>

ClaimKey(s, k, next) ==
  /\ ~Contested(s, k)
  /\ settle' = [settle EXCEPT
       ![s].step = next,
       ![s].won = IF k = NoKey \/ k \in DOMAIN taken THEN @ ELSE @ \cup {k},
       ![s].lost = @ \/ k \in DOMAIN taken]
  /\ UNCHANGED <<trial, owner, card, settled, taken, page, stands>>

ClaimMailbox(s) == Works(s, "mailbox") /\ ClaimKey(s, settle[s].mailbox, "card")
ClaimCard(s) == Works(s, "card") /\ ClaimKey(s, settle[s].card, "end")

\* endTrial: Stripe is asked while the transaction is open.
EndTrial(s) ==
  /\ Works(s, "end") /\ Goes(s, "commit")
  /\ trial' = IF settle[s].lost /\ settle[s].trialing /\ trial[settle[s].workspace] = "on"
                THEN [trial EXCEPT ![settle[s].workspace] = "ended"] ELSE trial
  /\ UNCHANGED <<owner, card, settled, taken, page, stands>>

KeysOf(s) == {settle[s].mailbox, settle[s].card} \ {NoKey}

\* Rows are kept for good: what is claimed is never given back.
Claimed(keys, w) ==
  taken' = [k \in DOMAIN taken \cup keys |-> IF k \in DOMAIN taken THEN taken[k] ELSE w]

\* markSettled, and the commit.
Commit(s) ==
  /\ Works(s, "commit") /\ Done(s)
  /\ Claimed(settle[s].won, settle[s].workspace)
  /\ settled' = settled \cup {settle[s].workspace}
  /\ stands' = [stands EXCEPT ![settle[s].workspace] = KeysOf(s)]
  /\ UNCHANGED <<trial, owner, card, page>>

\* Mutant of RollBack: the claims are made outside the transaction.
RollBackKeepingClaims(s) ==
  /\ InTransaction(s) /\ Done(s)
  /\ Claimed(settle[s].won, settle[s].workspace)
  /\ UNCHANGED <<trial, owner, card, settled, page, stands>>

\* A failing Stripe, a timeout, a crash: nothing was claimed, the trial may have ended.
RollBack(s) ==
  /\ InTransaction(s) /\ Done(s)
  /\ UNCHANGED <<trial, owner, card, settled, taken, page, stands>>
-----------------------------------------------------------------------------
(* TrialClaimBackfill at startup, one page at a time *)

ReadPage ==
  /\ page = {}
  /\ page' = {<<w, owner[w]>> : w \in {v \in settled : owner[v] # NoKey}}
  /\ UNCHANGED <<trial, owner, card, settled, taken, settle, stands>>

ClaimPage ==
  /\ page # {}
  /\ \A p \in page, s \in Settles : ~(InTransaction(s) /\ p[2] \in settle[s].won)
  /\ page' = {}
  /\ \E maker \in [{p[2] : p \in page} -> Workspaces] :
       /\ \A m \in DOMAIN maker : <<maker[m], m>> \in page
       /\ taken' = [k \in DOMAIN taken \cup DOMAIN maker |->
                      IF k \in DOMAIN taken THEN taken[k] ELSE maker[k]]
  /\ UNCHANGED <<trial, owner, card, settled, settle, stands>>

TrialNext ==
  \/ \E w \in Workspaces :
       \/ TrialBegins(w) \/ TrialRunsOut(w)
       \/ \E m \in Mailboxes : OwnerMoves(w, m)
  \/ \E s \in Settles :
       \/ \E w \in Workspaces : BeginSettle(s, w)
       \/ Lock(s) \/ ClaimMailbox(s) \/ ClaimCard(s) \/ EndTrial(s) \/ Commit(s) \/ RollBack(s)
  \/ ReadPage \/ ClaimPage

TrialSpec == TrialInit /\ [][TrialNext]_trialVars
-----------------------------------------------------------------------------
(* Types *)

Request ==
  [step : {"lock", "mailbox", "card", "end", "commit"}, workspace : Workspaces,
   mailbox : Mailboxes \cup {NoKey}, card : Cards \cup {NoKey}, trialing : BOOLEAN,
   won : SUBSET Keys, lost : BOOLEAN]
SettleType == {Resting} \cup Request

\* Every variable holds a value of its type.
TrialTypeOK ==
  /\ trial \in [Workspaces -> {"none", "on", "over", "ended"}]
  /\ owner \in [Workspaces -> Mailboxes \cup {NoKey}]
  /\ card \in [Workspaces -> Cards \cup {NoKey}]
  /\ settled \subseteq Workspaces
  /\ DOMAIN taken \subseteq Keys /\ taken \in [DOMAIN taken -> Workspaces]
  /\ settle \in [Settles -> SettleType]
  /\ page \subseteq Workspaces \X Mailboxes
  /\ stands \in [Workspaces -> SUBSET Keys]
-----------------------------------------------------------------------------
(* Safety *)

\* A mailbox gets one trial, and so does a card: of two workspaces whose trials are
\* settled and still running none used a mailbox or a card of the other's, however
\* their settlements, their rollbacks and the backfill overlap.
OneTrialPerKey == \A v, w \in settled :
  v # w /\ trial[v] = "on" /\ trial[w] = "on" => stands[v] \cap stands[w] = {}

\* Nobody loses a trial to itself: a trial is ended only while its mailbox or its card
\* is recorded for another workspace, also when the settlement is a retry of one that
\* had claimed and was rolled back.
EndsOnlyForAnother ==
  [][\A w \in Workspaces : trial[w] # "ended" /\ trial'[w] = "ended" =>
       \E s \in Settles : settle[s].step = "end" /\ settle[s].workspace = w
         /\ \E k \in KeysOf(s) \cap DOMAIN taken : taken[k] # w]_trialVars
-----------------------------------------------------------------------------
(* Refinement *)

TrialsPromised == INSTANCE TrialPromise

\* However settlements overlap, are rolled back and repeated: what others see is that
\* each was settled at once, at its commit, and lost its trial only to another's key.
SettlesAtOnce == TrialsPromised!Promise
=============================================================================
