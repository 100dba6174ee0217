----------------------------- MODULE EmailAlert -----------------------------
(***************************************************************************)
(* The recipients of email alerts (apps/api/src/alerts): an alert mails an *)
(* address only once its owner confirmed it from a link, or as a verified  *)
(* member of the workspace.  Calls of the api create alerts, change their  *)
(* address and send confirmation mails; recipients press the links in      *)
(* them, one that confirms and one that stops the alert.  One action per   *)
(* awaited call or transaction.                                            *)
(*                                                                         *)
(* Instants matter as identities (a link is signed with the instant its    *)
(* mail was reserved at), so they are numbered as they are taken, and a    *)
(* link may expire or be pressed at any time.  The model spans one day of  *)
(* the mail allowances.                                                    *)
(***************************************************************************)
EXTENDS Naturals, FiniteSets

CONSTANTS Alerts,         \* rows of EmailAlert; an id is never used again
          Addresses,
          Calls,          \* api calls that may send a confirmation mail
          Presses,        \* requests that follow a link
          MaxWaiting,     \* MAX_UNCONFIRMED_EMAIL_ALERTS
          MailsPerDay,    \* CONFIRMATIONS_PER_RECIPIENT_PER_DAY
          MaxStamps       \* bound on the instants taken

ASSUME MailAssumption == IsFiniteSet(Calls) /\ MailsPerDay \in Nat /\ MaxStamps \in Nat

VARIABLES
  row,         \* the EmailAlert rows
  members,     \* addresses that are verified account emails of a member
  stamp,       \* the last instant taken
  call, press, \* the steps of calls and of requests from a link
  mails,       \* confirmation mails that reached their recipient
  spent,       \* the allowance taken, by recipient
  consent,     \* who agreed to an alert, since it has its address
  lost         \* an answer was lost: of the mail server, the database or the process

mailVars == <<row, members, stamp, call, press, mails, spent, consent, lost>>

Idle == [step |-> "idle"]
Unmade == [is |-> "unmade"]
Gone == [is |-> "gone"]
Recipient(e, ok, at, off) ==
  [is |-> "there", email |-> e, confirmed |-> ok, sentAt |-> at, stopped |-> off]

There(a) == row[a].is = "there"
Awaited(a) == There(a) /\ ~row[a].confirmed /\ ~row[a].stopped

\* assertRoomToWait
RoomToWait(a) == Cardinality({b \in Alerts \ {a} : Awaited(b)}) < MaxWaiting

MailInit ==
  /\ row = [a \in Alerts |-> Unmade]
  /\ members \in SUBSET Addresses
  /\ stamp = 0
  /\ call = [c \in Calls |-> Idle] /\ press = [p \in Presses |-> Idle]
  /\ mails = {} /\ spent = [e \in Addresses |-> 0]
  /\ consent = [a \in Alerts |-> {}]
  /\ lost = FALSE
-----------------------------------------------------------------------------
(* Alerts that are made and changed *)

Creating(c, a, e, ok) == call' = [call EXCEPT ![c] = [step |-> "create", alert |-> a, email |-> e, verified |-> ok]]
\* A mail on its way: prev is the instant the row held, owes that an allowance was taken.
Mailing(c, step, a, e, prev, at, owes) ==
  call' = [call EXCEPT ![c] = [step |-> step, alert |-> a, email |-> e, prev |-> prev,
                               at |-> at, owes |-> owes]]
MailGoes(c, step, owes) ==
  Mailing(c, step, call[c].alert, call[c].email, call[c].prev, call[c].at, owes)
EndCall(c) == call' = [call EXCEPT ![c] = Idle]
At(c, step) == call[c].step = step

\* create asks outside its transaction whether the address is a member's.
BeginCreate(c, a, e) ==
  /\ At(c, "idle") /\ row[a] = Unmade
  /\ Creating(c, a, e, e \in members)
  /\ UNCHANGED <<row, members, stamp, press, mails, spent, consent, lost>>

\* claim of the limiter, one script for all allowances.
TakeAllowance(e) == spent[e] < MailsPerDay /\ spent' = [spent EXCEPT ![e] = @ + 1]

\* The row gets an address: confirmed at once, or asked by a mail whose allowance
\* is taken before the transaction commits.
Address(c, a, e, verified) ==
  /\ row' = [row EXCEPT ![a] = Recipient(e, verified, 0, FALSE)]
  /\ IF verified
       THEN EndCall(c) /\ UNCHANGED spent /\ consent' = [consent EXCEPT ![a] = {e}]
       ELSE /\ RoomToWait(a) /\ TakeAllowance(e)
            /\ Mailing(c, "reserve", a, e, 0, 0, TRUE)
            /\ consent' = [consent EXCEPT ![a] = {}]
  /\ UNCHANGED <<members, stamp, press, mails, lost>>

Create(c) ==
  /\ At(c, "create") /\ row[call[c].alert] = Unmade
  /\ Address(c, call[c].alert, call[c].email, call[c].verified)

\* No room, no allowance or no Redis: the transaction is rolled back.
CreateRefused(c) ==
  /\ At(c, "create") /\ EndCall(c)
  /\ UNCHANGED <<row, members, stamp, press, mails, spent, consent, lost>>

\* update with another address, one transaction.
ChangeAddress(c, a, e) ==
  /\ At(c, "idle") /\ There(a) /\ row[a].email # e
  /\ Address(c, a, e, e \in members)

Remove(a) ==
  /\ There(a)
  /\ row' = [row EXCEPT ![a] = Gone]
  /\ consent' = [consent EXCEPT ![a] = {}]
  /\ UNCHANGED <<members, stamp, call, press, mails, spent, lost>>

\* Accounts are verified, leave or change their address.
MemberChanges(e) ==
  /\ members' = IF e \in members THEN members \ {e} ELSE members \cup {e}
  /\ UNCHANGED <<row, stamp, call, press, mails, spent, consent, lost>>
-----------------------------------------------------------------------------
(* Confirmation mails *)

\* assertCooledDown: the hour since the last mail is longer than the call that sent it.
CooledDown(a) == \A c \in Calls :
  call[c].step \in {"claim", "send", "restore"} /\ call[c].alert = a => call[c].at # row[a].sentAt

\* resendConfirmation
Resend(c, a) ==
  /\ At(c, "idle") /\ Awaited(a) /\ CooledDown(a)
  /\ Mailing(c, "reserve", a, row[a].email, row[a].sentAt, 0, FALSE)
  /\ UNCHANGED <<row, members, stamp, press, mails, spent, consent, lost>>

\* The row is still as it was read.
Unchanged(c) ==
  LET a == call[c].alert IN
  Awaited(a) /\ row[a].email = call[c].email /\ row[a].sentAt = call[c].prev

SentAt(a, at) == row' = [row EXCEPT ![a].sentAt = at]

\* The instant is taken just before the update.  Instants are named in the order
\* of the updates that took them: the code compares those of links for equality.
ReserveMail(c) ==
  /\ At(c, "reserve") /\ Unchanged(c) /\ stamp < MaxStamps
  /\ stamp' = stamp + 1
  /\ SentAt(call[c].alert, stamp')
  /\ Mailing(c, IF call[c].owes THEN "send" ELSE "claim", call[c].alert, call[c].email,
             call[c].prev, stamp', call[c].owes)
  /\ UNCHANGED <<members, press, mails, spent, consent, lost>>

\* The row has changed, or the database fails; an allowance goes back.
ReserveRefused(c) ==
  /\ At(c, "reserve")
  /\ IF call[c].owes THEN MailGoes(c, "refund", TRUE) ELSE EndCall(c)
  /\ UNCHANGED <<row, members, stamp, press, mails, spent, consent, lost>>

\* claimReserved
ClaimReserved(c) ==
  /\ At(c, "claim") /\ TakeAllowance(call[c].email)
  /\ MailGoes(c, "send", TRUE)
  /\ UNCHANGED <<row, members, stamp, press, mails, consent, lost>>

\* An allowance is spent, or Redis does not answer.
ClaimRefused(c) ==
  /\ At(c, "claim") /\ MailGoes(c, "restore", FALSE)
  /\ UNCHANGED <<row, members, stamp, press, mails, spent, consent, lost>>

Mail(c) == [alert |-> call[c].alert, to |-> call[c].email, at |-> call[c].at]

Send(c) ==
  /\ At(c, "send") /\ EndCall(c)
  /\ mails' = mails \cup {Mail(c)}
  /\ UNCHANGED <<row, members, stamp, press, spent, consent, lost>>

\* The mail server refuses the mail, or takes it and its answer is lost.
SendFails(c) ==
  /\ At(c, "send") /\ MailGoes(c, "restore", TRUE)
  /\ \/ UNCHANGED <<mails, lost>>
     \/ mails' = mails \cup {Mail(c)} /\ lost' = TRUE
  /\ UNCHANGED <<row, members, stamp, press, spent, consent>>

\* Mutant of AfterRestore: an allowance goes back that was never taken.
RefundAlways(c) == MailGoes(c, "refund", TRUE)
AfterRestore(c) == IF call[c].owes THEN MailGoes(c, "refund", TRUE) ELSE EndCall(c)

\* Mutant of Restore: whatever the row holds by now.
RestoreAnyway(c) ==
  /\ At(c, "restore") /\ AfterRestore(c)
  /\ IF There(call[c].alert) THEN SentAt(call[c].alert, call[c].prev) ELSE UNCHANGED row
  /\ UNCHANGED <<members, stamp, press, mails, spent, consent, lost>>

Restore(c) ==
  /\ At(c, "restore") /\ AfterRestore(c)
  /\ IF There(call[c].alert) /\ row[call[c].alert].sentAt = call[c].at
       THEN SentAt(call[c].alert, call[c].prev) ELSE UNCHANGED row
  /\ UNCHANGED <<members, stamp, press, mails, spent, consent, lost>>

\* The database does not take it, which is logged.
RestoreFails(c) ==
  /\ At(c, "restore") /\ AfterRestore(c)
  /\ lost' = TRUE
  /\ UNCHANGED <<row, members, stamp, press, mails, spent, consent>>

\* Redis takes the allowance back, or is not reached.
Refund(c) ==
  /\ At(c, "refund") /\ EndCall(c)
  /\ \/ spent' = [spent EXCEPT ![call[c].email] = @ - 1]
     \/ UNCHANGED spent
  /\ UNCHANGED <<row, members, stamp, press, mails, consent, lost>>

\* The process dies; the mail it was sending may have gone out.
CallDies(c) ==
  /\ ~At(c, "idle") /\ EndCall(c)
  /\ lost' = TRUE
  /\ \/ UNCHANGED mails
     \/ At(c, "send") /\ mails' = mails \cup {Mail(c)}
  /\ UNCHANGED <<row, members, stamp, press, spent, consent>>
-----------------------------------------------------------------------------
(* Links *)

Pressing(p, step, a, e, at) ==
  press' = [press EXCEPT ![p] = [step |-> step, alert |-> a, email |-> e, at |-> at]]
EndPress(p) == press' = [press EXCEPT ![p] = Idle]

\* The link of a mail is good if the row has its address and its instant.
Good(m) == There(m.alert) /\ row[m.alert].email = m.to /\ row[m.alert].sentAt = m.at

OpenConfirmation(p, m) ==
  /\ press[p].step = "idle" /\ Good(m) /\ ~row[m.alert].confirmed
  /\ Pressing(p, "confirm", m.alert, m.to, m.at)
  /\ consent' = [consent EXCEPT ![m.alert] = @ \cup {m.to}]
  /\ UNCHANGED <<row, members, stamp, call, mails, spent, lost>>

\* Mutant of LinkHolds: the instant is not compared again.
AddressHolds(p) == There(press[p].alert) /\ row[press[p].alert].email = press[p].email
LinkHolds(p) == /\ There(press[p].alert) /\ row[press[p].alert].email = press[p].email
                /\ row[press[p].alert].sentAt = press[p].at

ConfirmAddress(p) ==
  /\ press[p].step = "confirm" /\ EndPress(p)
  /\ row' = IF LinkHolds(p) THEN [row EXCEPT ![press[p].alert].confirmed = TRUE] ELSE row
  /\ UNCHANGED <<members, stamp, call, mails, spent, consent, lost>>

\* Confirmation mails carry the link that stops the alert, and so do alerts.
HoldsStopLink(a, e) == row[a].confirmed \/ \E m \in mails : m.alert = a /\ m.to = e

OpenStop(p, a) ==
  /\ press[p].step = "idle" /\ There(a) /\ HoldsStopLink(a, row[a].email)
  /\ Pressing(p, "stop", a, row[a].email, 0)
  /\ UNCHANGED <<row, members, stamp, call, mails, spent, consent, lost>>

\* pauseFor
Pause(p) ==
  /\ press[p].step = "stop" /\ EndPress(p)
  /\ IF There(press[p].alert) /\ row[press[p].alert].email = press[p].email
       THEN /\ row' = [row EXCEPT ![press[p].alert] = Recipient(press[p].email, FALSE, 0, TRUE)]
            /\ consent' = [consent EXCEPT ![press[p].alert] = {}]
       ELSE UNCHANGED <<row, consent>>
  /\ UNCHANGED <<members, stamp, call, mails, spent, lost>>

CallStep(c) ==
  \/ \E a \in Alerts : Resend(c, a)
  \/ \E a \in Alerts, e \in Addresses : BeginCreate(c, a, e) \/ ChangeAddress(c, a, e)
  \/ Create(c) \/ CreateRefused(c)
  \/ ReserveMail(c) \/ ReserveRefused(c) \/ ClaimReserved(c) \/ ClaimRefused(c)
  \/ Send(c) \/ SendFails(c) \/ Restore(c) \/ RestoreFails(c) \/ Refund(c) \/ CallDies(c)
PressStep(p) ==
  \/ \E m \in mails : OpenConfirmation(p, m)
  \/ \E a \in Alerts : OpenStop(p, a)
  \/ ConfirmAddress(p) \/ Pause(p)

MailNext == \/ \E a \in Alerts : Remove(a)
        \/ \E e \in Addresses : MemberChanges(e)
        \/ \E c \in Calls : CallStep(c)
        \/ \E p \in Presses : PressStep(p)

MailSpec == MailInit /\ [][MailNext]_mailVars
-----------------------------------------------------------------------------
(* Types *)

Stamps == 0..MaxStamps
Row == [is : {"there"}, email : Addresses, confirmed : BOOLEAN, sentAt : Stamps, stopped : BOOLEAN]
RowType == {Unmade, Gone} \cup Row
Creation == [step : {"create"}, alert : Alerts, email : Addresses, verified : BOOLEAN]
Sending == [step : {"reserve", "claim", "send", "restore", "refund"}, alert : Alerts,
            email : Addresses, prev : Stamps, at : Stamps, owes : BOOLEAN]
CallType == {Idle} \cup Creation \cup Sending
Following == [step : {"confirm", "stop"}, alert : Alerts, email : Addresses, at : Stamps]
PressType == {Idle} \cup Following
MailType == [alert : Alerts, to : Addresses, at : Stamps]

\* Every variable holds a value of its type, and what is given back was taken.
MailTypeOK == /\ row \in [Alerts -> RowType] /\ members \subseteq Addresses
          /\ stamp \in Stamps
          /\ call \in [Calls -> CallType] /\ press \in [Presses -> PressType]
          /\ mails \subseteq MailType
          /\ spent \in [Addresses -> 0..MailsPerDay]
          /\ consent \in [Alerts -> SUBSET Addresses] /\ lost \in BOOLEAN
-----------------------------------------------------------------------------
(* Safety *)

\* An alert delivers only to an address whose owner agreed to this alert while it
\* had this address: a link pressed for an earlier address, or before the recipient
\* stopped the alert, confirms nothing, however requests and mails overlap.
ConsentBacks == \A a \in Alerts : There(a) /\ row[a].confirmed => row[a].email \in consent[a]

\* A recipient who stopped the alert stays off it: no link confirms and no resend
\* asks again until the address changes, also when a mail was on its way and failed.
StaysOff == \A a \in Alerts :
  There(a) /\ row[a].stopped => ~row[a].confirmed /\ row[a].sentAt = 0

\* While no answer was lost and no mail is on its way: the link that works is the one
\* of the newest mail the recipient has.
Busy(a) == \E c \in Calls : ~At(c, "idle") /\ ~At(c, "create") /\ ~At(c, "refund")
                            /\ call[c].alert = a
NewestLinkWorks == \A a \in Alerts :
  There(a) /\ row[a].sentAt # 0 /\ ~lost /\ ~Busy(a) =>
    /\ \E m \in mails : Good(m) /\ m.alert = a
    /\ \A m \in mails : m.alert = a /\ m.to = row[a].email => m.at <= row[a].sentAt

\* While no answer was lost, the allowance of an address covers the confirmation mails
\* its owner has received and those on their way: so nobody receives more in a day than
\* the allowance, whatever was refused, restored or given back on the way.
Owing(c, e) == ~At(c, "idle") /\ ~At(c, "create") /\ call[c].owes /\ call[c].email = e
MailboxIsSpared == ~lost => \A e \in Addresses :
  Cardinality({m \in mails : m.to = e}) + Cardinality({c \in Calls : Owing(c, e)}) <= spent[e]
=============================================================================
