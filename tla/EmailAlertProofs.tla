-------------------------- MODULE EmailAlertProofs --------------------------
(***************************************************************************)
(* What EmailAlert promises for any number of alerts, addresses, calls and *)
(* requests from a link.  The proof rests on instants: a link or a call    *)
(* under way can match a row again only through the one call whose mail    *)
(* the row awaits, and that call gives back what it found.                 *)
(***************************************************************************)
EXTENDS EmailAlert, FiniteSetTheorems, TLAPS

InFlight(c) == call[c].step \in {"claim", "send", "restore"}
OutFor(e) == {c \in Calls : Owing(c, e)}
GotBy(e) == {m \in mails : m.to = e}

OthersWait(c) == \A d \in Calls \ {c} : call'[d] = call[d]
-----------------------------------------------------------------------------
(* Types.  What an address has spent covers what calls owe it. *)

OwedWasTaken == \A e \in Addresses : Cardinality(OutFor(e)) <= spent[e]

SendersOwe == \A c \in Calls : call[c].step \in {"send", "refund"} => call[c].owes

SpentInv == MailTypeOK /\ OwedWasTaken /\ SendersOwe /\ IsFiniteSet(mails) /\ MailboxIsSpared

LEMMA RowThere ==
  ASSUME MailTypeOK, NEW a \in Alerts, There(a)
  PROVE  row[a] \in Row
BY DEF MailTypeOK, RowType, There, Unmade, Gone, Row

LEMMA CallSends ==
  ASSUME MailTypeOK, NEW c \in Calls,
         call[c].step \in {"reserve", "claim", "send", "restore", "refund"}
  PROVE  call[c] \in Sending
BY DEF MailTypeOK, CallType, Idle, Creation, Sending

LEMMA CallCreates ==
  ASSUME MailTypeOK, NEW c \in Calls, call[c].step = "create"
  PROVE  call[c] \in Creation
BY DEF MailTypeOK, CallType, Idle, Creation, Sending

LEMMA LinkFollowed ==
  ASSUME MailTypeOK, NEW p \in Presses, press[p].step # "idle"
  PROVE  press[p] \in Following
BY DEF MailTypeOK, PressType, Idle

LEMMA CallGoes ==
  ASSUME MailTypeOK, NEW c \in Calls, NEW r \in CallType,
         call' = [call EXCEPT ![c] = r]
  PROVE  /\ call'[c] = r /\ OthersWait(c)
         /\ call' \in [Calls -> CallType]
         /\ \A d \in Calls \ {c}, e \in Addresses : Owing(d, e)' = Owing(d, e)
BY DEF MailTypeOK, OthersWait, Owing, At
\* The calls that owe an address when one of them moves.
LEMMA Owers ==
  ASSUME NEW c \in Calls, OthersWait(c), NEW e \in Addresses
  PROVE  /\ Cardinality(OutFor(e)) \in Nat /\ Cardinality(OutFor(e)') \in Nat
         /\ Cardinality(OutFor(e)') <= Cardinality(OutFor(e)) + 1
         /\ (Owing(c, e)' => Owing(c, e)) => Cardinality(OutFor(e)') <= Cardinality(OutFor(e))
         /\ Owing(c, e) /\ ~Owing(c, e)' => Cardinality(OutFor(e)') = Cardinality(OutFor(e)) - 1
<1>1. IsFiniteSet(OutFor(e)) /\ IsFiniteSet(OutFor(e)') /\ IsFiniteSet(OutFor(e) \cup {c})
  BY MailAssumption, FS_Subset, FS_AddElement DEF OutFor
<1>2. \A d \in Calls \ {c} : Owing(d, e)' = Owing(d, e) BY DEF OthersWait, Owing, At
<1>3. OutFor(e)' \subseteq OutFor(e) \cup {c} BY <1>2 DEF OutFor
<1>4. Cardinality(OutFor(e)) \in Nat /\ Cardinality(OutFor(e)') \in Nat
  BY <1>1, FS_CardinalityType
<1>5. Cardinality(OutFor(e) \cup {c}) <= Cardinality(OutFor(e)) + 1
      /\ Cardinality(OutFor(e) \cup {c}) \in Nat
  BY <1>1, <1>4, FS_AddElement, FS_CardinalityType
<1>6. Cardinality(OutFor(e)') <= Cardinality(OutFor(e)) + 1
  BY <1>1, <1>3, <1>4, <1>5, FS_Subset
<1>7. ASSUME Owing(c, e)' => Owing(c, e)
      PROVE  Cardinality(OutFor(e)') <= Cardinality(OutFor(e))
  <2>1. OutFor(e)' \subseteq OutFor(e) BY <1>2, <1>7 DEF OutFor
  <2> QED BY <1>1, <2>1, FS_Subset
<1>8. ASSUME Owing(c, e), ~Owing(c, e)'
      PROVE  Cardinality(OutFor(e)') = Cardinality(OutFor(e)) - 1
  <2>1. OutFor(e)' = OutFor(e) \ {c} /\ c \in OutFor(e) BY <1>2, <1>8 DEF OutFor
  <2> QED BY <1>1, <2>1, FS_RemoveElement
<1> QED BY <1>4, <1>6, <1>7, <1>8

LEMMA Kept ==
  ASSUME SpentInv, UNCHANGED <<call, mails, spent, lost>>
  PROVE  OwedWasTaken' /\ SendersOwe' /\ IsFiniteSet(mails)' /\ MailboxIsSpared'
BY DEF SpentInv, OwedWasTaken, SendersOwe, MailboxIsSpared, OutFor, Owing, At

\* A call moves on and owes no more than before; what is mailed unpaid is not counted.
LEMMA OwesNoMore ==
  ASSUME SpentInv, NEW c \in Calls, OthersWait(c), UNCHANGED spent,
         \A e \in Addresses : Owing(c, e)' => Owing(c, e),
         IsFiniteSet(mails'), lost \in BOOLEAN, lost => lost', ~lost' => UNCHANGED mails
  PROVE  OwedWasTaken' /\ MailboxIsSpared'
<1>1. \A e \in Addresses :
        /\ Cardinality(OutFor(e)) \in Nat /\ Cardinality(OutFor(e)') \in Nat
        /\ Cardinality(OutFor(e)') <= Cardinality(OutFor(e))
        /\ spent[e] \in Nat /\ spent'[e] = spent[e]
  BY Owers DEF SpentInv, MailTypeOK
<1>2. OwedWasTaken' BY <1>1 DEF SpentInv, OwedWasTaken
<1>3. ASSUME ~lost', NEW e \in Addresses
      PROVE  Cardinality(GotBy(e)') + Cardinality(OutFor(e)') <= spent'[e]
  <2>1. GotBy(e)' = GotBy(e) /\ ~lost BY <1>3 DEF GotBy
  <2>2. Cardinality(GotBy(e)) \in Nat
    BY FS_Subset, FS_CardinalityType DEF SpentInv, GotBy
  <2>3. Cardinality(GotBy(e)) + Cardinality(OutFor(e)) <= spent[e]
    BY <2>1 DEF SpentInv, MailboxIsSpared, GotBy, OutFor
  <2> QED BY <1>1, <2>1, <2>2, <2>3
<1> QED BY <1>2, <1>3 DEF MailboxIsSpared, GotBy, OutFor

\* An allowance is taken for the call.
LEMMA OneTaken ==
  ASSUME SpentInv, NEW c \in Calls, OthersWait(c), NEW t \in Addresses,
         spent' = [spent EXCEPT ![t] = @ + 1],
         \A e \in Addresses \ {t} : Owing(c, e)' => Owing(c, e),
         UNCHANGED <<mails, lost>>
  PROVE  OwedWasTaken' /\ MailboxIsSpared'
<1>1. \A e \in Addresses :
        /\ Cardinality(OutFor(e)) \in Nat /\ Cardinality(OutFor(e)') \in Nat
        /\ Cardinality(OutFor(e)') <= Cardinality(OutFor(e)) + 1
        /\ e # t => Cardinality(OutFor(e)') <= Cardinality(OutFor(e))
        /\ spent[e] \in Nat /\ spent'[e] = IF e = t THEN spent[e] + 1 ELSE spent[e]
  BY Owers DEF SpentInv, MailTypeOK
<1>2. OwedWasTaken' BY <1>1 DEF SpentInv, OwedWasTaken
<1>3. ASSUME ~lost', NEW e \in Addresses
      PROVE  Cardinality(GotBy(e)') + Cardinality(OutFor(e)') <= spent'[e]
  <2>1. GotBy(e)' = GotBy(e) /\ ~lost BY <1>3 DEF GotBy
  <2>2. Cardinality(GotBy(e)) \in Nat
    BY FS_Subset, FS_CardinalityType DEF SpentInv, GotBy
  <2>3. Cardinality(GotBy(e)) + Cardinality(OutFor(e)) <= spent[e]
    BY <2>1 DEF SpentInv, MailboxIsSpared, GotBy, OutFor
  <2> QED BY <1>1, <2>1, <2>2, <2>3
<1> QED BY <1>2, <1>3 DEF MailboxIsSpared, GotBy, OutFor

\* What the call owed is mailed, or given back.
LEMMA OneSettled ==
  ASSUME SpentInv, NEW c \in Calls, OthersWait(c), NEW t \in Addresses,
         Owing(c, t), \A e \in Addresses : ~Owing(c, e)', UNCHANGED lost,
         NEW m \in MailType, m.to = t,
         \/ spent' = spent /\ mails' = mails \cup {m}
         \/ spent' = [spent EXCEPT ![t] = @ - 1] /\ UNCHANGED mails
  PROVE  OwedWasTaken' /\ MailboxIsSpared' /\ IsFiniteSet(mails') /\ spent[t] >= 1
<1>1. \A e \in Addresses :
        /\ Cardinality(OutFor(e)) \in Nat /\ Cardinality(OutFor(e)') \in Nat
        /\ Cardinality(OutFor(e)') <= Cardinality(OutFor(e))
        /\ spent[e] \in Nat
  BY Owers DEF SpentInv, MailTypeOK
<1>2. Cardinality(OutFor(t)') = Cardinality(OutFor(t)) - 1 BY Owers
<1>3. \A e \in Addresses : Cardinality(OutFor(e)) <= spent[e] BY DEF SpentInv, OwedWasTaken
<1>4. spent[t] >= 1 BY <1>1, <1>2, <1>3
<1>5. \A e \in Addresses : spent'[e] = spent[e] \/ (e = t /\ spent'[e] = spent[e] - 1)
  BY DEF SpentInv, MailTypeOK
<1>6. OwedWasTaken' BY <1>1, <1>2, <1>3, <1>5 DEF OwedWasTaken
<1>7. IsFiniteSet(mails') BY FS_AddElement DEF SpentInv
<1>8. ASSUME ~lost', NEW e \in Addresses
      PROVE  Cardinality(GotBy(e)') + Cardinality(OutFor(e)') <= spent'[e]
  <2>1. /\ Cardinality(GotBy(e)) \in Nat /\ Cardinality(GotBy(e)') \in Nat
        /\ IsFiniteSet(GotBy(e)) /\ IsFiniteSet(GotBy(e)')
    BY <1>7, FS_Subset, FS_CardinalityType DEF SpentInv, GotBy
  <2>2. Cardinality(GotBy(e)) + Cardinality(OutFor(e)) <= spent[e]
    BY <1>8 DEF SpentInv, MailboxIsSpared, GotBy, OutFor
  <2>3. CASE e # t
    <3>1. GotBy(e)' = GotBy(e) BY <2>3 DEF GotBy
    <3> QED BY <3>1, <2>1, <2>2, <2>3, <1>1, <1>5
  <2>4. CASE e = t /\ spent' = spent /\ mails' = mails \cup {m}
    <3>1. GotBy(e)' = GotBy(e) \cup {m} BY <2>4 DEF GotBy
    <3>2. Cardinality(GotBy(e)') <= Cardinality(GotBy(e)) + 1
      BY <3>1, <2>1, FS_AddElement
    <3> QED BY <3>2, <2>1, <2>2, <2>4, <1>1, <1>2
  <2>5. CASE e = t /\ spent' = [spent EXCEPT ![t] = @ - 1] /\ UNCHANGED mails
    <3>1. GotBy(e)' = GotBy(e) BY <2>5 DEF GotBy
    <3>2. spent'[t] = spent[t] - 1 BY <2>5 DEF SpentInv, MailTypeOK
    <3> QED BY <3>1, <3>2, <2>1, <2>2, <2>5, <1>1, <1>2
  <2> QED BY <2>3, <2>4, <2>5
<1> QED BY <1>4, <1>6, <1>7, <1>8 DEF MailboxIsSpared, GotBy, OutFor
-----------------------------------------------------------------------------
(* Each step keeps the types and what is spent *)

LEMMA AddressTypes ==
  ASSUME MailTypeOK, NEW c, NEW a \in Alerts, NEW e \in Addresses, NEW v \in BOOLEAN,
         Address(c, a, e, v)
  PROVE  /\ row' \in [Alerts -> RowType] /\ consent' \in [Alerts -> SUBSET Addresses]
         /\ row'[a] = Recipient(e, v, 0, FALSE) /\ \A b \in Alerts \ {a} : row'[b] = row[b]
<1>1. Recipient(e, v, 0, FALSE) \in RowType
  BY MailAssumption DEF Recipient, RowType, Row, Stamps
<1>2. row' = [row EXCEPT ![a] = Recipient(e, v, 0, FALSE)] BY DEF Address
<1>3. consent' = [consent EXCEPT ![a] = {e}] \/ consent' = [consent EXCEPT ![a] = {}]
  BY DEF Address
<1> QED BY <1>1, <1>2, <1>3 DEF MailTypeOK

LEMMA AddressSpends ==
  ASSUME SpentInv, NEW c \in Calls, NEW a \in Alerts, NEW e \in Addresses, NEW v \in BOOLEAN,
         call[c].step \in {"idle", "create"}, Address(c, a, e, v)
  PROVE  SpentInv'
<1>0. row' \in [Alerts -> RowType] /\ consent' \in [Alerts -> SUBSET Addresses]
  BY AddressTypes DEF SpentInv
<1>1. CASE v
  <2>1. call' = [call EXCEPT ![c] = Idle] /\ Idle \in CallType
    BY <1>1 DEF Address, EndCall, CallType
  <2>2. call'[c] = Idle /\ OthersWait(c) /\ call' \in [Calls -> CallType]
    BY <2>1, CallGoes DEF SpentInv
  <2>3. UNCHANGED <<members, stamp, press, mails, lost, spent>>
    BY <1>1 DEF Address
  <2>4. MailTypeOK'
    BY <1>0, <2>2, <2>3 DEF SpentInv, MailTypeOK
  <2>5. \A x \in Addresses : ~Owing(c, x)' BY <2>2 DEF Owing, At, Idle
  <2>6. SendersOwe' BY <2>2 DEF SpentInv, SendersOwe, OthersWait, Idle
  <2>7. OwedWasTaken' /\ MailboxIsSpared'
    BY <2>2, <2>3, <2>5, OwesNoMore DEF SpentInv, MailTypeOK
  <2> QED BY <2>3, <2>4, <2>6, <2>7 DEF SpentInv
<1>2. CASE ~v
  <2> DEFINE r == [step |-> "reserve", alert |-> a, email |-> e, prev |-> 0, at |-> 0, owes |-> TRUE]
  <2>1. call' = [call EXCEPT ![c] = r] /\ r \in CallType
    BY <1>2, MailAssumption DEF Address, Mailing, CallType, Sending, Stamps
  <2>2. call'[c] = r /\ OthersWait(c) /\ call' \in [Calls -> CallType]
    BY <2>1, CallGoes DEF SpentInv
  <2>3. UNCHANGED <<members, stamp, press, mails, lost>> /\ spent[e] < MailsPerDay
        /\ spent' = [spent EXCEPT ![e] = @ + 1]
    BY <1>2 DEF Address, TakeAllowance
  <2>4. MailTypeOK'
    <3>1. spent' \in [Addresses -> 0..MailsPerDay]
      BY <2>3, MailAssumption DEF SpentInv, MailTypeOK
    <3> QED BY <1>0, <2>2, <2>3, <3>1 DEF SpentInv, MailTypeOK
  <2>5. \A x \in Addresses \ {e} : ~Owing(c, x)' BY <2>2 DEF Owing, At
  <2>6. SendersOwe' BY <2>2 DEF SpentInv, SendersOwe, OthersWait
  <2>7. OwedWasTaken' /\ MailboxIsSpared' BY <2>2, <2>3, <2>5, OneTaken
  <2> QED BY <2>3, <2>4, <2>6, <2>7 DEF SpentInv
<1> QED BY <1>1, <1>2

LEMMA SentAtTypes ==
  ASSUME MailTypeOK, NEW a \in Alerts, There(a), NEW t \in Stamps, SentAt(a, t)
  PROVE  /\ row' \in [Alerts -> RowType]
         /\ row'[a] = [row[a] EXCEPT !.sentAt = t]
         /\ \A b \in Alerts \ {a} : row'[b] = row[b]
<1>1. row[a] \in Row BY RowThere
<1>2. [row[a] EXCEPT !.sentAt = t] \in Row BY <1>1 DEF Row
<1>3. row' = [row EXCEPT ![a] = [row[a] EXCEPT !.sentAt = t]] BY DEF SentAt
<1> QED BY <1>2, <1>3 DEF MailTypeOK, RowType

LEMMA CreateKeeps ==
  ASSUME SpentInv, NEW c \in Calls,
         \/ Create(c)
         \/ \E a \in Alerts, e \in Addresses : BeginCreate(c, a, e)
         \/ \E a \in Alerts, e \in Addresses : ChangeAddress(c, a, e)
  PROVE  SpentInv'
<1>1. CASE Create(c)
  <2>1. call[c].step = "create" /\ Address(c, call[c].alert, call[c].email, call[c].verified)
    BY <1>1 DEF Create, At
  <2>2. call[c].alert \in Alerts /\ call[c].email \in Addresses /\ call[c].verified \in BOOLEAN
    BY <2>1, CallCreates DEF SpentInv, Creation
  <2> QED BY <2>1, <2>2, AddressSpends
<1>2. CASE \E a \in Alerts, e \in Addresses : ChangeAddress(c, a, e)
  <2>1. PICK a \in Alerts, e \in Addresses : ChangeAddress(c, a, e) BY <1>2
  <2>2. call[c].step = "idle" /\ Address(c, a, e, e \in members)
    BY <2>1 DEF ChangeAddress, At
  <2>3. (e \in members) \in BOOLEAN OBVIOUS
  <2> QED BY <2>2, <2>3, AddressSpends
<1>3. CASE \E a \in Alerts, e \in Addresses : BeginCreate(c, a, e)
  <2>1. PICK a \in Alerts, e \in Addresses : BeginCreate(c, a, e) BY <1>3
  <2> DEFINE r == [step |-> "create", alert |-> a, email |-> e, verified |-> e \in members]
  <2>2. r \in CallType BY DEF CallType, Creation
  <2>3. call' = [call EXCEPT ![c] = r]
        /\ UNCHANGED <<row, members, stamp, press, mails, spent, consent, lost>>
    BY <2>1 DEF BeginCreate, Creating
  <2>4. call'[c] = r /\ OthersWait(c) /\ call' \in [Calls -> CallType]
    BY <2>2, <2>3, CallGoes DEF SpentInv
  <2>5. \A x \in Addresses : ~Owing(c, x)' BY <2>4 DEF Owing, At
  <2>6. OwedWasTaken' /\ MailboxIsSpared'
    BY <2>3, <2>4, <2>5, OwesNoMore DEF SpentInv, MailTypeOK
  <2> QED BY <2>3, <2>4, <2>6 DEF SpentInv, MailTypeOK, SendersOwe, OthersWait
<1> QED BY <1>1, <1>2, <1>3

\* A call that ends, owing nothing or losing what it owed.
LEMMA EndKeeps ==
  ASSUME SpentInv, NEW c \in Calls, EndCall(c), UNCHANGED <<row, members, stamp, press, spent, consent>>,
         lost' \in BOOLEAN, lost => lost', UNCHANGED mails \/ (lost' /\ IsFiniteSet(mails') /\ mails' \subseteq MailType)
  PROVE  SpentInv'
<1>1. call'[c] = Idle /\ OthersWait(c) /\ call' \in [Calls -> CallType]
  BY CallGoes DEF SpentInv, EndCall, CallType
<1>2. \A x \in Addresses : ~Owing(c, x)' BY <1>1 DEF Owing, At, Idle
<1>3. IsFiniteSet(mails') BY DEF SpentInv
<1>4. OwedWasTaken' /\ MailboxIsSpared'
  BY <1>1, <1>2, <1>3, OwesNoMore DEF SpentInv, MailTypeOK
<1>5. SendersOwe' BY <1>1 DEF SpentInv, SendersOwe, OthersWait, Idle
<1> QED BY <1>1, <1>3, <1>4, <1>5 DEF SpentInv, MailTypeOK

\* A mail on its way goes on to the next step with what it owes.
LEMMA GoesKeeps ==
  ASSUME SpentInv, NEW c \in Calls, NEW owes \in BOOLEAN, owes => call[c].owes,
         NEW step \in {"send", "restore", "refund"}, step # "restore" => owes,
         call[c].step \in {"reserve", "claim", "send", "restore"}, MailGoes(c, step, owes),
         row' \in [Alerts -> RowType],
         UNCHANGED <<members, stamp, press, spent, consent>>,
         lost' \in BOOLEAN, lost => lost', UNCHANGED mails \/ (lost' /\ IsFiniteSet(mails') /\ mails' \subseteq MailType)
  PROVE  SpentInv'
<1> DEFINE r == [step |-> step, alert |-> call[c].alert, email |-> call[c].email,
                 prev |-> call[c].prev, at |-> call[c].at, owes |-> owes]
<1>1. call[c] \in Sending BY CallSends DEF SpentInv
<1>2. call' = [call EXCEPT ![c] = r] /\ r \in CallType
  BY <1>1 DEF MailGoes, Mailing, Sending, CallType
<1>3. call'[c] = r /\ OthersWait(c) /\ call' \in [Calls -> CallType]
  BY <1>2, CallGoes DEF SpentInv
<1>4. \A x \in Addresses : Owing(c, x)' => Owing(c, x) BY <1>3 DEF Owing, At
<1>5. IsFiniteSet(mails') BY DEF SpentInv
<1>6. OwedWasTaken' /\ MailboxIsSpared'
  BY <1>3, <1>4, <1>5, OwesNoMore DEF SpentInv, MailTypeOK
<1>7. SendersOwe' BY <1>3 DEF SpentInv, SendersOwe, OthersWait
<1> QED BY <1>3, <1>5, <1>6, <1>7 DEF SpentInv, MailTypeOK

\* The mail of a call, which a mail server may have taken.
LEMMA MailOut ==
  ASSUME SpentInv, NEW c \in Calls, call[c].step \in {"reserve", "claim", "send", "restore", "refund"}
  PROVE  /\ Mail(c) \in MailType /\ Mail(c).to = call[c].email
         /\ IsFiniteSet(mails \cup {Mail(c)}) /\ mails \cup {Mail(c)} \subseteq MailType
<1>1. Mail(c) \in MailType /\ Mail(c).to = call[c].email
  BY CallSends DEF SpentInv, Sending, Mail, MailType
<1> QED BY <1>1, FS_AddElement DEF SpentInv, MailTypeOK

LEMMA ReserveKeeps ==
  ASSUME SpentInv, NEW c \in Calls,
         ReserveMail(c) \/ ReserveRefused(c) \/ \E a \in Alerts : Resend(c, a)
  PROVE  SpentInv'
<1>1. CASE \E a \in Alerts : Resend(c, a)
  <2>1. PICK a \in Alerts : Resend(c, a) BY <1>1
  <2> DEFINE r == [step |-> "reserve", alert |-> a, email |-> row[a].email,
                   prev |-> row[a].sentAt, at |-> 0, owes |-> FALSE]
  <2>2. There(a) BY <2>1 DEF Resend, Awaited
  <2>3. r \in CallType BY <2>2, RowThere, MailAssumption DEF SpentInv, Row, CallType, Sending, Stamps
  <2>4. call' = [call EXCEPT ![c] = r]
        /\ UNCHANGED <<row, members, stamp, press, mails, spent, consent, lost>>
    BY <2>1 DEF Resend, Mailing
  <2>5. call'[c] = r /\ OthersWait(c) /\ call' \in [Calls -> CallType]
    BY <2>3, <2>4, CallGoes DEF SpentInv
  <2>6. \A x \in Addresses : ~Owing(c, x)' BY <2>5 DEF Owing, At
  <2>7. OwedWasTaken' /\ MailboxIsSpared'
    BY <2>4, <2>5, <2>6, OwesNoMore DEF SpentInv, MailTypeOK
  <2> QED BY <2>4, <2>5, <2>7 DEF SpentInv, MailTypeOK, SendersOwe, OthersWait
<1>2. CASE ReserveMail(c)
  <2> DEFINE r == [step |-> IF call[c].owes THEN "send" ELSE "claim", alert |-> call[c].alert,
                   email |-> call[c].email, prev |-> call[c].prev, at |-> stamp + 1,
                   owes |-> call[c].owes]
  <2>1. call[c].step = "reserve" /\ There(call[c].alert) BY <1>2 DEF ReserveMail, At, Unchanged, Awaited
  <2>2. call[c] \in Sending BY <2>1, CallSends DEF SpentInv
  <2>3. stamp + 1 \in Stamps BY <1>2, MailAssumption DEF ReserveMail, SpentInv, MailTypeOK, Stamps
  <2>4. r \in CallType BY <2>2, <2>3 DEF CallType, Sending
  <2>5. call' = [call EXCEPT ![c] = r] /\ stamp' = stamp + 1 /\ SentAt(call[c].alert, stamp + 1)
        /\ UNCHANGED <<members, press, mails, spent, consent, lost>>
    BY <1>2 DEF ReserveMail, Mailing, SentAt
  <2>6. call'[c] = r /\ OthersWait(c) /\ call' \in [Calls -> CallType]
    BY <2>4, <2>5, CallGoes DEF SpentInv
  <2>7. row' \in [Alerts -> RowType]
    BY <2>1, <2>2, <2>3, <2>5, SentAtTypes DEF SpentInv, Sending
  <2>8. \A x \in Addresses : Owing(c, x)' => Owing(c, x) BY <2>1, <2>6 DEF Owing, At
  <2>9. OwedWasTaken' /\ MailboxIsSpared'
    BY <2>5, <2>6, <2>8, OwesNoMore DEF SpentInv, MailTypeOK
  <2>10. SendersOwe' BY <2>6 DEF SpentInv, SendersOwe, OthersWait
  <2>11. MailTypeOK' BY <2>3, <2>5, <2>6, <2>7 DEF SpentInv, MailTypeOK
  <2> QED BY <2>5, <2>9, <2>10, <2>11 DEF SpentInv
<1>3. CASE ReserveRefused(c)
  <2>1. call[c].step = "reserve" /\ UNCHANGED <<row, members, stamp, press, mails, spent, consent, lost>>
    BY <1>3 DEF ReserveRefused, At
  <2>2. lost' \in BOOLEAN /\ row' \in [Alerts -> RowType] BY <2>1 DEF SpentInv, MailTypeOK
  <2>3. CASE call[c].owes
    <3>1. MailGoes(c, "refund", TRUE) BY <1>3, <2>3 DEF ReserveRefused
    <3> QED BY <2>1, <2>2, <2>3, <3>1, GoesKeeps
  <2>4. CASE ~call[c].owes
    <3>1. EndCall(c) BY <1>3, <2>4 DEF ReserveRefused
    <3> QED BY <2>1, <2>2, <3>1, EndKeeps
  <2> QED BY <2>3, <2>4
<1> QED BY <1>1, <1>2, <1>3

LEMMA ClaimKeeps ==
  ASSUME SpentInv, NEW c \in Calls, ClaimReserved(c)
  PROVE  SpentInv'
<1> DEFINE r == [step |-> "send", alert |-> call[c].alert, email |-> call[c].email,
                 prev |-> call[c].prev, at |-> call[c].at, owes |-> TRUE]
<1>1. call[c].step = "claim" BY DEF ClaimReserved, At
<1>2. call[c] \in Sending BY <1>1, CallSends DEF SpentInv
<1>3. call' = [call EXCEPT ![c] = r] /\ r \in CallType
      /\ UNCHANGED <<row, members, stamp, press, mails, consent, lost>>
  BY <1>2 DEF ClaimReserved, MailGoes, Mailing, Sending, CallType
<1>4. call'[c] = r /\ OthersWait(c) /\ call' \in [Calls -> CallType]
  BY <1>3, CallGoes DEF SpentInv
<1>5. spent[call[c].email] < MailsPerDay /\ call[c].email \in Addresses
      /\ spent' = [spent EXCEPT ![call[c].email] = @ + 1]
  BY <1>2 DEF ClaimReserved, TakeAllowance, Sending
<1>6. spent' \in [Addresses -> 0..MailsPerDay]
  BY <1>5, MailAssumption DEF SpentInv, MailTypeOK
<1>7. \A x \in Addresses \ {call[c].email} : ~Owing(c, x)' BY <1>4 DEF Owing, At
<1>8. OwedWasTaken' /\ MailboxIsSpared' BY <1>3, <1>4, <1>5, <1>7, OneTaken
<1>9. SendersOwe' BY <1>4 DEF SpentInv, SendersOwe, OthersWait
<1>10. MailTypeOK' BY <1>3, <1>4, <1>6 DEF SpentInv, MailTypeOK
<1> QED BY <1>3, <1>8, <1>9, <1>10 DEF SpentInv

LEMMA SettleKeeps ==
  ASSUME SpentInv, NEW c \in Calls, Send(c) \/ Refund(c)
  PROVE  SpentInv'
<1>1. call[c].step \in {"send", "refund"} BY DEF Send, Refund, At
<1>2. call[c] \in Sending /\ call[c].owes BY <1>1, CallSends DEF SpentInv, SendersOwe
<1>3. EndCall(c) /\ UNCHANGED <<row, members, stamp, press, consent, lost>> BY DEF Send, Refund
<1>4. call'[c] = Idle /\ OthersWait(c) /\ call' \in [Calls -> CallType]
  BY <1>3, CallGoes DEF SpentInv, EndCall, CallType
<1>5. Owing(c, call[c].email) /\ \A x \in Addresses : ~Owing(c, x)'
  BY <1>1, <1>2, <1>4 DEF Owing, At, Idle
<1>6. call[c].email \in Addresses BY <1>2 DEF Sending
<1>7. Mail(c) \in MailType /\ Mail(c).to = call[c].email /\ mails \cup {Mail(c)} \subseteq MailType
  BY <1>1, MailOut
<1>8. SendersOwe' BY <1>4 DEF SpentInv, SendersOwe, OthersWait, Idle
<1>9. CASE Send(c)
  <2>1. spent' = spent /\ mails' = mails \cup {Mail(c)} BY <1>9 DEF Send
  <2>2. OwedWasTaken' /\ MailboxIsSpared' /\ IsFiniteSet(mails')
    BY <1>3, <1>4, <1>5, <1>6, <1>7, <2>1, OneSettled
  <2>3. MailTypeOK' BY <1>3, <1>4, <1>7, <2>1 DEF SpentInv, MailTypeOK
  <2> QED BY <1>8, <2>2, <2>3 DEF SpentInv
<1>10. CASE Refund(c) /\ spent' = [spent EXCEPT ![call[c].email] = @ - 1]
  <2>1. UNCHANGED mails BY <1>10 DEF Refund
  <2>2. OwedWasTaken' /\ MailboxIsSpared' /\ IsFiniteSet(mails') /\ spent[call[c].email] >= 1
    BY <1>3, <1>4, <1>5, <1>6, <1>7, <1>10, <2>1, OneSettled
  <2>3. spent' \in [Addresses -> 0..MailsPerDay]
    BY <1>6, <1>10, <2>2, MailAssumption DEF SpentInv, MailTypeOK
  <2>4. MailTypeOK' BY <1>3, <1>4, <2>1, <2>3 DEF SpentInv, MailTypeOK
  <2> QED BY <1>8, <2>2, <2>4 DEF SpentInv
<1>11. CASE Refund(c) /\ UNCHANGED spent
  <2>1. UNCHANGED mails /\ lost' \in BOOLEAN BY <1>3, <1>11 DEF Refund, SpentInv, MailTypeOK
  <2> QED BY <1>3, <1>11, <2>1, EndKeeps
<1> QED BY <1>9, <1>10, <1>11 DEF Refund

LEMMA RestoreKeeps ==
  ASSUME SpentInv, NEW c \in Calls, Restore(c) \/ RestoreFails(c)
  PROVE  SpentInv'
<1>1. call[c].step = "restore" /\ AfterRestore(c)
      /\ UNCHANGED <<members, stamp, press, mails, spent, consent>>
  BY DEF Restore, RestoreFails, At
<1>2. call[c] \in Sending BY <1>1, CallSends DEF SpentInv
<1>3. row' \in [Alerts -> RowType] /\ lost' \in BOOLEAN /\ (lost => lost')
  <2>1. CASE UNCHANGED row
    BY <2>1 DEF Restore, RestoreFails, SpentInv, MailTypeOK
  <2>2. CASE ~UNCHANGED row
    <3>1. There(call[c].alert) /\ SentAt(call[c].alert, call[c].prev) /\ UNCHANGED lost
      BY <2>2 DEF Restore, RestoreFails
    <3>2. row' \in [Alerts -> RowType]
      BY <1>2, <3>1, SentAtTypes DEF SpentInv, Sending
    <3> QED BY <3>1, <3>2 DEF SpentInv, MailTypeOK
  <2> QED BY <2>1, <2>2
<1>4. CASE call[c].owes
  <2>1. MailGoes(c, "refund", TRUE) BY <1>1, <1>4 DEF AfterRestore
  <2> QED BY <1>1, <1>3, <1>4, <2>1, GoesKeeps
<1>5. CASE ~call[c].owes
  <2> DEFINE others == call' \in [Calls -> CallType] /\ call'[c] = Idle /\ OthersWait(c)
  <2>1. EndCall(c) BY <1>1, <1>5 DEF AfterRestore
  <2>2. others BY <2>1, CallGoes DEF SpentInv, EndCall, CallType
  <2>3. \A x \in Addresses : ~Owing(c, x)' BY <2>2 DEF Owing, At, Idle
  <2>4. OwedWasTaken' /\ MailboxIsSpared'
    BY <1>1, <1>3, <2>2, <2>3, OwesNoMore DEF SpentInv, MailTypeOK
  <2>5. SendersOwe' BY <2>2 DEF SpentInv, SendersOwe, OthersWait, Idle
  <2> QED BY <1>1, <1>3, <2>2, <2>4, <2>5 DEF SpentInv, MailTypeOK
<1> QED BY <1>4, <1>5

LEMMA FailureKeeps ==
  ASSUME SpentInv, NEW c \in Calls,
         CreateRefused(c) \/ ClaimRefused(c) \/ SendFails(c) \/ CallDies(c)
  PROVE  SpentInv'
<1>1. lost \in BOOLEAN /\ row \in [Alerts -> RowType] BY DEF SpentInv, MailTypeOK
<1>2. CASE CreateRefused(c)
  BY <1>1, <1>2, EndKeeps DEF CreateRefused
<1>3. CASE ClaimRefused(c)
  <2>1. call[c].step = "claim" /\ MailGoes(c, "restore", FALSE)
        /\ UNCHANGED <<row, members, stamp, press, mails, spent, consent, lost>>
    BY <1>3 DEF ClaimRefused, At
  <2> QED BY <1>1, <2>1, GoesKeeps
<1>4. CASE SendFails(c)
  <2>1. call[c].step = "send" /\ MailGoes(c, "restore", TRUE)
        /\ UNCHANGED <<row, members, stamp, press, spent, consent>>
    BY <1>4 DEF SendFails, At
  <2>2. call[c].owes BY <2>1 DEF SpentInv, SendersOwe
  <2>3. UNCHANGED <<mails, lost>> \/ (mails' = mails \cup {Mail(c)} /\ lost')
    BY <1>4 DEF SendFails
  <2>4. IsFiniteSet(mails \cup {Mail(c)}) /\ mails \cup {Mail(c)} \subseteq MailType
    BY <2>1, MailOut
  <2>5. lost' \in BOOLEAN BY <1>1, <1>4 DEF SendFails
  <2> QED BY <1>1, <2>1, <2>2, <2>3, <2>4, <2>5, GoesKeeps
<1>5. CASE CallDies(c)
  <2>1. EndCall(c) /\ lost' = TRUE /\ UNCHANGED <<row, members, stamp, press, spent, consent>>
    BY <1>5 DEF CallDies
  <2>2. UNCHANGED mails \/ (call[c].step = "send" /\ mails' = mails \cup {Mail(c)})
    BY <1>5 DEF CallDies, At
  <2>3. UNCHANGED mails \/ (IsFiniteSet(mails') /\ mails' \subseteq MailType)
    BY <2>2, MailOut
  <2> QED BY <2>1, <2>3, EndKeeps
<1> QED BY <1>2, <1>3, <1>4, <1>5

LEMMA RecipientKeeps ==
  ASSUME SpentInv,
         \/ \E a \in Alerts : Remove(a)
         \/ \E e \in Addresses : MemberChanges(e)
         \/ \E p \in Presses : PressStep(p)
  PROVE  SpentInv'
<1>1. UNCHANGED <<call, mails, spent, lost, stamp>>
  BY DEF Remove, MemberChanges, PressStep, OpenConfirmation, OpenStop, ConfirmAddress, Pause
<1>2. OwedWasTaken' /\ SendersOwe' /\ IsFiniteSet(mails)' /\ MailboxIsSpared'
  BY <1>1, Kept
<1> DEFINE Typed == /\ row' \in [Alerts -> RowType] /\ members' \subseteq Addresses
                    /\ press' \in [Presses -> PressType]
                    /\ consent' \in [Alerts -> SUBSET Addresses]
<1>3. SUFFICES Typed BY <1>1, <1>2 DEF SpentInv, MailTypeOK
<1>4. ASSUME NEW a \in Alerts, Remove(a) PROVE Typed
  BY <1>4 DEF Remove, SpentInv, MailTypeOK, RowType
<1>5. ASSUME NEW e \in Addresses, MemberChanges(e) PROVE Typed
  BY <1>5 DEF MemberChanges, SpentInv, MailTypeOK
<1>6. ASSUME NEW p \in Presses, NEW m \in mails, OpenConfirmation(p, m) PROVE Typed
  <2>1. m \in MailType BY DEF SpentInv, MailTypeOK
  <2> QED BY <1>6, <2>1
    DEF OpenConfirmation, Pressing, SpentInv, MailTypeOK, MailType, PressType, Following
<1>7. ASSUME NEW p \in Presses, NEW a \in Alerts, OpenStop(p, a) PROVE Typed
  <2>1. row[a] \in Row BY <1>7, RowThere DEF OpenStop, SpentInv
  <2> QED BY <1>7, <2>1, MailAssumption
    DEF OpenStop, Pressing, SpentInv, MailTypeOK, Row, PressType, Following, Stamps
<1>8. ASSUME NEW p \in Presses, ConfirmAddress(p) PROVE Typed
  <2>1. press' \in [Presses -> PressType] /\ UNCHANGED <<members, consent>>
    BY <1>8 DEF ConfirmAddress, EndPress, PressType, SpentInv, MailTypeOK
  <2>2. press[p] \in Following BY <1>8, LinkFollowed DEF ConfirmAddress, SpentInv
  <2>3. ASSUME LinkHolds(p) PROVE [row[press[p].alert] EXCEPT !.confirmed = TRUE] \in RowType
    <3>1. row[press[p].alert] \in Row
      BY <2>2, <2>3, RowThere DEF LinkHolds, SpentInv, Following
    <3> QED BY <3>1 DEF Row, RowType
  <2>4. row' = row \/ (LinkHolds(p) /\ row' = [row EXCEPT ![press[p].alert] = [row[press[p].alert] EXCEPT !.confirmed = TRUE]])
    BY <1>8 DEF ConfirmAddress
  <2>5. row' \in [Alerts -> RowType] BY <2>3, <2>4 DEF SpentInv, MailTypeOK
  <2> QED BY <2>1, <2>5 DEF SpentInv, MailTypeOK
<1>9. ASSUME NEW p \in Presses, Pause(p) PROVE Typed
  <2>1. press[p] \in Following BY <1>9, LinkFollowed DEF Pause, SpentInv
  <2>2. Recipient(press[p].email, FALSE, 0, TRUE) \in RowType
    BY <2>1, MailAssumption DEF Recipient, Following, Row, RowType, Stamps
  <2>3. press' \in [Presses -> PressType] /\ UNCHANGED members
    BY <1>9 DEF Pause, EndPress, PressType, SpentInv, MailTypeOK
  <2> QED BY <1>9, <2>2, <2>3 DEF Pause, SpentInv, MailTypeOK
<1> QED BY <1>4, <1>5, <1>6, <1>7, <1>8, <1>9 DEF PressStep

LEMMA SpentStep ==
  ASSUME SpentInv, [MailNext]_mailVars
  PROVE  SpentInv'
<1>1. CASE UNCHANGED mailVars
  <2>1. UNCHANGED <<call, mails, spent, lost>> BY <1>1 DEF mailVars
  <2> QED BY <1>1, <2>1, Kept DEF mailVars, SpentInv, MailTypeOK
<1>2. ASSUME NEW c \in Calls, CallStep(c) PROVE SpentInv'
  BY <1>2, CreateKeeps, ReserveKeeps, ClaimKeeps, SettleKeeps, RestoreKeeps, FailureKeeps
  DEF CallStep
<1> QED BY <1>1, <1>2, RecipientKeeps DEF MailNext

LEMMA SpentInit == MailInit => SpentInv
<1> SUFFICES ASSUME MailInit PROVE SpentInv OBVIOUS
<1>1. MailTypeOK
  <2>1. 0 \in 0..MailsPerDay /\ 0 \in Stamps BY MailAssumption DEF Stamps
  <2>2. members \in SUBSET Addresses /\ mails \subseteq MailType /\ lost \in BOOLEAN BY DEF MailInit
  <2>3. row \in [Alerts -> RowType] /\ call \in [Calls -> CallType] /\ press \in [Presses -> PressType]
    BY DEF MailInit, RowType, CallType, PressType
  <2>4. consent \in [Alerts -> SUBSET Addresses] /\ spent \in [Addresses -> 0..MailsPerDay]
    BY <2>1 DEF MailInit
  <2> QED BY <2>1, <2>2, <2>3, <2>4 DEF MailInit, MailTypeOK
<1>2. \A c \in Calls : call[c] = Idle BY DEF MailInit
<1>3. \A e \in Addresses : OutFor(e) = {} /\ GotBy(e) = {} /\ spent[e] = 0
  BY <1>2 DEF MailInit, OutFor, GotBy, Owing, At, Idle
<1>4. OwedWasTaken BY <1>3, FS_EmptySet DEF OwedWasTaken
<1>5. SendersOwe BY <1>2 DEF SendersOwe, Idle
<1>6. IsFiniteSet(mails) BY FS_EmptySet DEF MailInit
<1>7. MailboxIsSpared BY <1>3, FS_EmptySet DEF MailboxIsSpared, OutFor, GotBy
<1> QED BY <1>1, <1>4, <1>5, <1>6, <1>7 DEF SpentInv

\* What is known of the allowances holds in every state: SpentInv is inductive.
THEOREM SpentInvHolds == MailSpec => []SpentInv
BY SpentInit, SpentStep, PTL DEF MailSpec

\* Every variable of the alerts' recipients keeps its type.
THEOREM MailTypes == MailSpec => []MailTypeOK
<1>1. SpentInv => MailTypeOK BY DEF SpentInv
<1> QED BY <1>1, SpentInvHolds, PTL

\* While no answer was lost, nobody is sent more confirmation mails in a day than the
\* allowance of the address covers, whatever is refused and given back.
THEOREM MailboxesAreSpared == MailSpec => []MailboxIsSpared
<1>1. SpentInv => MailboxIsSpared BY DEF SpentInv
<1> QED BY <1>1, SpentInvHolds, PTL
-----------------------------------------------------------------------------
(* Instants, links and mails *)

Sends(c) == call[c].step \in {"reserve", "claim", "send", "restore"}

\* The row waits for the mail of c.
Awaits(c) == /\ InFlight(c) /\ There(call[c].alert)
             /\ row[call[c].alert].sentAt = call[c].at

Instants ==
  /\ \A a \in Alerts : There(a) => row[a].sentAt <= stamp
  /\ \A c \in Calls : Sends(c) => call[c].prev <= stamp /\ (InFlight(c) => call[c].at \in 1..stamp)
  /\ \A p \in Presses : press[p].step = "confirm" => press[p].at \in 1..stamp
  /\ \A m \in mails : m.at \in 1..stamp

\* Nothing gives a row back the instant of a mail that is on its way.
NoneGivenBack == \A c, d \in Calls :
  Sends(c) /\ InFlight(d) /\ call[d].alert = call[c].alert => call[d].at # call[c].prev

\* Of the mails on their way the row waits for the newest, and would go back to one newer
\* than the others.
RowIsNewer == \A d \in Calls : InFlight(d) /\ There(call[d].alert) =>
  row[call[d].alert].sentAt = 0 \/ call[d].at <= row[call[d].alert].sentAt
PrevIsNewer == \A c, d \in Calls :
  Awaits(c) /\ InFlight(d) /\ d # c /\ call[d].alert = call[c].alert =>
    call[c].prev = 0 \/ call[d].at < call[c].prev

AddressKept == \A c \in Calls : Awaits(c) => row[call[c].alert].email = call[c].email

\* The instant the row has, or goes back to.
Reaches(a, t) == \/ row[a].sentAt = t
                 \/ \E c \in Calls : Awaits(c) /\ call[c].alert = a /\ call[c].prev = t

\* Whoever follows a link that may confirm the row agreed to this row.
LinksAreBacked == \A p \in Presses :
  /\ press[p].step = "confirm" /\ There(press[p].alert)
  /\ row[press[p].alert].email = press[p].email /\ Reaches(press[p].alert, press[p].at)
  => press[p].email \in consent[press[p].alert]

Received(a, t) == [alert |-> a, to |-> row[a].email, at |-> t] \in mails

RowReached == ~lost => \A a \in Alerts : There(a) /\ row[a].sentAt # 0 =>
  Received(a, row[a].sentAt) \/ \E c \in Calls : Awaits(c) /\ call[c].alert = a
PrevReached == ~lost => \A c \in Calls :
  Awaits(c) => call[c].prev = 0 \/ Received(call[c].alert, call[c].prev)
NoneNewer == ~lost => \A m \in mails : There(m.alert) /\ row[m.alert].email = m.to =>
  /\ row[m.alert].sentAt # 0 => m.at <= row[m.alert].sentAt
  /\ \A c \in Calls : Awaits(c) /\ call[c].alert = m.alert /\ call[c].prev # 0 => m.at <= call[c].prev

InstantInv == Instants /\ NoneGivenBack /\ RowIsNewer /\ PrevIsNewer /\ AddressKept
ConsentInv == LinksAreBacked /\ ConsentBacks /\ StaysOff
ReachInv == RowReached /\ PrevReached /\ NoneNewer

RowInv == MailTypeOK /\ InstantInv /\ ConsentInv /\ ReachInv

LEMMA TypedCalls ==
  ASSUME MailTypeOK, NEW c \in Calls, Sends(c)
  PROVE  /\ call[c].alert \in Alerts /\ call[c].email \in Addresses
         /\ call[c].prev \in Nat /\ call[c].at \in Nat
BY CallSends, MailAssumption DEF Sends, Sending, Stamps

\* A row that gets an address, is stopped or is gone waits for no mail, and no link of
\* an earlier mail reaches it.
LEMMA ResetKeeps ==
  ASSUME RowInv, NEW a \in Alerts,
         \A b \in Alerts \ {a} : row'[b] = row[b] /\ consent'[b] = consent[b],
         There(a)' => /\ row'[a].sentAt = 0
                      /\ row'[a].confirmed => row'[a].email \in consent'[a]
                      /\ row'[a].stopped => ~row'[a].confirmed,
         \A d \in Calls : /\ InFlight(d) => call'[d] = call[d]
                          /\ InFlight(d)' => InFlight(d)
                          /\ Sends(d)' => call'[d] = call[d] \/ call'[d].prev = 0,
         \A p \in Presses : press'[p] = press[p] \/ press'[p].step # "confirm",
         UNCHANGED <<stamp, mails, lost>>
  PROVE  InstantInv' /\ ConsentInv' /\ ReachInv'
<1>1. MailTypeOK /\ stamp \in Nat BY MailAssumption DEF RowInv, MailTypeOK, Stamps
<1>2. \A d \in Calls : InFlight(d) => /\ call[d].alert \in Alerts /\ call[d].at \in Nat
                                      /\ call[d].at >= 1 /\ call[d].prev \in Nat
  BY <1>1, TypedCalls DEF RowInv, InstantInv, Instants, Sends, InFlight
<1>3. \A d \in Calls : Awaits(d)' => Awaits(d) /\ call[d].alert # a /\ call'[d] = call[d]
                                     /\ row'[call[d].alert] = row[call[d].alert]
  BY <1>2 DEF Awaits, There
<1>4. \A d \in Calls : Awaits(d) /\ call[d].alert # a => Awaits(d)' /\ call'[d] = call[d]
  BY <1>2 DEF Awaits, There, InFlight
<1>5. Instants'
  <2>1. \A b \in Alerts : There(b)' => row'[b].sentAt <= stamp
    BY <1>1 DEF RowInv, InstantInv, Instants, There
  <2>2. \A c \in Calls : Sends(c)' => call'[c].prev <= stamp /\ (InFlight(c)' => call'[c].at \in 1..stamp)
    BY <1>1, <1>2 DEF RowInv, InstantInv, Instants, Sends, InFlight
  <2> QED BY <2>1, <2>2 DEF RowInv, InstantInv, Instants
<1>6. NoneGivenBack'
  BY <1>2 DEF RowInv, InstantInv, NoneGivenBack, Sends, InFlight
<1>7. RowIsNewer'
  BY <1>2 DEF RowInv, InstantInv, RowIsNewer, There, InFlight
<1>8. PrevIsNewer' /\ AddressKept'
  BY <1>2, <1>3 DEF RowInv, InstantInv, PrevIsNewer, AddressKept
<1>9. ASSUME NEW b \in Alerts, There(b)', NEW t \in Nat, t >= 1, Reaches(b, t)'
      PROVE  b # a /\ Reaches(b, t)
  BY <1>3, <1>9 DEF Reaches
<1>10. LinksAreBacked'
  <2> SUFFICES ASSUME NEW p \in Presses, (press[p].step = "confirm")', There(press[p].alert)',
                      (row[press[p].alert].email = press[p].email)',
                      Reaches(press[p].alert, press[p].at)'
               PROVE  (press[p].email \in consent[press[p].alert])'
    BY DEF LinksAreBacked
  <2>1. press'[p] = press[p] /\ press[p] \in Following /\ press[p].at >= 1 /\ press[p].at \in Nat
    BY <1>1, LinkFollowed DEF RowInv, InstantInv, Instants
  <2>2. press[p].alert # a /\ Reaches(press[p].alert, press[p].at)
    BY <1>9, <2>1 DEF Following
  <2> QED BY <2>1, <2>2 DEF RowInv, ConsentInv, LinksAreBacked, Following, There
<1>11. ConsentBacks' /\ StaysOff'
  BY DEF RowInv, ConsentInv, ConsentBacks, StaysOff, There
<1>12. RowReached'
  BY <1>4 DEF RowInv, ReachInv, RowReached, Received, There
<1>13. PrevReached'
  BY <1>3 DEF RowInv, ReachInv, PrevReached, Received
<1>14. NoneNewer'
  BY <1>1, <1>3 DEF RowInv, ReachInv, NoneNewer, MailTypeOK, MailType, There
<1> QED BY <1>5, <1>6, <1>7, <1>8, <1>10, <1>11, <1>12, <1>13, <1>14
        DEF InstantInv, ConsentInv, ReachInv

\* A call moves while the rows and the links stay.  A mail that the row waited for is out
\* when it stops being on its way.
LEMMA MovesKeep ==
  ASSUME RowInv, NEW c \in Calls, OthersWait(c), UNCHANGED <<row, stamp, press, consent>>,
         InFlight(c)' => /\ InFlight(c)
                         /\ call'[c].alert = call[c].alert /\ call'[c].email = call[c].email
                         /\ call'[c].prev = call[c].prev /\ call'[c].at = call[c].at,
         Sends(c)' /\ ~InFlight(c)' =>
           /\ call'[c].prev <= stamp
           /\ \A d \in Calls \ {c} : InFlight(d) /\ call[d].alert = call'[c].alert
                                      => call[d].at # call'[c].prev,
         lost => lost',
         \/ mails' = mails
         \/ InFlight(c) /\ mails' = mails \cup {Mail(c)} /\ (lost' \/ ~InFlight(c)'),
         ~lost' /\ InFlight(c) /\ ~InFlight(c)' => ~Awaits(c) \/ Mail(c) \in mails'
  PROVE  InstantInv' /\ ConsentInv' /\ ReachInv'
<1>1. MailTypeOK /\ stamp \in Nat BY MailAssumption DEF RowInv, MailTypeOK, Stamps
<1>2. \A d \in Calls : InFlight(d) =>
        /\ call[d].alert \in Alerts /\ call[d].email \in Addresses
        /\ call[d].at \in 1..stamp /\ call[d].prev \in Nat
  BY <1>1, TypedCalls DEF RowInv, InstantInv, Instants, Sends, InFlight
<1>3. \A d \in Calls : InFlight(d)' =>
        /\ InFlight(d) /\ call'[d].alert = call[d].alert /\ call'[d].email = call[d].email
        /\ call'[d].prev = call[d].prev /\ call'[d].at = call[d].at
  BY DEF OthersWait, InFlight
<1>4. \A d \in Calls : Awaits(d)' => Awaits(d)
  BY <1>3 DEF Awaits, There
<1>5. \A d \in Calls : Awaits(d) /\ InFlight(d)' => Awaits(d)'
  BY <1>3 DEF Awaits, There
<1>6. Instants'
  <2>1. \A m \in mails' : m.at \in 1..stamp
    BY <1>2 DEF RowInv, InstantInv, Instants, Mail
  <2>2. \A d \in Calls : Sends(d)' => call'[d].prev <= stamp /\ (InFlight(d)' => call'[d].at \in 1..stamp)
    BY <1>2, <1>3 DEF RowInv, InstantInv, Instants, Sends, InFlight, OthersWait
  <2> QED BY <2>1, <2>2 DEF RowInv, InstantInv, Instants, There
<1>7. NoneGivenBack'
  <2> SUFFICES ASSUME NEW b \in Calls, NEW d \in Calls, Sends(b)', InFlight(d)',
                      call'[d].alert = call'[b].alert
               PROVE  call'[d].at # call'[b].prev
    BY DEF NoneGivenBack
  <2>1. CASE b = c /\ ~InFlight(c)' /\ d # c BY <1>3, <2>1
  <2>2. CASE b = c /\ InFlight(c)'
    <3>1. Sends(b) /\ call'[b].alert = call[b].alert /\ call'[b].prev = call[b].prev
      BY <1>3, <2>2 DEF InFlight, Sends
    <3> QED BY <1>3, <3>1 DEF RowInv, InstantInv, NoneGivenBack
  <2>3. CASE b # c
    <3>1. Sends(b) /\ call'[b] = call[b] BY <2>3 DEF OthersWait, Sends
    <3> QED BY <1>3, <3>1 DEF RowInv, InstantInv, NoneGivenBack
  <2> QED BY <2>1, <2>2, <2>3 DEF InFlight
<1>8. RowIsNewer' /\ PrevIsNewer' /\ AddressKept'
  <2>1. RowIsNewer' BY <1>3 DEF RowInv, InstantInv, RowIsNewer, There
  <2>2. \A d \in Calls : Awaits(d)' => InFlight(d)' BY DEF Awaits
  <2>3. PrevIsNewer' BY <1>3, <1>4, <2>2 DEF RowInv, InstantInv, PrevIsNewer
  <2>4. AddressKept' BY <1>3, <1>4, <2>2 DEF RowInv, InstantInv, AddressKept
  <2> QED BY <2>1, <2>3, <2>4
<1>9. \A a \in Alerts, t \in Nat : Reaches(a, t)' => Reaches(a, t)
  BY <1>3, <1>4 DEF Reaches, Awaits
<1>10. LinksAreBacked'
  <2> SUFFICES ASSUME NEW p \in Presses, (press[p].step = "confirm")', There(press[p].alert)',
                      (row[press[p].alert].email = press[p].email)',
                      Reaches(press[p].alert, press[p].at)'
               PROVE  (press[p].email \in consent[press[p].alert])'
    BY DEF LinksAreBacked
  <2>1. press'[p] = press[p] /\ press[p] \in Following /\ press[p].at \in Nat
    BY <1>1, LinkFollowed DEF RowInv, InstantInv, Instants
  <2>2. Reaches(press[p].alert, press[p].at) BY <1>9, <2>1 DEF Following
  <2> QED BY <2>1, <2>2 DEF RowInv, ConsentInv, LinksAreBacked, There
<1>11. ConsentBacks' /\ StaysOff'
  BY DEF RowInv, ConsentInv, ConsentBacks, StaysOff, There
<1>12. ASSUME ~lost' PROVE ~lost /\ mails \subseteq mails' BY <1>12
<1>13. RowReached'
  <2> SUFFICES ASSUME ~lost', NEW a \in Alerts, There(a)', row'[a].sentAt # 0
               PROVE  Received(a, row[a].sentAt)' \/ \E d \in Calls : Awaits(d)' /\ call'[d].alert = a
    BY DEF RowReached
  <2>1. CASE Received(a, row[a].sentAt) BY <1>12, <2>1 DEF Received
  <2>2. CASE \E d \in Calls : Awaits(d) /\ call[d].alert = a
    <3>1. PICK d \in Calls : Awaits(d) /\ call[d].alert = a BY <2>2
    <3>2. CASE InFlight(d)' BY <1>3, <1>5, <3>1, <3>2
    <3>3. CASE ~InFlight(d)'
      <4>1. d = c BY <3>1, <3>3 DEF OthersWait, InFlight, Awaits
      <4>2. Mail(c) \in mails' BY <3>1, <3>3, <4>1 DEF Awaits
      <4>3. Mail(c) = [alert |-> a, to |-> row[a].email, at |-> row[a].sentAt]
        BY <3>1, <4>1 DEF RowInv, InstantInv, AddressKept, Awaits, Mail
      <4> QED BY <4>2, <4>3 DEF Received
    <3> QED BY <3>2, <3>3
  <2> QED BY <1>12, <2>1, <2>2 DEF RowInv, ReachInv, RowReached, There
<1>14. PrevReached'
  BY <1>3, <1>4, <1>12 DEF RowInv, ReachInv, PrevReached, Received, Awaits
<1>15. NoneNewer'
  <2> SUFFICES ASSUME ~lost', NEW m \in mails', There(m.alert)', row'[m.alert].email = m.to
               PROVE  /\ row'[m.alert].sentAt # 0 => m.at <= row'[m.alert].sentAt
                      /\ \A d \in Calls : Awaits(d)' /\ call'[d].alert = m.alert /\ call'[d].prev # 0
                                           => m.at <= call'[d].prev
    BY DEF NoneNewer
  <2>1. CASE m \in mails
    BY <1>3, <1>4, <1>12, <2>1 DEF RowInv, ReachInv, NoneNewer, There, Awaits
  <2>2. CASE m \notin mails
    <3>1. m = Mail(c) /\ InFlight(c) /\ ~InFlight(c)' BY <2>2
    <3>2. m.alert = call[c].alert /\ m.at = call[c].at BY <3>1 DEF Mail
    <3>3. row'[m.alert].sentAt # 0 => m.at <= row'[m.alert].sentAt
      BY <3>1, <3>2 DEF RowInv, InstantInv, RowIsNewer, There
    <3>4. ASSUME NEW d \in Calls, Awaits(d)', call'[d].alert = m.alert, call'[d].prev # 0
          PROVE  m.at <= call'[d].prev
      <4>1. d # c /\ call'[d] = call[d] /\ Awaits(d)
        BY <1>4, <3>1, <3>4 DEF Awaits, OthersWait
      <4>2. call[c].at < call[d].prev
        BY <3>1, <3>2, <3>4, <4>1 DEF RowInv, InstantInv, PrevIsNewer
      <4> QED BY <1>2, <3>1, <3>2, <4>1, <4>2 DEF Awaits
    <3> QED BY <3>3, <3>4
  <2> QED BY <2>1, <2>2
<1> QED BY <1>6, <1>7, <1>8, <1>10, <1>11, <1>13, <1>14, <1>15
        DEF InstantInv, ConsentInv, ReachInv

\* The row waits for a mail reserved at a new instant, which no other mail has.
LEMMA ReserveMoves ==
  ASSUME RowInv, NEW c \in Calls, ReserveMail(c)
  PROVE  InstantInv' /\ ConsentInv' /\ ReachInv'
<1>1. MailTypeOK /\ stamp \in Nat BY MailAssumption DEF RowInv, MailTypeOK, Stamps
<1>2. call[c].step = "reserve" /\ Sends(c) /\ ~InFlight(c) BY DEF ReserveMail, At, Sends, InFlight
<1>a. PICK a \in Alerts : a = call[c].alert BY <1>1, <1>2, TypedCalls
<1>11. PICK t \in Nat : t = stamp + 1 BY <1>1
<1>3. call[c] \in Sending /\ call[c].prev \in Nat /\ call[c].at \in Nat
  BY <1>1, <1>2, CallSends, TypedCalls
<1>4. /\ There(a) /\ ~row[a].confirmed /\ ~row[a].stopped
      /\ row[a].email = call[c].email /\ row[a].sentAt = call[c].prev /\ row[a] \in Row
  BY <1>1, <1>a, RowThere DEF ReserveMail, Unchanged, Awaited
<1>5. /\ stamp' = t /\ t \in Stamps /\ SentAt(a, t)
      /\ UNCHANGED <<members, press, mails, spent, consent, lost>>
  BY <1>1, <1>a, <1>11, MailAssumption DEF ReserveMail, SentAt, Stamps
<1>6. row'[a] = [row[a] EXCEPT !.sentAt = t] /\ \A b \in Alerts \ {a} : row'[b] = row[b]
  BY <1>1, <1>4, <1>5, SentAtTypes
<1>7. /\ row'[a].sentAt = t /\ row'[a].email = row[a].email /\ There(a)'
      /\ row'[a].confirmed = row[a].confirmed /\ row'[a].stopped = row[a].stopped
  BY <1>4, <1>6 DEF Row, There
<1>8. /\ OthersWait(c) /\ InFlight(c)'
      /\ call'[c].alert = a /\ call'[c].email = call[c].email
      /\ call'[c].prev = call[c].prev /\ call'[c].at = t
  <2> DEFINE r == [step |-> IF call[c].owes THEN "send" ELSE "claim", alert |-> call[c].alert,
                   email |-> call[c].email, prev |-> call[c].prev, at |-> t,
                   owes |-> call[c].owes]
  <2>1. call' = [call EXCEPT ![c] = r] BY <1>5, <1>11 DEF ReserveMail, Mailing
  <2>2. r \in CallType BY <1>3, <1>5 DEF CallType, Sending
  <2>3. call'[c] = r /\ OthersWait(c) BY <1>1, <2>1, <2>2, CallGoes
  <2> QED BY <1>a, <2>3 DEF InFlight
<1>9. \A d \in Calls \ {c} : /\ call'[d] = call[d]
                                /\ (InFlight(d)' <=> InFlight(d)) /\ (Sends(d)' <=> Sends(d))
  BY <1>8 DEF OthersWait, InFlight, Sends
<1>10. \A d \in Calls : InFlight(d) =>
         /\ call[d].alert \in Alerts /\ call[d].at \in 1..stamp /\ call[d].at \in Nat /\ call[d].prev \in Nat
  BY <1>1, TypedCalls DEF RowInv, InstantInv, Instants, Sends, InFlight
<1>12. \A d \in Calls \ {c} : Awaits(d)' =>
         Awaits(d) /\ call[d].alert # a /\ row'[call[d].alert] = row[call[d].alert]
  <2> SUFFICES ASSUME NEW d \in Calls \ {c}, Awaits(d)'
               PROVE  Awaits(d) /\ call[d].alert # a /\ row'[call[d].alert] = row[call[d].alert]
    OBVIOUS
  <2>1. call'[d] = call[d] /\ InFlight(d) BY <1>9 DEF Awaits
  <2>2. row'[call[d].alert].sentAt = call[d].at /\ row'[call[d].alert].is = "there"
    BY <2>1 DEF Awaits, There
  <2>3. call[d].alert # a BY <1>1, <1>7, <1>10, <1>11, <2>1, <2>2
  <2> QED BY <1>6, <1>10, <2>1, <2>2, <2>3 DEF Awaits, There
<1>13. \A d \in Calls : Awaits(d) /\ call[d].alert # a => Awaits(d)' /\ call'[d] = call[d]
  BY <1>2, <1>6, <1>9, <1>10 DEF Awaits, There
<1>14. Instants'
  <2>1. \A b \in Alerts : There(b)' => row'[b].sentAt <= t
    <3>1. \A b \in Alerts \ {a} : There(b)' => row[b] \in Row /\ row'[b] = row[b] /\ row[b].sentAt <= stamp
      BY <1>1, <1>6, RowThere DEF RowInv, InstantInv, Instants, There
    <3>2. \A b \in Alerts \ {a} : There(b)' => row[b].sentAt \in Nat
      BY <3>1, MailAssumption DEF Row, Stamps
    <3> QED BY <1>1, <1>5, <1>7, <1>11, <3>1, <3>2
  <2>2. \A d \in Calls : Sends(d)' => call'[d].prev <= t /\ (InFlight(d)' => call'[d].at \in 1..t)
    <3>1. \A d \in Calls : Sends(d) => call[d].prev \in Nat /\ call[d].prev <= stamp
      BY <1>1, TypedCalls DEF RowInv, InstantInv, Instants
    <3> QED BY <1>1, <1>2, <1>5, <1>8, <1>9, <1>10, <1>11, <3>1
  <2>3. \A p \in Presses : press'[p].step = "confirm" => press'[p].at \in 1..t
    BY <1>1, <1>5, <1>11 DEF RowInv, InstantInv, Instants
  <2>4. \A m \in mails' : m.at \in 1..t
    BY <1>1, <1>5, <1>11 DEF RowInv, InstantInv, Instants
  <2> QED BY <1>5, <2>1, <2>2, <2>3, <2>4 DEF Instants
<1>15. NoneGivenBack'
  <2> SUFFICES ASSUME NEW b \in Calls, NEW d \in Calls, Sends(b)', InFlight(d)',
                      call'[d].alert = call'[b].alert
               PROVE  call'[d].at # call'[b].prev
    BY DEF NoneGivenBack
  <2>1. Sends(b) /\ call'[b].alert = call[b].alert /\ call'[b].prev = call[b].prev
    BY <1>2, <1>8, <1>9, <1>a
  <2>2. CASE d # c
    BY <1>9, <2>1, <2>2 DEF RowInv, InstantInv, NoneGivenBack
  <2>3. CASE d = c
    <3>1. call[b].prev \in Nat /\ call[b].prev <= stamp
      BY <1>1, <2>1, TypedCalls DEF RowInv, InstantInv, Instants
    <3> QED BY <1>1, <1>8, <1>11, <2>1, <2>3, <3>1
  <2> QED BY <2>2, <2>3
<1>16. RowIsNewer'
  <2> SUFFICES ASSUME NEW d \in Calls, InFlight(d)', There(call[d].alert)'
               PROVE  row'[call'[d].alert].sentAt = 0 \/ call'[d].at <= row'[call'[d].alert].sentAt
    BY DEF RowIsNewer
  <2>1. CASE call'[d].alert = a
    BY <1>1, <1>5, <1>7, <1>8, <1>9, <1>10, <1>11, <2>1
  <2>2. CASE call'[d].alert # a
    <3>1. d # c /\ call'[d] = call[d] /\ InFlight(d) /\ row'[call[d].alert] = row[call[d].alert]
      BY <1>6, <1>8, <1>9, <1>10, <2>2
    <3> QED BY <3>1 DEF RowInv, InstantInv, RowIsNewer, There
  <2> QED BY <2>1, <2>2
<1>17. PrevIsNewer'
  <2> SUFFICES ASSUME NEW b \in Calls, NEW d \in Calls, Awaits(b)', InFlight(d)', d # b,
                      call'[d].alert = call'[b].alert
               PROVE  call'[b].prev = 0 \/ call'[d].at < call'[b].prev
    BY DEF PrevIsNewer
  <2>1. CASE b = c
    <3>1. InFlight(d) /\ call'[d] = call[d] /\ call[d].alert = a BY <1>8, <1>9, <2>1
    <3>2. call[c].prev = 0 \/ call[d].at <= call[c].prev
      BY <1>4, <3>1 DEF RowInv, InstantInv, RowIsNewer
    <3>3. call[d].at # call[c].prev
      BY <1>2, <1>a, <3>1 DEF RowInv, InstantInv, NoneGivenBack
    <3> QED BY <1>3, <1>8, <1>10, <2>1, <3>1, <3>2, <3>3
  <2>2. CASE b # c
    <3>1. Awaits(b) /\ call[b].alert # a /\ call'[b] = call[b] BY <1>9, <1>12, <2>2
    <3>2. d # c /\ InFlight(d) /\ call'[d] = call[d] BY <1>8, <1>9, <3>1
    <3> QED BY <3>1, <3>2 DEF RowInv, InstantInv, PrevIsNewer
  <2> QED BY <2>1, <2>2
<1>18. AddressKept'
  <2>1. \A d \in Calls \ {c} : Awaits(d)' => row'[call'[d].alert].email = call'[d].email
    BY <1>9, <1>12 DEF RowInv, InstantInv, AddressKept
  <2> QED BY <1>4, <1>7, <1>8, <2>1 DEF AddressKept
<1>19. LinksAreBacked'
  <2> SUFFICES ASSUME NEW p \in Presses, (press[p].step = "confirm")', There(press[p].alert)',
                      (row[press[p].alert].email = press[p].email)',
                      Reaches(press[p].alert, press[p].at)'
               PROVE  (press[p].email \in consent[press[p].alert])'
    BY DEF LinksAreBacked
  <2>1. press'[p] = press[p] /\ press[p] \in Following /\ press[p].at \in 1..stamp
    BY <1>1, <1>5, LinkFollowed DEF RowInv, InstantInv, Instants
  <2> DEFINE b == press[p].alert
  <2>2. There(b) /\ row[b].email = press[p].email
    <3>1. row'[b].is = "there" /\ row'[b].email = press[p].email /\ b \in Alerts
      BY <2>1 DEF There, Following
    <3> QED BY <1>4, <1>6, <1>7, <3>1 DEF There
  <2>3. Reaches(b, press[p].at)
    <3>1. CASE row'[b].sentAt = press[p].at
      <4>1. b # a BY <1>1, <1>7, <1>11, <2>1, <3>1
      <4> QED BY <1>6, <2>1, <3>1, <4>1 DEF Reaches, Following
    <3>2. CASE \E d \in Calls : Awaits(d)' /\ call'[d].alert = b /\ call'[d].prev = press[p].at
      <4>1. PICK d \in Calls : Awaits(d)' /\ call'[d].alert = b /\ call'[d].prev = press[p].at
        BY <3>2
      <4>2. CASE d = c BY <1>4, <1>8, <4>1, <4>2 DEF Reaches
      <4>3. CASE d # c BY <1>9, <1>12, <4>1, <4>3 DEF Reaches
      <4> QED BY <4>2, <4>3
    <3> QED BY <2>1, <3>1, <3>2 DEF Reaches
  <2> QED BY <1>5, <2>1, <2>2, <2>3 DEF RowInv, ConsentInv, LinksAreBacked
<1>20. ConsentBacks' /\ StaysOff'
  BY <1>4, <1>5, <1>6, <1>7 DEF RowInv, ConsentInv, ConsentBacks, StaysOff, There
<1>21. ASSUME ~lost' PROVE ~lost BY <1>5, <1>21
<1>22. \A b \in Alerts, x \in Nat : Received(b, x) => Received(b, x)'
  BY <1>5, <1>6, <1>7 DEF Received
<1>23. Awaits(c)' BY <1>7, <1>8 DEF Awaits, There
<1>24. RowReached'
  <2> SUFFICES ASSUME ~lost', NEW b \in Alerts, There(b)', row'[b].sentAt # 0
               PROVE  Received(b, row[b].sentAt)' \/ \E d \in Calls : Awaits(d)' /\ call'[d].alert = b
    BY DEF RowReached
  <2>1. CASE b = a BY <1>8, <1>23, <2>1
  <2>2. CASE b # a
    <3>1. row'[b] = row[b] /\ There(b) BY <1>6, <2>2 DEF There
    <3>2. Received(b, row[b].sentAt) \/ \E d \in Calls : Awaits(d) /\ call[d].alert = b
      BY <1>21, <3>1 DEF RowInv, ReachInv, RowReached
    <3> QED BY <1>5, <1>13, <2>2, <3>1, <3>2 DEF Received
  <2> QED BY <2>1, <2>2
<1>25. PrevReached'
  <2> SUFFICES ASSUME ~lost', NEW d \in Calls, Awaits(d)', call'[d].prev # 0
               PROVE  Received(call[d].alert, call[d].prev)'
    BY DEF PrevReached
  <2>1. CASE d = c
    <3>1. row[a].sentAt # 0 BY <1>4, <1>8, <2>1
    <3>2. ~\E b \in Calls : Awaits(b) /\ call[b].alert = a
      BY <1>2, <1>4, <1>a DEF RowInv, InstantInv, NoneGivenBack, Awaits
    <3>3. Received(a, call[c].prev)
      BY <1>4, <1>21, <3>1, <3>2 DEF RowInv, ReachInv, RowReached
    <3> QED BY <1>5, <1>7, <1>8, <2>1, <3>3 DEF Received
  <2>2. CASE d # c
    <3>1. Awaits(d) /\ call[d].alert # a /\ call'[d] = call[d] /\ row'[call[d].alert] = row[call[d].alert]
      BY <1>9, <1>12, <2>2
    <3> QED BY <1>5, <1>21, <3>1 DEF RowInv, ReachInv, PrevReached, Received
  <2> QED BY <2>1, <2>2
<1>26. NoneNewer'
  <2> SUFFICES ASSUME ~lost', NEW m \in mails, There(m.alert)', row'[m.alert].email = m.to
               PROVE  /\ row'[m.alert].sentAt # 0 => m.at <= row'[m.alert].sentAt
                      /\ \A d \in Calls : Awaits(d)' /\ call'[d].alert = m.alert /\ call'[d].prev # 0
                                           => m.at <= call'[d].prev
    BY <1>5 DEF NoneNewer
  <2>1. m.alert \in Alerts /\ m.at \in 1..stamp
    BY <1>1 DEF MailTypeOK, MailType, RowInv, InstantInv, Instants
  <2>2. There(m.alert) /\ row[m.alert].email = m.to BY <1>4, <1>6, <1>7, <2>1 DEF There
  <2>3. row'[m.alert].sentAt # 0 => m.at <= row'[m.alert].sentAt
    <3>1. CASE m.alert = a BY <1>1, <1>7, <1>11, <2>1, <3>1
    <3>2. CASE m.alert # a
      BY <1>6, <1>21, <2>1, <2>2, <3>2 DEF RowInv, ReachInv, NoneNewer
    <3> QED BY <3>1, <3>2
  <2>4. ASSUME NEW d \in Calls, Awaits(d)', call'[d].alert = m.alert, call'[d].prev # 0
        PROVE  m.at <= call'[d].prev
    <3>1. CASE d = c
      BY <1>4, <1>8, <1>21, <2>2, <2>4, <3>1 DEF RowInv, ReachInv, NoneNewer
    <3>2. CASE d # c
      BY <1>9, <1>12, <1>21, <2>2, <2>4, <3>2 DEF RowInv, ReachInv, NoneNewer
    <3> QED BY <3>1, <3>2
  <2> QED BY <2>3, <2>4
<1> QED BY <1>14, <1>15, <1>16, <1>17, <1>18, <1>19, <1>20, <1>24, <1>25, <1>26
        DEF InstantInv, ConsentInv, ReachInv

\* A row gets the instant back that it had before the mail it waited for.
LEMMA RestoreMoves ==
  ASSUME RowInv, NEW c \in Calls, Awaits(c), Restore(c)
  PROVE  InstantInv' /\ ConsentInv' /\ ReachInv'
<1>1. MailTypeOK /\ stamp \in Nat BY MailAssumption DEF RowInv, MailTypeOK, Stamps
<1>2. Sends(c) /\ InFlight(c) /\ AfterRestore(c) BY DEF Restore, At, Sends, InFlight
<1>a. PICK a \in Alerts : a = call[c].alert BY <1>1, <1>2, TypedCalls
<1>t. PICK t \in Nat : t = call[c].prev BY <1>1, <1>2, TypedCalls
<1>3. call[c] \in Sending /\ t \in Stamps /\ t <= stamp /\ call[c].at \in 1..stamp
  BY <1>1, <1>2, <1>t, CallSends DEF Sending, Sends, RowInv, InstantInv, Instants
<1>4. There(a) /\ row[a].sentAt = call[c].at /\ row[a] \in Row
  BY <1>1, <1>a, RowThere DEF Awaits
<1>5. SentAt(a, t) /\ UNCHANGED <<members, stamp, press, mails, spent, consent, lost>>
  BY <1>4, <1>a, <1>t DEF Restore
<1>6. row'[a] = [row[a] EXCEPT !.sentAt = t] /\ \A b \in Alerts \ {a} : row'[b] = row[b]
  BY <1>1, <1>3, <1>4, <1>5, SentAtTypes
<1>7. /\ row'[a].sentAt = t /\ row'[a].email = row[a].email /\ There(a)'
      /\ row'[a].confirmed = row[a].confirmed /\ row'[a].stopped = row[a].stopped
  BY <1>4, <1>6 DEF Row, There
<1>8. OthersWait(c) /\ ~Sends(c)' /\ ~InFlight(c)'
  <2> DEFINE r == [step |-> "refund", alert |-> call[c].alert, email |-> call[c].email,
                   prev |-> call[c].prev, at |-> call[c].at, owes |-> TRUE]
  <2>1. call' = [call EXCEPT ![c] = r] \/ call' = [call EXCEPT ![c] = Idle]
    BY <1>2 DEF AfterRestore, MailGoes, Mailing, EndCall
  <2>2. r \in CallType /\ Idle \in CallType BY <1>3 DEF CallType, Sending
  <2>3. OthersWait(c) /\ (call'[c] = r \/ call'[c] = Idle) BY <1>1, <2>1, <2>2, CallGoes
  <2> QED BY <2>3 DEF Idle, Sends, InFlight
<1>9. \A d \in Calls : /\ Sends(d)' => Sends(d) /\ call'[d] = call[d] /\ d # c
                       /\ InFlight(d)' => InFlight(d) /\ call'[d] = call[d] /\ d # c
                       /\ InFlight(d) /\ d # c => InFlight(d)' /\ call'[d] = call[d]
  BY <1>8 DEF OthersWait, InFlight, Sends
<1>10. \A d \in Calls : InFlight(d) =>
         /\ call[d].alert \in Alerts /\ call[d].at \in 1..stamp /\ call[d].at \in Nat /\ call[d].prev \in Nat
  BY <1>1, TypedCalls DEF RowInv, InstantInv, Instants, Sends, InFlight
<1>11. \A d \in Calls : InFlight(d) /\ call[d].alert = a => call[d].at # t
  BY <1>2, <1>a, <1>t DEF RowInv, InstantInv, NoneGivenBack
<1>12. ASSUME NEW d \in Calls, Awaits(d)'
       PROVE  /\ Awaits(d) /\ call'[d] = call[d] /\ d # c /\ call[d].alert # a
              /\ row'[call[d].alert] = row[call[d].alert]
  <2>1. InFlight(d) /\ call'[d] = call[d] /\ d # c BY <1>9, <1>12 DEF Awaits
  <2>2. row'[call[d].alert].sentAt = call[d].at /\ row'[call[d].alert].is = "there"
    BY <1>12, <2>1 DEF Awaits, There
  <2>3. call[d].alert # a BY <1>7, <1>11, <2>1, <2>2
  <2> QED BY <1>6, <1>10, <2>1, <2>2, <2>3 DEF Awaits, There
<1>13. \A d \in Calls : Awaits(d) /\ call[d].alert # a => Awaits(d)' /\ call'[d] = call[d]
  BY <1>6, <1>9, <1>10, <1>a DEF Awaits, There
<1>14. Instants'
  <2>1. \A b \in Alerts : There(b)' => row'[b].sentAt <= stamp
    BY <1>3, <1>6, <1>7 DEF RowInv, InstantInv, Instants, There
  <2>2. \A d \in Calls : Sends(d)' => call'[d].prev <= stamp /\ (InFlight(d)' => call'[d].at \in 1..stamp)
    BY <1>9 DEF RowInv, InstantInv, Instants
  <2> QED BY <1>5, <2>1, <2>2 DEF RowInv, InstantInv, Instants
<1>15. NoneGivenBack'
  BY <1>9 DEF RowInv, InstantInv, NoneGivenBack
<1>16. RowIsNewer'
  <2> SUFFICES ASSUME NEW d \in Calls, InFlight(d)', There(call[d].alert)'
               PROVE  row'[call'[d].alert].sentAt = 0 \/ call'[d].at <= row'[call'[d].alert].sentAt
    BY DEF RowIsNewer
  <2>1. InFlight(d) /\ call'[d] = call[d] /\ d # c /\ call[d].alert \in Alerts BY <1>9, <1>10
  <2>2. CASE call[d].alert = a
    <3>1. t = 0 \/ call[d].at < t
      BY <1>a, <1>t, <2>1, <2>2 DEF RowInv, InstantInv, PrevIsNewer
    <3> QED BY <1>7, <1>10, <2>1, <2>2, <3>1
  <2>3. CASE call[d].alert # a
    <3>1. row'[call[d].alert] = row[call[d].alert] BY <1>6, <2>1, <2>3
    <3> QED BY <2>1, <3>1 DEF RowInv, InstantInv, RowIsNewer, There
  <2> QED BY <2>2, <2>3
<1>17. PrevIsNewer'
  BY <1>9, <1>12 DEF RowInv, InstantInv, PrevIsNewer
<1>18. AddressKept'
  BY <1>12 DEF RowInv, InstantInv, AddressKept
<1>19. LinksAreBacked'
  <2> SUFFICES ASSUME NEW p \in Presses, (press[p].step = "confirm")', There(press[p].alert)',
                      (row[press[p].alert].email = press[p].email)',
                      Reaches(press[p].alert, press[p].at)'
               PROVE  (press[p].email \in consent[press[p].alert])'
    BY DEF LinksAreBacked
  <2>1. press'[p] = press[p] /\ press[p] \in Following
    BY <1>1, <1>5, LinkFollowed
  <2> DEFINE b == press[p].alert
  <2>2. There(b) /\ row[b].email = press[p].email
    <3>1. row'[b].is = "there" /\ row'[b].email = press[p].email /\ b \in Alerts
      BY <2>1 DEF There, Following
    <3> QED BY <1>4, <1>6, <1>7, <3>1 DEF There
  <2>3. Reaches(b, press[p].at)
    <3>1. CASE row'[b].sentAt = press[p].at
      <4>1. CASE b = a BY <1>7, <1>a, <1>t, <3>1, <4>1 DEF Reaches
      <4>2. CASE b # a BY <1>6, <2>1, <3>1, <4>2 DEF Reaches, Following
      <4> QED BY <4>1, <4>2
    <3>2. CASE \E d \in Calls : Awaits(d)' /\ call'[d].alert = b /\ call'[d].prev = press[p].at
      BY <1>12, <3>2 DEF Reaches
    <3> QED BY <2>1, <3>1, <3>2 DEF Reaches
  <2> QED BY <1>5, <2>1, <2>2, <2>3 DEF RowInv, ConsentInv, LinksAreBacked
<1>20. ConsentBacks' /\ StaysOff'
  <2>1. ~row[a].stopped BY <1>3, <1>4 DEF RowInv, ConsentInv, StaysOff
  <2> QED BY <1>4, <1>5, <1>6, <1>7, <2>1 DEF RowInv, ConsentInv, ConsentBacks, StaysOff, There
<1>21. ASSUME ~lost' PROVE ~lost BY <1>5, <1>21
<1>22. RowReached'
  <2> SUFFICES ASSUME ~lost', NEW b \in Alerts, There(b)', row'[b].sentAt # 0
               PROVE  Received(b, row[b].sentAt)' \/ \E d \in Calls : Awaits(d)' /\ call'[d].alert = b
    BY DEF RowReached
  <2>1. CASE b = a
    <3>1. Received(a, t)
      BY <1>7, <1>21, <1>a, <1>t, <2>1 DEF RowInv, ReachInv, PrevReached
    <3> QED BY <1>5, <1>7, <2>1, <3>1 DEF Received
  <2>2. CASE b # a
    <3>1. row'[b] = row[b] /\ There(b) BY <1>6, <2>2 DEF There
    <3>2. Received(b, row[b].sentAt) \/ \E d \in Calls : Awaits(d) /\ call[d].alert = b
      BY <1>21, <3>1 DEF RowInv, ReachInv, RowReached
    <3> QED BY <1>5, <1>13, <2>2, <3>1, <3>2 DEF Received
  <2> QED BY <2>1, <2>2
<1>23. PrevReached'
  BY <1>5, <1>12, <1>21 DEF RowInv, ReachInv, PrevReached, Received
<1>24. NoneNewer'
  <2> SUFFICES ASSUME ~lost', NEW m \in mails, There(m.alert)', row'[m.alert].email = m.to
               PROVE  /\ row'[m.alert].sentAt # 0 => m.at <= row'[m.alert].sentAt
                      /\ \A d \in Calls : Awaits(d)' /\ call'[d].alert = m.alert /\ call'[d].prev # 0
                                           => m.at <= call'[d].prev
    BY <1>5 DEF NoneNewer
  <2>1. m.alert \in Alerts BY <1>1 DEF MailTypeOK, MailType
  <2>2. There(m.alert) /\ row[m.alert].email = m.to BY <1>4, <1>6, <1>7, <2>1 DEF There
  <2>3. row'[m.alert].sentAt # 0 => m.at <= row'[m.alert].sentAt
    <3>1. CASE m.alert = a
      BY <1>7, <1>21, <1>a, <1>t, <2>2, <3>1 DEF RowInv, ReachInv, NoneNewer
    <3>2. CASE m.alert # a
      BY <1>6, <1>21, <2>1, <2>2, <3>2 DEF RowInv, ReachInv, NoneNewer
    <3> QED BY <3>1, <3>2
  <2>4. \A d \in Calls : Awaits(d)' /\ call'[d].alert = m.alert /\ call'[d].prev # 0
                          => m.at <= call'[d].prev
    BY <1>12, <1>21, <2>2 DEF RowInv, ReachInv, NoneNewer
  <2> QED BY <2>3, <2>4
<1> QED BY <1>14, <1>15, <1>16, <1>17, <1>18, <1>19, <1>20, <1>22, <1>23, <1>24
        DEF InstantInv, ConsentInv, ReachInv

\* A link is followed: rows keep their address and instant.
LEMMA LinksKeep ==
  ASSUME RowInv, UNCHANGED <<stamp, call, mails, lost>>,
         \A a \in Alerts : /\ There(a)' <=> There(a)
                           /\ There(a) => /\ row'[a].email = row[a].email
                                          /\ row'[a].sentAt = row[a].sentAt,
         \A a \in Alerts : There(a) => (row'[a] = row[a] \/ (row[a].sentAt # 0 /\ row'[a].email \in consent[a])),
         \A a \in Alerts : consent[a] \subseteq consent'[a],
         \A a \in Alerts : There(a) /\ row[a].sentAt = 0 => row'[a] = row[a],
         \A a \in Alerts : There(a) => row'[a].stopped = row[a].stopped,
         \A p \in Presses :
           press'[p] = press[p] \/ (press'[p].step = "confirm" =>
             press'[p].at \in 1..stamp /\ press'[p].email \in consent'[press'[p].alert])
  PROVE  InstantInv' /\ ConsentInv' /\ ReachInv'
<1>1. MailTypeOK /\ stamp \in Nat BY MailAssumption DEF RowInv, MailTypeOK, Stamps
<1>2. \A d \in Calls : InFlight(d) => call[d].alert \in Alerts
  BY <1>1, TypedCalls DEF Sends, InFlight
<1>3. \A d \in Calls : Awaits(d)' <=> Awaits(d) BY <1>2 DEF Awaits, There, InFlight
<1>4. Instants' BY <1>1 DEF RowInv, InstantInv, Instants, Sends, InFlight
<1>5. NoneGivenBack' BY DEF RowInv, InstantInv, NoneGivenBack, Sends, InFlight
<1>6. RowIsNewer' BY <1>2 DEF RowInv, InstantInv, RowIsNewer, InFlight
<1>7. PrevIsNewer' BY <1>3 DEF RowInv, InstantInv, PrevIsNewer, InFlight
<1>8. AddressKept' BY <1>2, <1>3 DEF RowInv, InstantInv, AddressKept, Awaits
<1>9. LinksAreBacked'
  <2> SUFFICES ASSUME NEW p \in Presses, (press[p].step = "confirm")', There(press[p].alert)',
                      (row[press[p].alert].email = press[p].email)',
                      Reaches(press[p].alert, press[p].at)'
               PROVE  (press[p].email \in consent[press[p].alert])'
    BY DEF LinksAreBacked
  <2>1. CASE press'[p] # press[p] BY <2>1
  <2>2. CASE press'[p] = press[p]
    <3> DEFINE b == press[p].alert
    <3>1. b \in Alerts BY <1>1, <2>2, LinkFollowed DEF Following
    <3>2. There(b) /\ row[b].email = press[p].email /\ row'[b].sentAt = row[b].sentAt
      <4>1. row'[b].is = "there" /\ row'[b].email = press[p].email BY <2>2 DEF There
      <4> QED BY <3>1, <4>1 DEF There
    <3>3. Reaches(b, press[p].at) BY <1>3, <2>2, <3>2 DEF Reaches
    <3> QED BY <2>2, <3>1, <3>2, <3>3 DEF RowInv, ConsentInv, LinksAreBacked
  <2> QED BY <2>1, <2>2
<1>10. ConsentBacks'
  <2> SUFFICES ASSUME NEW a \in Alerts, There(a)', row'[a].confirmed
               PROVE  row'[a].email \in consent'[a]
    BY DEF ConsentBacks
  <2>1. There(a) /\ consent[a] \subseteq consent'[a] OBVIOUS
  <2>2. row'[a] = row[a] \/ row'[a].email \in consent[a] BY <2>1
  <2> QED BY <2>1, <2>2 DEF RowInv, ConsentInv, ConsentBacks
<1>11. StaysOff'
  BY DEF RowInv, ConsentInv, StaysOff
<1>12. RowReached'
  BY <1>3 DEF RowInv, ReachInv, RowReached, Received
<1>13. PrevReached'
  BY <1>2, <1>3 DEF RowInv, ReachInv, PrevReached, Received, Awaits
<1>14. NoneNewer'
  BY <1>1, <1>3 DEF RowInv, ReachInv, NoneNewer, MailTypeOK, MailType
<1> QED BY <1>4, <1>5, <1>6, <1>7, <1>8, <1>9, <1>10, <1>11, <1>12, <1>13, <1>14
        DEF InstantInv, ConsentInv, ReachInv

LEMMA PressMoves ==
  ASSUME RowInv, (\E e \in Addresses : MemberChanges(e)) \/ \E p \in Presses : PressStep(p)
  PROVE  InstantInv' /\ ConsentInv' /\ ReachInv'
<1>1. MailTypeOK /\ stamp \in Nat BY MailAssumption DEF RowInv, MailTypeOK, Stamps
<1>2. ASSUME NEW e \in Addresses, MemberChanges(e) PROVE InstantInv' /\ ConsentInv' /\ ReachInv'
  <2>1. UNCHANGED <<row, stamp, call, press, mails, consent, lost>> BY <1>2 DEF MemberChanges
  <2> QED BY <2>1, LinksKeep DEF There
<1>3. ASSUME NEW p \in Presses, NEW m \in mails, OpenConfirmation(p, m)
      PROVE  InstantInv' /\ ConsentInv' /\ ReachInv'
  <2>1. UNCHANGED <<row, stamp, call, mails, lost>> BY <1>3 DEF OpenConfirmation
  <2>2. m \in MailType /\ m.at \in 1..stamp
    BY <1>1 DEF RowInv, InstantInv, Instants, MailTypeOK
  <2>3. consent' = [consent EXCEPT ![m.alert] = @ \cup {m.to}] BY <1>3 DEF OpenConfirmation
  <2>4. \A a \in Alerts : consent[a] \subseteq consent'[a] BY <1>1, <2>2, <2>3 DEF MailTypeOK, MailType
  <2>5. m.to \in consent'[m.alert] BY <1>1, <2>2, <2>3 DEF MailTypeOK, MailType
  <2>6. press' = [press EXCEPT ![p] = [step |-> "confirm", alert |-> m.alert, email |-> m.to, at |-> m.at]]
    BY <1>3 DEF OpenConfirmation, Pressing
  <2>7. \A q \in Presses : press'[q] = press[q] \/ (press'[q].step = "confirm" =>
             press'[q].at \in 1..stamp /\ press'[q].email \in consent'[press'[q].alert])
    BY <1>1, <2>2, <2>5, <2>6 DEF MailTypeOK
  <2> QED BY <2>1, <2>4, <2>7, LinksKeep DEF There
<1>4. ASSUME NEW p \in Presses, NEW a \in Alerts, OpenStop(p, a)
      PROVE  InstantInv' /\ ConsentInv' /\ ReachInv'
  <2>1. UNCHANGED <<row, stamp, call, mails, consent, lost>> BY <1>4 DEF OpenStop
  <2>2. press' = [press EXCEPT ![p] = [step |-> "stop", alert |-> a, email |-> row[a].email, at |-> 0]]
    BY <1>4 DEF OpenStop, Pressing
  <2>3. \A q \in Presses : press'[q] = press[q] \/ press'[q].step # "confirm"
    BY <1>1, <2>2 DEF MailTypeOK
  <2> QED BY <2>1, <2>3, LinksKeep DEF There
<1>5. ASSUME NEW p \in Presses, ConfirmAddress(p)
      PROVE  InstantInv' /\ ConsentInv' /\ ReachInv'
  <2>1. UNCHANGED <<stamp, call, mails, consent, lost>> BY <1>5 DEF ConfirmAddress
  <2>2. \A q \in Presses : press'[q] = press[q] \/ press'[q].step # "confirm"
    BY <1>1, <1>5 DEF ConfirmAddress, EndPress, MailTypeOK, Idle
  <2>3. CASE ~LinkHolds(p)
    <3>1. row' = row BY <1>5, <2>3 DEF ConfirmAddress
    <3> QED BY <2>1, <2>2, <3>1, LinksKeep DEF There
  <2>4. CASE LinkHolds(p)
    <3>1. press[p] \in Following /\ press[p].step = "confirm" /\ press[p].at \in 1..stamp
      BY <1>1, <1>5, LinkFollowed DEF ConfirmAddress, RowInv, InstantInv, Instants
    <3>2. PICK a \in Alerts : a = press[p].alert BY <3>1 DEF Following
    <3>3. There(a) /\ row[a].email = press[p].email /\ row[a].sentAt = press[p].at /\ row[a] \in Row
      BY <1>1, <2>4, <3>2, RowThere DEF LinkHolds
    <3>4. row' = [row EXCEPT ![a] = [row[a] EXCEPT !.confirmed = TRUE]]
      BY <1>5, <2>4, <3>2 DEF ConfirmAddress
    <3>5. row'[a] = [row[a] EXCEPT !.confirmed = TRUE] /\ \A b \in Alerts \ {a} : row'[b] = row[b]
      BY <1>1, <3>4 DEF MailTypeOK
    <3>6. /\ row'[a].is = row[a].is /\ row'[a].email = row[a].email
          /\ row'[a].sentAt = row[a].sentAt /\ row'[a].stopped = row[a].stopped
      BY <3>3, <3>5 DEF Row
    <3>7. row[a].email \in consent[a]
      BY <3>1, <3>2, <3>3 DEF RowInv, ConsentInv, LinksAreBacked, Reaches
    <3>8. row[a].sentAt # 0 BY <3>1, <3>3
    <3> QED BY <2>1, <2>2, <3>5, <3>6, <3>7, <3>8, LinksKeep DEF There
  <2> QED BY <2>3, <2>4
<1>6. ASSUME NEW p \in Presses, Pause(p)
      PROVE  InstantInv' /\ ConsentInv' /\ ReachInv'
  <2>1. UNCHANGED <<stamp, call, mails, lost>> BY <1>6 DEF Pause
  <2>2. \A q \in Presses : press'[q] = press[q] \/ press'[q].step # "confirm"
    BY <1>1, <1>6 DEF Pause, EndPress, MailTypeOK, Idle
  <2>3. CASE UNCHANGED <<row, consent>>
    BY <2>1, <2>2, <2>3, LinksKeep DEF There
  <2>4. CASE ~UNCHANGED <<row, consent>>
    <3>1. press[p] \in Following BY <1>1, <1>6, LinkFollowed DEF Pause
    <3>2. PICK a \in Alerts : a = press[p].alert BY <3>1 DEF Following
    <3>3. row' = [row EXCEPT ![a] = Recipient(press[p].email, FALSE, 0, TRUE)]
          /\ consent' = [consent EXCEPT ![a] = {}]
      BY <1>6, <2>4, <3>2 DEF Pause
    <3>4. /\ \A b \in Alerts \ {a} : row'[b] = row[b] /\ consent'[b] = consent[b]
          /\ row'[a] = Recipient(press[p].email, FALSE, 0, TRUE)
      BY <1>1, <3>3 DEF MailTypeOK
    <3>5. row'[a].sentAt = 0 /\ ~row'[a].confirmed BY <3>4 DEF Recipient
    <3>6. \A d \in Calls : /\ InFlight(d) => call'[d] = call[d]
                           /\ InFlight(d)' => InFlight(d)
                           /\ Sends(d)' => call'[d] = call[d] \/ call'[d].prev = 0
      BY <2>1 DEF InFlight
    <3> QED BY <2>1, <2>2, <3>4, <3>5, <3>6, ResetKeeps
  <2> QED BY <2>3, <2>4
<1> QED BY <1>2, <1>3, <1>4, <1>5, <1>6 DEF PressStep

LEMMA AddressMoves ==
  ASSUME RowInv, NEW c \in Calls, NEW a \in Alerts, NEW e \in Addresses, NEW v \in BOOLEAN,
         call[c].step \in {"idle", "create"}, Address(c, a, e, v)
  PROVE  InstantInv' /\ ConsentInv' /\ ReachInv'
<1>1. MailTypeOK BY DEF RowInv
<1>2. row'[a] = Recipient(e, v, 0, FALSE) /\ \A b \in Alerts \ {a} : row'[b] = row[b]
  BY <1>1 DEF Address, MailTypeOK
<1>3. UNCHANGED <<stamp, press, mails, lost>> BY DEF Address
<1>4. consent' = [consent EXCEPT ![a] = IF v THEN {e} ELSE {}] BY DEF Address
<1>5. \A b \in Alerts \ {a} : consent'[b] = consent[b] BY <1>1, <1>4 DEF MailTypeOK
<1>6. v => e \in consent'[a] BY <1>1, <1>4 DEF MailTypeOK
<1>7. There(a)' => /\ row'[a].sentAt = 0 /\ (row'[a].confirmed => row'[a].email \in consent'[a])
                   /\ (row'[a].stopped => ~row'[a].confirmed)
  BY <1>2, <1>6 DEF Recipient
<1>8. \A d \in Calls : /\ InFlight(d) => call'[d] = call[d]
                       /\ InFlight(d)' => InFlight(d)
                       /\ Sends(d)' => call'[d] = call[d] \/ call'[d].prev = 0
  <2> DEFINE r == [step |-> "reserve", alert |-> a, email |-> e, prev |-> 0, at |-> 0, owes |-> TRUE]
  <2>1. call' = [call EXCEPT ![c] = r] \/ call' = [call EXCEPT ![c] = Idle]
    BY DEF Address, EndCall, Mailing
  <2>2. r \in CallType /\ Idle \in CallType BY MailAssumption DEF CallType, Sending, Stamps
  <2>3. OthersWait(c) /\ (call'[c] = r \/ call'[c] = Idle) BY <1>1, <2>1, <2>2, CallGoes
  <2> QED BY <2>3 DEF OthersWait, InFlight, Sends, Idle
<1> QED BY <1>2, <1>3, <1>5, <1>7, <1>8, ResetKeeps

LEMMA CreateMoves ==
  ASSUME RowInv, NEW c \in Calls,
         \/ Create(c)
         \/ \E a \in Alerts, e \in Addresses : ChangeAddress(c, a, e)
  PROVE  InstantInv' /\ ConsentInv' /\ ReachInv'
<1>1. CASE Create(c)
  <2>1. call[c].step = "create" /\ Address(c, call[c].alert, call[c].email, call[c].verified)
    BY <1>1 DEF Create, At
  <2>2. call[c].alert \in Alerts /\ call[c].email \in Addresses /\ call[c].verified \in BOOLEAN
    BY <2>1, CallCreates DEF RowInv, Creation
  <2> QED BY <2>1, <2>2, AddressMoves
<1>2. CASE \E a \in Alerts, e \in Addresses : ChangeAddress(c, a, e)
  <2>1. PICK a \in Alerts, e \in Addresses : ChangeAddress(c, a, e) BY <1>2
  <2>2. call[c].step = "idle" /\ Address(c, a, e, e \in members)
    BY <2>1 DEF ChangeAddress, At
  <2>3. (e \in members) \in BOOLEAN OBVIOUS
  <2> QED BY <2>2, <2>3, AddressMoves
<1> QED BY <1>1, <1>2

LEMMA RemoveMoves ==
  ASSUME RowInv, NEW a \in Alerts, Remove(a)
  PROVE  InstantInv' /\ ConsentInv' /\ ReachInv'
<1>1. UNCHANGED <<stamp, call, press, mails, lost>> BY DEF Remove
<1>2. /\ row'[a] = Gone /\ \A b \in Alerts \ {a} : row'[b] = row[b] /\ consent'[b] = consent[b]
  BY DEF Remove, RowInv, MailTypeOK
<1>3. ~There(a)' BY <1>2 DEF There, Gone
<1>4. \A d \in Calls : /\ InFlight(d) => call'[d] = call[d]
                       /\ InFlight(d)' => InFlight(d)
                       /\ Sends(d)' => call'[d] = call[d] \/ call'[d].prev = 0
  BY <1>1 DEF InFlight
<1> QED BY <1>1, <1>2, <1>3, <1>4, ResetKeeps

\* A call ends, or goes on with its mail.
LEMMA StepOf ==
  ASSUME MailTypeOK, NEW c \in Calls
  PROVE  /\ EndCall(c) => call'[c] = Idle /\ OthersWait(c)
         /\ \A step \in {"send", "restore", "refund"}, owes \in BOOLEAN :
              MailGoes(c, step, owes) /\ Sends(c) =>
                /\ OthersWait(c) /\ call'[c].step = step
                /\ call'[c].alert = call[c].alert /\ call'[c].email = call[c].email
                /\ call'[c].prev = call[c].prev /\ call'[c].at = call[c].at
<1>1. ASSUME EndCall(c) PROVE call'[c] = Idle /\ OthersWait(c)
  BY <1>1, CallGoes DEF EndCall, CallType
<1>2. ASSUME NEW step \in {"send", "restore", "refund"}, NEW owes \in BOOLEAN,
             MailGoes(c, step, owes), Sends(c)
      PROVE  /\ OthersWait(c) /\ call'[c].step = step
             /\ call'[c].alert = call[c].alert /\ call'[c].email = call[c].email
             /\ call'[c].prev = call[c].prev /\ call'[c].at = call[c].at
  <2> DEFINE r == [step |-> step, alert |-> call[c].alert, email |-> call[c].email,
                   prev |-> call[c].prev, at |-> call[c].at, owes |-> owes]
  <2>1. call' = [call EXCEPT ![c] = r] BY <1>2 DEF MailGoes, Mailing
  <2>2. r \in CallType BY <1>2, CallSends DEF Sends, CallType, Sending
  <2>3. call'[c] = r /\ OthersWait(c) BY <2>1, <2>2, CallGoes
  <2> QED BY <2>3
<1> QED BY <1>1, <1>2

LEMMA CallMoves ==
  ASSUME RowInv, NEW c \in Calls, CallStep(c)
  PROVE  InstantInv' /\ ConsentInv' /\ ReachInv'
<1> DEFINE Moved == InstantInv' /\ ConsentInv' /\ ReachInv'
<1>1. MailTypeOK BY DEF RowInv
<1>2. ASSUME EndCall(c), UNCHANGED <<row, stamp, press, consent>>, lost => lost',
             \/ mails' = mails
             \/ InFlight(c) /\ mails' = mails \cup {Mail(c)},
             ~lost' /\ InFlight(c) => ~Awaits(c) \/ Mail(c) \in mails'
      PROVE  Moved
  <2>1. call'[c] = Idle /\ OthersWait(c) BY <1>1, <1>2, StepOf
  <2>2. ~InFlight(c)' /\ ~Sends(c)' BY <2>1 DEF InFlight, Sends, Idle
  <2> QED BY <1>2, <2>1, <2>2, MovesKeep
<1>3. ASSUME NEW step \in {"send", "restore"}, NEW owes \in BOOLEAN, MailGoes(c, step, owes),
             InFlight(c), UNCHANGED <<row, stamp, press, consent>>, lost => lost',
             mails' = mails \/ (mails' = mails \cup {Mail(c)} /\ lost')
      PROVE  Moved
  <2>1. Sends(c) BY <1>3 DEF InFlight, Sends
  <2>2. /\ OthersWait(c) /\ call'[c].step = step
        /\ call'[c].alert = call[c].alert /\ call'[c].email = call[c].email
        /\ call'[c].prev = call[c].prev /\ call'[c].at = call[c].at
    BY <1>1, <1>3, <2>1, StepOf
  <2>3. InFlight(c)' BY <2>2 DEF InFlight
  <2> QED BY <1>3, <2>2, <2>3, MovesKeep
<1>4. ASSUME MailGoes(c, "refund", TRUE), Sends(c), UNCHANGED <<row, stamp, press, consent, mails>>, lost => lost',
             ~lost' => ~Awaits(c)
      PROVE  Moved
  <2>1. OthersWait(c) /\ call'[c].step = "refund" BY <1>1, <1>4, StepOf
  <2>2. ~InFlight(c)' /\ ~Sends(c)' BY <2>1 DEF InFlight, Sends
  <2> QED BY <1>4, <2>1, <2>2, MovesKeep
<1>5. ASSUME NEW a \in Alerts, Resend(c, a) PROVE Moved
  <2> DEFINE r == [step |-> "reserve", alert |-> a, email |-> row[a].email,
                   prev |-> row[a].sentAt, at |-> 0, owes |-> FALSE]
  <2>1. There(a) /\ CooledDown(a) /\ call[c].step = "idle"
        /\ UNCHANGED <<row, stamp, press, mails, consent, lost>>
    BY <1>5 DEF Resend, Awaited, At
  <2>2. r \in CallType
    BY <1>1, <2>1, RowThere, MailAssumption DEF Row, CallType, Sending, Stamps
  <2>3. call' = [call EXCEPT ![c] = r] BY <1>5 DEF Resend, Mailing
  <2>4. call'[c] = r /\ OthersWait(c) BY <1>1, <2>2, <2>3, CallGoes
  <2>5. ~InFlight(c)' /\ ~InFlight(c) BY <2>1, <2>4 DEF InFlight
  <2>6. /\ call'[c].prev <= stamp
        /\ \A d \in Calls \ {c} : InFlight(d) /\ call[d].alert = call'[c].alert
                                   => call[d].at # call'[c].prev
    BY <2>1, <2>4 DEF RowInv, InstantInv, Instants, CooledDown, InFlight
  <2> QED BY <2>1, <2>4, <2>5, <2>6, MovesKeep
<1>6. ASSUME NEW a \in Alerts, NEW e \in Addresses, BeginCreate(c, a, e) PROVE Moved
  <2> DEFINE r == [step |-> "create", alert |-> a, email |-> e, verified |-> e \in members]
  <2>1. r \in CallType BY DEF CallType, Creation
  <2>2. call' = [call EXCEPT ![c] = r] /\ call[c].step = "idle"
        /\ UNCHANGED <<row, stamp, press, mails, consent, lost>>
    BY <1>6 DEF BeginCreate, Creating, At
  <2>3. call'[c] = r /\ OthersWait(c) BY <1>1, <2>1, <2>2, CallGoes
  <2>4. ~InFlight(c)' /\ ~Sends(c)' /\ ~InFlight(c) BY <2>2, <2>3 DEF InFlight, Sends
  <2> QED BY <2>2, <2>3, <2>4, MovesKeep
<1>7. ASSUME CreateRefused(c) \/ Refund(c) PROVE Moved
  <2>1. ~InFlight(c) BY <1>7 DEF CreateRefused, Refund, At, InFlight
  <2> QED BY <1>2, <1>7, <2>1 DEF CreateRefused, Refund
<1>8. ASSUME ReserveRefused(c) PROVE Moved
  <2>1. ~InFlight(c) /\ Sends(c) /\ ~Awaits(c)
    BY <1>8 DEF ReserveRefused, At, InFlight, Sends, Awaits
  <2>2. EndCall(c) \/ MailGoes(c, "refund", TRUE) BY <1>8 DEF ReserveRefused
  <2>3. UNCHANGED <<row, stamp, press, consent, mails, lost>> BY <1>8 DEF ReserveRefused
  <2> QED BY <1>2, <1>4, <2>1, <2>2, <2>3
<1>9. ASSUME ClaimReserved(c) \/ ClaimRefused(c) \/ SendFails(c) PROVE Moved
  <2>1. InFlight(c) BY <1>9 DEF ClaimReserved, ClaimRefused, SendFails, At, InFlight
  <2>2. UNCHANGED <<row, stamp, press, consent>>
    BY <1>9 DEF ClaimReserved, ClaimRefused, SendFails
  <2>5. lost => lost'
    <3>1. CASE ClaimReserved(c) \/ ClaimRefused(c) BY <3>1 DEF ClaimReserved, ClaimRefused
    <3>2. CASE SendFails(c)
      <4>1. UNCHANGED <<mails, lost>> \/ lost' = TRUE BY <3>2 DEF SendFails
      <4> QED BY <4>1
    <3> QED BY <1>9, <3>1, <3>2
  <2>3. mails' = mails \/ (mails' = mails \cup {Mail(c)} /\ lost')
    BY <1>9 DEF ClaimReserved, ClaimRefused, SendFails
  <2>4. \E step \in {"send", "restore"}, owes \in BOOLEAN : MailGoes(c, step, owes)
    BY <1>9 DEF ClaimReserved, ClaimRefused, SendFails
  <2> QED BY <1>3, <2>1, <2>2, <2>3, <2>4, <2>5
<1>10. ASSUME Send(c) PROVE Moved
  <2>1. InFlight(c) BY <1>10 DEF Send, At, InFlight
  <2> QED BY <1>2, <1>10, <2>1 DEF Send
<1>11. ASSUME CallDies(c) PROVE Moved
  <2>1. At(c, "send") => InFlight(c) BY DEF At, InFlight
  <2> QED BY <1>2, <1>11, <2>1 DEF CallDies
<1>12. ASSUME RestoreFails(c) \/ (Restore(c) /\ ~Awaits(c)) PROVE Moved
  <2>1. Sends(c) BY <1>12 DEF RestoreFails, Restore, At, Sends
  <2>2. UNCHANGED <<row, stamp, press, consent, mails>> /\ (lost => lost') /\ (~lost' => ~Awaits(c))
    BY <1>12 DEF RestoreFails, Restore, Awaits, At, InFlight
  <2>3. EndCall(c) \/ MailGoes(c, "refund", TRUE)
    BY <1>12 DEF RestoreFails, Restore, AfterRestore
  <2> QED BY <1>2, <1>4, <2>1, <2>2, <2>3
<1> QED BY <1>5, <1>6, <1>7, <1>8, <1>9, <1>10, <1>11, <1>12, CreateMoves, ReserveMoves, RestoreMoves
        DEF CallStep

LEMMA RowStep ==
  ASSUME SpentInv, RowInv, [MailNext]_mailVars
  PROVE  RowInv'
<1>1. MailTypeOK' BY SpentStep DEF SpentInv
<1>2. CASE UNCHANGED mailVars
  <2>1. UNCHANGED <<row, stamp, call, press, mails, consent, lost>> BY <1>2 DEF mailVars
  <2>2. InstantInv' /\ ConsentInv' /\ ReachInv' BY <2>1, LinksKeep DEF There
  <2> QED BY <1>1, <2>2 DEF RowInv
<1>3. CASE MailNext
  BY <1>1, <1>3, CallMoves, PressMoves, RemoveMoves DEF MailNext, RowInv
<1> QED BY <1>2, <1>3

LEMMA RowInit == MailInit => RowInv
<1> SUFFICES ASSUME MailInit PROVE RowInv OBVIOUS
<1>1. MailTypeOK BY SpentInit DEF SpentInv
<1>2. /\ \A a \in Alerts : ~There(a)
      /\ \A p \in Presses : press[p].step # "confirm"
  BY DEF MailInit, There, Unmade, Idle
<1>3. mails = {} BY DEF MailInit
<1>4. \A c \in Calls : ~Sends(c) /\ ~InFlight(c) /\ ~Awaits(c)
  BY DEF MailInit, Sends, InFlight, Awaits, Idle
<1>5. InstantInv
  BY <1>2, <1>3, <1>4 DEF InstantInv, Instants, NoneGivenBack, RowIsNewer, PrevIsNewer, AddressKept
<1>6. ConsentInv BY <1>2 DEF ConsentInv, LinksAreBacked, ConsentBacks, StaysOff
<1>7. ReachInv BY <1>2, <1>3, <1>4 DEF ReachInv, RowReached, PrevReached, NoneNewer
<1> QED BY <1>1, <1>5, <1>6, <1>7 DEF RowInv

\* What is known of instants, links and mails holds in every state.
THEOREM RowInvHolds == MailSpec => []RowInv
<1>1. SpentInv /\ RowInv /\ [MailNext]_mailVars => RowInv' BY RowStep
<1> QED BY <1>1, RowInit, SpentInvHolds, PTL DEF MailSpec

\* An alert delivers only to an address whose owner agreed to it while it had this
\* address, however many links, calls and mails overlap.
THEOREM ConsentIsBacked == MailSpec => []ConsentBacks
<1>1. RowInv => ConsentBacks BY DEF RowInv, ConsentInv
<1> QED BY <1>1, RowInvHolds, PTL

\* A recipient who stopped an alert stays off it.
THEOREM StoppedStayOff == MailSpec => []StaysOff
<1>1. RowInv => StaysOff BY DEF RowInv, ConsentInv
<1> QED BY <1>1, RowInvHolds, PTL

\* While no answer was lost, the newest mail the recipient has is the one whose link
\* works, for any number of calls that send and fail side by side.
THEOREM NewestLinksWork == MailSpec => []NewestLinkWorks
<1>1. ASSUME RowInv PROVE NewestLinkWorks
  <2> SUFFICES ASSUME NEW a \in Alerts, There(a), row[a].sentAt # 0, ~lost, ~Busy(a)
               PROVE  /\ \E m \in mails : Good(m) /\ m.alert = a
                      /\ \A m \in mails : m.alert = a /\ m.to = row[a].email => m.at <= row[a].sentAt
    BY DEF NewestLinkWorks
  <2>1. \A c \in Calls : ~(Awaits(c) /\ call[c].alert = a)
    BY DEF Busy, Awaits, InFlight, At
  <2>2. Received(a, row[a].sentAt) BY <1>1, <2>1 DEF RowInv, ReachInv, RowReached
  <2>3. \E m \in mails : Good(m) /\ m.alert = a BY <2>2 DEF Received, Good
  <2> QED BY <1>1, <2>3 DEF RowInv, ReachInv, NoneNewer
<1> QED BY <1>1, RowInvHolds, PTL
=============================================================================
