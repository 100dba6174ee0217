----------------------- MODULE WorkspaceErasureProofs -----------------------
(***************************************************************************)
(* What WorkspaceErasure promises for any number of runs, requests and     *)
(* checkouts, any grace period and any number of customers.  That nobody   *)
(* is billed for an erased workspace needs to know of checkouts that the   *)
(* only customer who can pay or has paid is the one the row names, and of  *)
(* a run about to finish that the customer it released is dead.  This is   *)
(* BillingInv.  That a cancellation finds the customer as it was needs     *)
(* CancelInv: a customer who is gone is gone under a claim, and the claim  *)
(* outlives the run that died.                                             *)
(***************************************************************************)
EXTENDS WorkspaceErasure, TLAPS

\* Whoever has subscribed, or can, is the customer of a workspace that is there.
SubscribersAreNamed ==
  \A c \in Customers : /\ Paid(c) => Alive(c)
                       /\ c \in payable => known[c] # "unmade"
                       /\ Paid(c) \/ c \in payable => (Alive(c) => present /\ customer = c)

\* The row names customers in order, each in place of one that is gone.
NamesTheLast ==
  /\ customer # 0 => known[customer] # "unmade"
  /\ present => \A c \in Customers : c < customer => known[c] = "deleted"

\* What a checkout remembers of its customer at each of its steps.
Remembers(k) ==
  LET c == call[k].customer
  IN /\ call[k].step \in {"exists", "create", "store"} =>
          /\ c # 0 => known[c] # "unmade"
          /\ present => c <= customer
     /\ call[k].step \in {"create", "store"} => ~Alive(c)
     /\ call[k].step = "store" => known[c + 1] # "unmade"
     /\ call[k].step \in {"claim", "open", "record"} =>
          c # 0 /\ known[c] # "unmade" /\ (present /\ Alive(c) => customer = c)
CallsRemember == \A k \in Calls : Remembers(k)

\* A run that finishes has released its customer, if it had one.
FinishersReleased ==
  \A r \in Runs : run[r].step = "finish" =>
    run[r].customer = 0 \/ known[run[r].customer] = "deleted"

BillingInv == SubscribersAreNamed /\ NamesTheLast /\ CallsRemember /\ FinishersReleased
-----------------------------------------------------------------------------
(* What the ways to write a local step do, and that they keep its type *)

\* A run goes to a step, with the time and customer it names.
LEMMA RunsOn ==
  ASSUME RunsOK, NEW r \in Runs, NEW s \in RunSteps, NEW i \in 0..MaxTime,
         NEW c \in AnyCustomer, Running(r, s, i, c), s = "release" => c # 0
  PROVE  /\ RunsOK'
         /\ run'[r].step = s /\ run'[r].customer = c
         /\ \A o \in Runs \ {r} : run'[o] = run[o]
<1>1. [step |-> s, at |-> i, customer |-> c] \in RunType
  BY DEF RunType
<1>2. /\ run' \in [Runs -> RunType]
      /\ run'[r] = [step |-> s, at |-> i, customer |-> c]
      /\ \A o \in Runs \ {r} : run'[o] = run[o]
  BY <1>1 DEF Running, RunsOK
<1>3. QED
  BY <1>2 DEF RunsOK

\* A run goes to another step and keeps what it knows.
LEMMA RunGoes ==
  ASSUME RunsOK, NEW r \in Runs, NEW s \in RunSteps \ {"release"}, Goto(r, s)
  PROVE  /\ RunsOK'
         /\ run'[r].step = s /\ run'[r].customer = run[r].customer
         /\ \A o \in Runs \ {r} : run'[o] = run[o]
<1>1. run[r].at \in 0..MaxTime /\ run[r].customer \in AnyCustomer
  BY DEF RunsOK, RunType
<1>2. QED
  BY <1>1, RunsOn DEF Goto

\* A run that ends forgets what it knew.
LEMMA RunOver ==
  ASSUME RunsOK, NEW r \in Runs, EndRun(r)
  PROVE  /\ RunsOK'
         /\ run'[r].step = "idle"
         /\ \A o \in Runs \ {r} : run'[o] = run[o]
<1>1. "idle" \in RunSteps /\ 0 \in 0..MaxTime /\ 0 \in AnyCustomer
  BY ErasureAssumption DEF RunSteps, AnyCustomer
<1>2. Running(r, "idle", 0, 0)
  BY DEF EndRun, Resting, Running
<1>3. QED
  BY <1>1, <1>2, RunsOn

\* A request goes to a step; it goes to cancel a trial only with one.
LEMMA AsksOn ==
  ASSUME AsksOK, NEW q \in Requests, NEW s \in AskSteps, NEW i \in 0..MaxTime,
         NEW t \in AnyCustomer, Asks(q, s, i, t), s = "cancelTrial" => t # 0
  PROVE  AsksOK'
<1>1. [step |-> s, at |-> i, trial |-> t] \in AskType
  BY DEF AskType
<1>2. /\ ask' \in [Requests -> AskType]
      /\ ask'[q] = [step |-> s, at |-> i, trial |-> t]
      /\ \A o \in Requests \ {q} : ask'[o] = ask[o]
  BY <1>1 DEF Asks, AsksOK
<1>3. QED
  BY <1>2 DEF AsksOK

\* A request ends.
LEMMA AskOver ==
  ASSUME AsksOK, NEW q \in Requests, AskEnds(q)
  PROVE  AsksOK'
<1>1. "idle" \in AskSteps /\ 0 \in 0..MaxTime /\ 0 \in AnyCustomer
  BY ErasureAssumption DEF AskSteps, AnyCustomer
<1>2. Asks(q, "idle", 0, 0)
  BY DEF AskEnds, Unasked, Asks
<1>3. QED
  BY <1>1, <1>2, AsksOn

\* A checkout goes to a step with a customer fit for it.
LEMMA CallsOn ==
  ASSUME CallsOK, NEW k \in Calls, NEW s \in CallSteps, NEW c \in AnyCustomer,
         Calling(k, s, c), s = "store" => c < MaxCustomers, s = "record" => c # 0
  PROVE  /\ CallsOK'
         /\ call'[k].step = s /\ call'[k].customer = c
         /\ \A o \in Calls \ {k} : call'[o] = call[o]
<1>1. [step |-> s, customer |-> c] \in CallType
  BY DEF CallType
<1>2. /\ call' \in [Calls -> CallType]
      /\ call'[k] = [step |-> s, customer |-> c]
      /\ \A o \in Calls \ {k} : call'[o] = call[o]
  BY <1>1 DEF Calling, CallsOK
<1>3. QED
  BY <1>2 DEF CallsOK
-----------------------------------------------------------------------------
(* The types, one group of variables at a time *)

\* The flags stay flags.
LEMMA FlagsStep == FlagsOK /\ [Next]_vars => FlagsOK'
<1> SUFFICES ASSUME FlagsOK, [Next]_vars PROVE FlagsOK'
  OBVIOUS
<1> USE DEF FlagsOK, rowVars, accountVars, stripeVars
<1>1. CASE UNCHANGED vars
  BY <1>1 DEF vars
<1>2. CASE Tick \/ CancelDeletion \/ RowLearns \/ AccountsChange
  BY <1>2 DEF Tick, CancelDeletion, RowLearns, AccountsChange
<1>3. ASSUME NEW q \in Requests, RequestStep(q) PROVE FlagsOK'
  BY <1>3 DEF RequestStep, RequestDeletion, ReadTrial, CancelTrial, ScheduleDeletion,
     RequestFails
<1>4. ASSUME NEW r \in Runs, RunGoesOn(r) \/ RunFails(r) PROVE FlagsOK'
  BY <1>4 DEF RunGoesOn, RunFails, FindDue, CheckOperator, Withdraw, ClaimErasure,
     ReadCustomer, ReleaseBilling, LetGo, FinishErasure, ReleaseFails, CrashRun,
     NothingDue, Erase
<1>5. ASSUME NEW k \in Calls, CallStep(k) PROVE FlagsOK'
  BY <1>5 DEF CallStep, ReadStored, CustomerExists, CreateCustomer, StoreCustomer,
     ClaimCheckout, OpenSession, RecordSession, CallEnds
<1>6. ASSUME NEW c \in Customers, Pay(c) \/ PeriodEnds(c) PROVE FlagsOK'
  BY <1>6 DEF Pay, PeriodEnds
<1>7. QED
  BY <1>1, <1>2, <1>3, <1>4, <1>5, <1>6 DEF Next

\* Dates stay within the grace period of the clock, customers are those Stripe made.
LEMMA RowStep == TypeOK /\ [Next]_vars => RowOK'
<1> SUFFICES ASSUME FlagsOK, RowOK, AsksOK, CallsOK, [Next]_vars PROVE RowOK'
  BY DEF TypeOK
<1> USE DEF RowOK, rowVars, accountVars, stripeVars
<1>1. CASE UNCHANGED vars
  BY <1>1 DEF vars
<1>2. CASE Tick \/ CancelDeletion \/ RowLearns \/ AccountsChange
  BY <1>2, ErasureAssumption DEF Tick, CancelDeletion, RowLearns, AccountsChange, AnyCustomer
<1>3. ASSUME NEW q \in Requests, RequestStep(q) PROVE RowOK'
  <2>1. CASE ScheduleDeletion(q)
    <3>1. ask[q].at \in 0..MaxTime
      BY DEF AsksOK, AskType
    <3>2. ask[q].at + Grace \in 0..(MaxTime + Grace)
      BY <3>1, ErasureAssumption
    <3>3. QED
      BY <2>1, <3>2 DEF ScheduleDeletion
  <2>2. QED
    BY <1>3, <2>1 DEF RequestStep, RequestDeletion, ReadTrial, CancelTrial, RequestFails
<1>4. ASSUME NEW r \in Runs, RunGoesOn(r) \/ RunFails(r) PROVE RowOK'
  <2>1. 0 \in AnyCustomer /\ 0 \in 0..(MaxTime + Grace)
    BY ErasureAssumption DEF AnyCustomer
  <2>2. CASE Withdraw(r) \/ FinishErasure(r)
    BY <2>1, <2>2 DEF Withdraw, FinishErasure, NothingDue, Erase
  <2>3. QED
    BY <1>4, <2>2 DEF RunGoesOn, RunFails, FindDue, CheckOperator, ClaimErasure,
       ReadCustomer, ReleaseBilling, LetGo, ReleaseFails, CrashRun
<1>5. ASSUME NEW k \in Calls, CallStep(k) PROVE RowOK'
  <2>1. CASE StoreCustomer(k)
    <3>1. customer = call[k].customer => customer + 1 \in AnyCustomer
      BY <2>1, ErasureAssumption DEF StoreCustomer, Hangs, CallsOK, AnyCustomer, Customers
    <3>2. QED
      BY <2>1, <3>1 DEF StoreCustomer
  <2>2. QED
    BY <1>5, <2>1 DEF CallStep, ReadStored, CustomerExists, CreateCustomer,
       ClaimCheckout, OpenSession, RecordSession, CallEnds
<1>6. ASSUME NEW c \in Customers, Pay(c) \/ PeriodEnds(c) PROVE RowOK'
  BY <1>6 DEF Pay, PeriodEnds
<1>7. QED
  BY <1>1, <1>2, <1>3, <1>4, <1>5, <1>6 DEF Next

\* Stripe keeps the states of its customers and subscriptions.
LEMMA StripeStep == TypeOK /\ [Next]_vars => StripeOK'
<1> SUFFICES ASSUME FlagsOK, StripeOK, CallsOK, [Next]_vars PROVE StripeOK'
  BY DEF TypeOK
<1> USE DEF StripeOK, rowVars, accountVars, stripeVars
<1>1. CASE UNCHANGED vars
  BY <1>1 DEF vars
<1>2. CASE Tick \/ CancelDeletion \/ RowLearns \/ AccountsChange
  BY <1>2 DEF Tick, CancelDeletion, RowLearns, AccountsChange
<1>3. ASSUME NEW q \in Requests, RequestStep(q) PROVE StripeOK'
  BY <1>3 DEF RequestStep, RequestDeletion, ReadTrial, CancelTrial, ScheduleDeletion,
     RequestFails, EndsAtPeriod
<1>4. ASSUME NEW r \in Runs, RunGoesOn(r) \/ RunFails(r) PROVE StripeOK'
  BY <1>4 DEF RunGoesOn, RunFails, FindDue, CheckOperator, Withdraw, ClaimErasure,
     ReadCustomer, ReleaseBilling, LetGo, FinishErasure, ReleaseFails, CrashRun,
     DeleteCustomer
<1>5. ASSUME NEW k \in Calls, CallStep(k) PROVE StripeOK'
  <2>1. CASE RecordSession(k)
    <3>1. call[k].customer \in Customers
      BY <2>1 DEF RecordSession, Hangs, CallsOK, CallType, AnyCustomer
    <3>2. QED
      BY <2>1, <3>1 DEF RecordSession
  <2>2. QED
    BY <1>5, <2>1 DEF CallStep, ReadStored, CustomerExists, CreateCustomer, StoreCustomer,
       ClaimCheckout, OpenSession, CallEnds
<1>6. ASSUME NEW c \in Customers, Pay(c) \/ PeriodEnds(c) PROVE StripeOK'
  BY <1>6 DEF Pay, PeriodEnds
<1>7. QED
  BY <1>1, <1>2, <1>3, <1>4, <1>5, <1>6 DEF Next

\* A run keeps its own step; only ReadCustomer sends it to release, and then for a customer.
LEMMA RunsStep == TypeOK /\ [Next]_vars => RunsOK'
<1> SUFFICES ASSUME RowOK, RunsOK, [Next]_vars PROVE RunsOK'
  BY DEF TypeOK
<1>1. CASE UNCHANGED run
  BY <1>1 DEF RunsOK
<1>2. ASSUME NEW r \in Runs, RunGoesOn(r) \/ RunFails(r) PROVE RunsOK'
  <2> USE DEF RunSteps, Step
  <2>0. run[r].at \in 0..MaxTime /\ run[r].customer \in AnyCustomer
    BY DEF RunsOK, RunType
  <2>1. CASE FindDue(r)
    <3>1. now \in 0..MaxTime /\ 0 \in AnyCustomer
      BY ErasureAssumption DEF RowOK, AnyCustomer
    <3>2. QED
      BY <2>1, <3>1, RunsOn DEF FindDue
  <2>2. CASE ReadCustomer(r)
    <3>1. customer \in AnyCustomer
      BY DEF RowOK
    <3>2. QED
      BY <2>0, <2>2, <3>1, RunsOn, RunOver DEF ReadCustomer
  <2>3. CASE CheckOperator(r) \/ ClaimErasure(r) \/ ReleaseBilling(r) \/ ReleaseFails(r)
    BY <2>3, RunGoes, RunOver
       DEF CheckOperator, ClaimErasure, ReleaseBilling, ReleaseFails
  <2>4. CASE Withdraw(r) \/ LetGo(r) \/ FinishErasure(r) \/ CrashRun(r)
    BY <2>4, RunOver DEF Withdraw, LetGo, FinishErasure, CrashRun
  <2>5. QED
    BY <1>2, <2>1, <2>2, <2>3, <2>4 DEF RunGoesOn, RunFails
<1>3. CASE \A r \in Runs : ~(RunGoesOn(r) \/ RunFails(r))
  <2>1. UNCHANGED run
    BY <1>3 DEF Next, vars, Tick, CancelDeletion, RowLearns, AccountsChange, RequestStep,
       RequestDeletion, ReadTrial, CancelTrial, ScheduleDeletion, RequestFails, CallStep,
       ReadStored, CustomerExists, CreateCustomer, StoreCustomer, ClaimCheckout, OpenSession,
       RecordSession, CallEnds, Pay, PeriodEnds
  <2>2. QED
    BY <1>1, <2>1
<1>4. QED
  BY <1>2, <1>3

\* A request that cancels a trial has read one.
LEMMA AsksStep == TypeOK /\ [Next]_vars => AsksOK'
<1> SUFFICES ASSUME RowOK, AsksOK, [Next]_vars PROVE AsksOK'
  BY DEF TypeOK
<1>1. CASE UNCHANGED ask
  BY <1>1 DEF AsksOK
<1>2. ASSUME NEW q \in Requests, RequestStep(q) PROVE AsksOK'
  <2> USE DEF AskSteps
  <2>0. ask[q].at \in 0..MaxTime /\ ask[q].trial \in AnyCustomer
    BY DEF AsksOK, AskType
  <2>1. CASE RequestDeletion(q)
    <3>1. now \in 0..MaxTime /\ 0 \in AnyCustomer
      BY ErasureAssumption DEF RowOK, AnyCustomer
    <3>2. QED
      BY <2>1, <3>1, AsksOn DEF RequestDeletion
  <2>2. CASE ReadTrial(q)
    <3>1. trial \in AnyCustomer
      BY DEF RowOK
    <3>2. QED
      BY <2>0, <2>2, <3>1, AsksOn DEF ReadTrial
  <2>3. CASE CancelTrial(q)
    BY <2>0, <2>3, AsksOn DEF CancelTrial
  <2>4. CASE ScheduleDeletion(q) \/ RequestFails(q)
    BY <2>4, AskOver DEF ScheduleDeletion, RequestFails
  <2>5. QED
    BY <1>2, <2>1, <2>2, <2>3, <2>4 DEF RequestStep
<1>3. CASE \A q \in Requests : ~RequestStep(q)
  <2>1. UNCHANGED ask
    BY <1>3 DEF Next, vars, Tick, CancelDeletion, RowLearns, AccountsChange, RunGoesOn,
       RunFails, FindDue, CheckOperator, Withdraw, ClaimErasure, ReadCustomer,
       ReleaseBilling, LetGo, FinishErasure, ReleaseFails, CrashRun, CallStep, ReadStored,
       CustomerExists, CreateCustomer, StoreCustomer, ClaimCheckout, OpenSession,
       RecordSession, CallEnds, Pay, PeriodEnds
  <2>2. QED
    BY <1>1, <2>1
<1>4. QED
  BY <1>2, <1>3

\* A checkout stores the successor of what it read, and records for a customer.
LEMMA CallsStep == TypeOK /\ [Next]_vars => CallsOK'
<1> SUFFICES ASSUME FlagsOK, RowOK, CallsOK, [Next]_vars PROVE CallsOK'
  BY DEF TypeOK
<1>1. CASE UNCHANGED call
  BY <1>1 DEF CallsOK
<1>2. ASSUME NEW k \in Calls, CallStep(k) PROVE CallsOK'
  <2> USE DEF CallSteps, Hangs
  <2>0. call[k].customer \in AnyCustomer /\ customer \in AnyCustomer /\ 0 \in AnyCustomer
    BY DEF CallsOK, CallType, RowOK, AnyCustomer
  <2>1. CASE ReadStored(k) \/ ClaimCheckout(k) \/ RecordSession(k) \/ CallEnds(k)
    BY <2>0, <2>1, CallsOn DEF ReadStored, ClaimCheckout, RecordSession, CallEnds
  <2>2. CASE CustomerExists(k)
    BY <2>0, <2>2, CallsOn DEF CustomerExists
  <2>3. CASE CreateCustomer(k)
    BY <2>0, <2>3, CallsOn DEF CreateCustomer
  <2>4. CASE StoreCustomer(k)
    <3>1. call[k].customer + 1 \in AnyCustomer
      BY <2>0, <2>4, ErasureAssumption DEF CallsOK, StoreCustomer, AnyCustomer, Customers
    <3>2. QED
      BY <2>0, <2>4, <3>1, CallsOn DEF StoreCustomer
  <2>5. CASE OpenSession(k)
    BY <2>0, <2>5, CallsOn DEF OpenSession, Alive
  <2>6. QED
    BY <1>2, <2>1, <2>2, <2>3, <2>4, <2>5 DEF CallStep
<1>3. CASE \A k \in Calls : ~CallStep(k)
  <2>1. UNCHANGED call
    BY <1>3 DEF Next, vars, Tick, CancelDeletion, RowLearns, AccountsChange, RunGoesOn,
       RunFails, FindDue, CheckOperator, Withdraw, ClaimErasure, ReadCustomer,
       ReleaseBilling, LetGo, FinishErasure, ReleaseFails, CrashRun, RequestStep,
       RequestDeletion, ReadTrial, CancelTrial, ScheduleDeletion, RequestFails, Pay,
       PeriodEnds
  <2>2. QED
    BY <1>1, <2>1
<1>4. QED
  BY <1>2, <1>3

\* Every step of the system keeps the types.
LEMMA TypeStep == TypeOK /\ [Next]_vars => TypeOK'
BY FlagsStep, RowStep, StripeStep, RunsStep, AsksStep, CallsStep DEF TypeOK

\* The types hold at the start.
LEMMA TypeInit == Init => TypeOK
<1> SUFFICES ASSUME Init PROVE TypeOK
  OBVIOUS
<1>1. Resting \in RunType /\ Unasked \in AskType /\ NoCall \in CallType
  BY ErasureAssumption
     DEF Resting, RunType, RunSteps, Unasked, AskType, AskSteps, NoCall, CallType,
         CallSteps, AnyCustomer
<1>2. FlagsOK
  BY DEF Init, FlagsOK
<1>3. RowOK
  BY ErasureAssumption DEF Init, RowOK, AnyCustomer
<1>4. StripeOK
  BY DEF Init, StripeOK
<1>5. RunsOK /\ AsksOK /\ CallsOK
  BY <1>1 DEF Init, RunsOK, AsksOK, CallsOK, Resting, Unasked, NoCall
<1>6. QED
  BY <1>2, <1>3, <1>4, <1>5 DEF TypeOK

\* Types hold in every state of the deletion of a workspace.
THEOREM ErasureTypes == Spec => []TypeOK
BY TypeInit, TypeStep, PTL DEF Spec
-----------------------------------------------------------------------------
(* Nobody is billed for an erased workspace *)

billingVars == <<present, customer, stripeVars, run, call>>

\* Steps that change neither customer nor subscription nor checkout disturb nothing.
LEMMA BillingUntouched == BillingInv /\ UNCHANGED billingVars => BillingInv'
BY DEF BillingInv, billingVars, stripeVars, SubscribersAreNamed, NamesTheLast, CallsRemember, Remembers,
   FinishersReleased, Paid, Alive

\* Who has subscribed still has when the subscription is told to end.
LEMMA BillingEnding ==
  ASSUME TypeOK, BillingInv, NEW d, EndsAtPeriod(d), UNCHANGED <<present, customer, known,
         payable, run, call>>
  PROVE  BillingInv'
<1>1. \A c \in Customers : Paid(c)' <=> Paid(c)
  BY DEF EndsAtPeriod, Paid, TypeOK, StripeOK
<1>2. QED
  BY <1>1 DEF BillingInv, SubscribersAreNamed, NamesTheLast, CallsRemember, Remembers,
     FinishersReleased, Alive

\* A run that does not come to finish disturbs nothing.
LEMMA BillingRunMoves ==
  ASSUME TypeOK, BillingInv, NEW r \in Runs, run'[r].step # "finish",
         \A o \in Runs \ {r} : run'[o] = run[o],
         UNCHANGED <<present, customer, stripeVars, call>>
  PROVE  BillingInv'
<1>1. FinishersReleased'
  BY DEF BillingInv, FinishersReleased, stripeVars
<1>2. QED
  BY <1>1 DEF BillingInv, stripeVars, SubscribersAreNamed, NamesTheLast, CallsRemember, Remembers,
     Paid, Alive

\* Deleting a customer takes its subscription with it.
LEMMA BillingDeletes ==
  ASSUME TypeOK, BillingInv, NEW r \in Runs, NEW d \in Customers, DeleteCustomer(d),
         run'[r].step = "finish" => run'[r].customer = d,
         \A o \in Runs \ {r} : run'[o] = run[o],
         UNCHANGED <<present, customer, call>>
  PROVE  BillingInv'
<1>1. /\ known'[d] = "deleted" /\ sub'[d] = "over"
      /\ \A c \in Customers \ {d} : known'[c] = known[c] /\ sub'[c] = sub[c]
      /\ payable' = payable
  BY DEF DeleteCustomer, TypeOK, StripeOK
<1>2. 0 \notin Customers
  BY DEF Customers
<1>3. \A k \in Calls : call[k].customer \in AnyCustomer
  BY DEF TypeOK, CallsOK, CallType
<1>4. \A o \in Runs : run[o].customer \in AnyCustomer
  BY DEF TypeOK, RunsOK, RunType
<1>5. SubscribersAreNamed'
  BY <1>1, <1>2 DEF BillingInv, SubscribersAreNamed, Paid, Alive
<1>6. NamesTheLast'
  BY <1>1, <1>2 DEF BillingInv, NamesTheLast, TypeOK, RowOK, AnyCustomer
<1>7. FinishersReleased'
  BY <1>1, <1>4 DEF BillingInv, FinishersReleased, AnyCustomer
<1>8. CallsRemember'
  <2> SUFFICES ASSUME NEW k \in Calls PROVE Remembers(k)'
    BY DEF CallsRemember
  <2>1. call[k].step = "store" => call[k].customer + 1 \in Customers
    BY <1>3, ErasureAssumption DEF TypeOK, CallsOK, AnyCustomer, Customers
  <2>2. QED
    BY <1>1, <1>2, <1>3, <2>1 DEF BillingInv, CallsRemember, Remembers, Alive, AnyCustomer
<1>9. QED
  BY <1>5, <1>6, <1>7, <1>8 DEF BillingInv

\* The retention job: a workspace goes only after the customer it names was released.
LEMMA BillingOfRuns ==
  ASSUME TypeOK, BillingInv, NEW r \in Runs, RunGoesOn(r) \/ RunFails(r)
  PROVE  BillingInv'
<1> USE DEF rowVars, accountVars, stripeVars, Step
<1>0. run[r].customer \in AnyCustomer /\ RunsOK
  BY DEF TypeOK, RunsOK, RunType
<1>1. CASE FindDue(r)
  <2>1. now \in 0..MaxTime /\ 0 \in AnyCustomer
    BY ErasureAssumption DEF TypeOK, RowOK, AnyCustomer
  <2>2. run'[r].step # "finish" /\ \A o \in Runs \ {r} : run'[o] = run[o]
    BY <1>0, <1>1, <2>1, RunsOn DEF FindDue, RunSteps
  <2>3. QED
    BY <1>1, <2>2, BillingRunMoves DEF FindDue
<1>2. CASE CheckOperator(r) \/ ClaimErasure(r)
  <2>1. run'[r].step # "finish" /\ \A o \in Runs \ {r} : run'[o] = run[o]
    BY <1>0, <1>2, RunGoes, RunOver DEF CheckOperator, ClaimErasure, RunSteps
  <2>2. QED
    BY <1>2, <2>1, BillingRunMoves DEF CheckOperator, ClaimErasure
<1>3. CASE Withdraw(r) \/ LetGo(r)
  <2>1. run'[r].step # "finish" /\ \A o \in Runs \ {r} : run'[o] = run[o]
    BY <1>0, <1>3, RunOver DEF Withdraw, LetGo
  <2>2. QED
    BY <1>3, <2>1, BillingRunMoves DEF Withdraw, LetGo
<1>4. CASE ReadCustomer(r)
  <2>1. customer \in AnyCustomer /\ run[r].at \in 0..MaxTime
    BY DEF TypeOK, RowOK, RunsOK, RunType
  <2>2. /\ run'[r].step = "finish" => run'[r].customer = 0
        /\ \A o \in Runs \ {r} : run'[o] = run[o]
    BY <1>0, <1>4, <2>1, RunsOn, RunOver DEF ReadCustomer, RunSteps
  <2>3. FinishersReleased'
    BY <1>4, <2>2 DEF ReadCustomer, BillingInv, FinishersReleased
  <2>4. QED
    BY <1>4, <2>3 DEF ReadCustomer, BillingInv, SubscribersAreNamed, NamesTheLast,
       CallsRemember, Remembers, Paid, Alive
<1>5. CASE ReleaseBilling(r)
  <2>1. run[r].customer \in Customers
    BY <1>0, <1>5 DEF ReleaseBilling, RunsOK, AnyCustomer
  <2>2. run'[r].customer = run[r].customer /\ \A o \in Runs \ {r} : run'[o] = run[o]
    BY <1>0, <1>5, RunGoes DEF ReleaseBilling, RunSteps
  <2>3. QED
    BY <1>5, <2>1, <2>2, BillingDeletes DEF ReleaseBilling
<1>6. CASE ReleaseFails(r)
  <2>1. run[r].customer \in Customers
    BY <1>0, <1>6 DEF ReleaseFails, RunsOK, AnyCustomer
  <2>2. run'[r].step # "finish" /\ \A o \in Runs \ {r} : run'[o] = run[o]
    BY <1>0, <1>6, RunGoes DEF ReleaseFails, RunSteps
  <2>3. QED
    BY <1>6, <2>1, <2>2, BillingDeletes, BillingRunMoves DEF ReleaseFails
<1>7. CASE CrashRun(r)
  <2>1. run'[r].step # "finish" /\ \A o \in Runs \ {r} : run'[o] = run[o]
    BY <1>0, <1>7, RunOver DEF CrashRun
  <2>2. CASE UNCHANGED stripeVars
    BY <1>7, <2>1, <2>2, BillingRunMoves DEF CrashRun
  <2>3. CASE run[r].step = "release" /\ DeleteCustomer(run[r].customer)
    <3>1. run[r].customer \in Customers
      BY <1>0, <2>3 DEF RunsOK, AnyCustomer
    <3>2. QED
      BY <1>7, <2>1, <2>3, <3>1, BillingDeletes DEF CrashRun
  <2>4. QED
    BY <1>7, <2>2, <2>3 DEF CrashRun
<1>8. CASE FinishErasure(r)
  <2>1. run'[r].step # "finish" /\ \A o \in Runs \ {r} : run'[o] = run[o]
    BY <1>0, <1>8, RunOver DEF FinishErasure
  <2>2. CASE Erase
    <3>1. customer = run[r].customer \/ UNCHANGED <<present, customer>>
      BY <1>8 DEF FinishErasure
    <3>2. CASE UNCHANGED <<present, customer>>
      BY <1>8, <2>1, <3>2, BillingRunMoves DEF FinishErasure
    <3>3. CASE customer = run[r].customer
      <4>1. ~Alive(customer)
        BY <1>8, <3>3 DEF FinishErasure, BillingInv, FinishersReleased, Alive
      <4>2. SubscribersAreNamed'
        BY <1>8, <2>2, <4>1 DEF FinishErasure, Erase, BillingInv, SubscribersAreNamed,
           Paid, Alive
      <4>3. NamesTheLast' /\ FinishersReleased'
        BY <1>8, <2>1, <2>2 DEF FinishErasure, Erase, BillingInv, NamesTheLast,
           FinishersReleased
      <4>4. CallsRemember'
        BY <1>8, <2>2 DEF FinishErasure, Erase, BillingInv, CallsRemember, Remembers, Alive
      <4>5. QED
        BY <4>2, <4>3, <4>4 DEF BillingInv
    <3>4. QED
      BY <3>1, <3>2, <3>3
  <2>3. CASE ~Erase
    <3>1. UNCHANGED <<present, customer>>
      BY <1>8, <2>3 DEF FinishErasure
    <3>2. QED
      BY <1>8, <2>1, <3>1, BillingRunMoves DEF FinishErasure
  <2>4. QED
    BY <2>2, <2>3
<1>9. QED
  BY <1>1, <1>2, <1>3, <1>4, <1>5, <1>6, <1>7, <1>8 DEF RunGoesOn, RunFails

\* Checkouts: a customer takes the place of one that is gone, and only the
\* customer of the row gets a session that is answered.
LEMMA BillingOfCalls ==
  ASSUME TypeOK, BillingInv, NEW k \in Calls, CallStep(k)
  PROVE  BillingInv'
<1> USE DEF rowVars, accountVars, stripeVars, Hangs
<1>0. /\ CallsOK /\ call[k].customer \in AnyCustomer /\ customer \in AnyCustomer
      /\ 0 \in AnyCustomer
  BY DEF TypeOK, CallsOK, CallType, RowOK, AnyCustomer
<1>1. SubscribersAreNamed /\ NamesTheLast /\ CallsRemember /\ FinishersReleased /\ Remembers(k)
  BY DEF BillingInv, CallsRemember
<1>2. ASSUME Remembers(k)', \A o \in Calls \ {k} : call'[o] = call[o],
             UNCHANGED <<present, customer, stripeVars, run>>
      PROVE  BillingInv'
  <2>1. CallsRemember'
    BY <1>1, <1>2 DEF CallsRemember, Remembers, Alive
  <2>2. QED
    BY <1>1, <1>2, <2>1 DEF BillingInv, SubscribersAreNamed, NamesTheLast, FinishersReleased,
       Paid, Alive
<1>3. CASE ReadStored(k)
  <2>1. call'[k].step = "exists" /\ call'[k].customer = customer
        /\ \A o \in Calls \ {k} : call'[o] = call[o]
    BY <1>0, <1>3, CallsOn DEF ReadStored, CallSteps
  <2>2. customer <= customer
    BY <1>0, ErasureAssumption DEF AnyCustomer, Customers
  <2>3. Remembers(k)'
    BY <1>1, <1>3, <2>1, <2>2 DEF ReadStored, NamesTheLast, Remembers
  <2>4. QED
    BY <1>2, <1>3, <2>1, <2>3 DEF ReadStored
<1>4. CASE CustomerExists(k)
  <2>1. /\ call'[k].step = IF Alive(call[k].customer) THEN "claim" ELSE "create"
        /\ call'[k].customer = call[k].customer
        /\ \A o \in Calls \ {k} : call'[o] = call[o]
    BY <1>0, <1>4, CallsOn DEF CustomerExists, CallSteps
  <2>2. present /\ Alive(call[k].customer) => customer = call[k].customer
    BY <1>0, <1>1, <1>4, ErasureAssumption
       DEF CustomerExists, Remembers, NamesTheLast, Alive, AnyCustomer, Customers
  <2>3. Remembers(k)'
    BY <1>1, <1>4, <2>1, <2>2 DEF CustomerExists, Remembers, Alive
  <2>4. QED
    BY <1>2, <1>4, <2>1, <2>3 DEF CustomerExists
<1>5. CASE CreateCustomer(k)
  <2> DEFINE n == call[k].customer + 1
  <2>1. n \in Customers
    BY <1>0, <1>5, ErasureAssumption DEF CreateCustomer, AnyCustomer, Customers
  <2>2. call'[k].step = "store" /\ call'[k].customer = call[k].customer
        /\ \A o \in Calls \ {k} : call'[o] = call[o]
    BY <1>0, <1>5, CallsOn DEF CreateCustomer, CallSteps
  <2>3. /\ known'[n] = IF known[n] = "unmade" THEN "alive" ELSE known[n]
        /\ \A c \in Customers \ {n} : known'[c] = known[c]
    BY <1>5, <2>1 DEF CreateCustomer, TypeOK, StripeOK
  <2> HIDE DEF n
  <2>4. UNCHANGED <<present, customer, sub, payable, run>> /\ call[k].step = "create"
    BY <1>5 DEF CreateCustomer
  <2>5. /\ \A c \in Customers : known[c] # "unmade" => known'[c] = known[c]
        /\ known'[n] # "unmade" /\ 0 \notin Customers
    BY <2>3 DEF Customers
  <2>6. SubscribersAreNamed'
    BY <1>1, <2>4, <2>5 DEF SubscribersAreNamed, Paid, Alive
  <2>7. NamesTheLast' /\ FinishersReleased'
    <3>1. \A r \in Runs : run[r].customer \in AnyCustomer
      BY DEF TypeOK, RunsOK, RunType
    <3>2. QED
      BY <1>0, <1>1, <2>4, <2>5, <3>1 DEF NamesTheLast, FinishersReleased, AnyCustomer
  <2>8. CallsRemember'
    <3>1. SUFFICES ASSUME NEW j \in Calls PROVE Remembers(j)'
      BY DEF CallsRemember
    <3>2. Remembers(j) /\ call[j].customer \in AnyCustomer
      BY <1>1 DEF CallsRemember, TypeOK, CallsOK, CallType
    <3>3. CASE j = k
      BY <1>1, <2>2, <2>4, <2>5, <3>2, <3>3 DEF Remembers, Alive, AnyCustomer, n
    <3>4. CASE j # k
      <4>1. call[j].step = "store" => call[j].customer + 1 \in Customers
        BY <3>2, ErasureAssumption DEF TypeOK, CallsOK, AnyCustomer, Customers
      <4>2. QED
        BY <2>2, <2>4, <2>5, <3>2, <3>4, <4>1 DEF Remembers, Alive, AnyCustomer
    <3>5. QED
      BY <3>3, <3>4
  <2>9. QED
    BY <2>6, <2>7, <2>8 DEF BillingInv
<1>6. CASE StoreCustomer(k)
  <2> DEFINE c0 == call[k].customer
  <2>1. c0 + 1 \in Customers /\ c0 \in Nat
    BY <1>0, <1>6, ErasureAssumption DEF StoreCustomer, CallsOK, AnyCustomer, Customers
  <2>2. /\ c0 # 0 => known[c0] # "unmade"
        /\ ~Alive(c0) /\ known[c0 + 1] # "unmade" /\ (present => c0 <= customer)
    BY <1>1, <1>6 DEF StoreCustomer, Remembers
  <2>3. UNCHANGED <<present, stripeVars, run>>
    BY <1>6 DEF StoreCustomer
  <2>4. CASE present /\ customer = c0
    <3>1. customer' = c0 + 1 /\ call'[k].step = "claim" /\ call'[k].customer = c0 + 1
          /\ \A o \in Calls \ {k} : call'[o] = call[o]
      BY <1>0, <1>6, <2>1, <2>4, CallsOn DEF StoreCustomer, CallSteps, AnyCustomer
    <3>2. SubscribersAreNamed'
      BY <1>1, <2>2, <2>3, <2>4 DEF SubscribersAreNamed, Paid, Alive
    <3>3. NamesTheLast'
      <4>1. c0 # 0 => known[c0] = "deleted"
        BY <1>0, <2>2 DEF Alive, AnyCustomer, TypeOK, StripeOK
      <4>2. \A c \in Customers : c < c0 + 1 => c < c0 \/ (c = c0 /\ c # 0)
        BY <2>1 DEF Customers
      <4>3. QED
        BY <1>1, <2>1, <2>2, <2>3, <2>4, <3>1, <4>1, <4>2 DEF NamesTheLast
    <3>4. CallsRemember'
      <4>1. SUFFICES ASSUME NEW j \in Calls PROVE Remembers(j)'
        BY DEF CallsRemember
      <4>2. Remembers(j) /\ call[j].customer \in Nat
        BY <1>1, ErasureAssumption
           DEF CallsRemember, TypeOK, CallsOK, CallType, AnyCustomer, Customers
      <4>3. CASE j = k
        BY <2>1, <2>2, <2>3, <3>1, <4>3 DEF Remembers
      <4>4. CASE j # k
        BY <2>1, <2>2, <2>3, <2>4, <3>1, <4>2, <4>4 DEF Remembers, Alive
      <4>5. QED
        BY <4>3, <4>4
    <3>5. QED
      BY <1>1, <2>3, <3>2, <3>3, <3>4 DEF BillingInv, FinishersReleased
  <2>5. CASE ~(present /\ customer = c0)
    <3>1. /\ call'[k].step = "claim" /\ \A o \in Calls \ {k} : call'[o] = call[o]
          /\ call'[k].customer = IF present /\ customer # 0 THEN customer ELSE c0 + 1
          /\ customer' = customer
      BY <1>0, <1>6, <2>1, <2>5, CallsOn DEF StoreCustomer, CallSteps, AnyCustomer
    <3>2. present => customer # 0
      BY <1>0, <2>1, <2>2, <2>5, ErasureAssumption DEF AnyCustomer, Customers
    <3>3. Remembers(k)'
      BY <1>1, <2>1, <2>2, <2>3, <3>1, <3>2 DEF Remembers, NamesTheLast
    <3>4. QED
      BY <1>2, <2>3, <3>1, <3>3
  <2>6. QED
    BY <2>4, <2>5
<1>7. CASE ClaimCheckout(k)
  <2>1. /\ call'[k].step \in {"open", "idle"} /\ \A o \in Calls \ {k} : call'[o] = call[o]
        /\ call'[k].step = "open" => call'[k].customer = call[k].customer
    BY <1>0, <1>7, CallsOn DEF ClaimCheckout, CallSteps
  <2>2. Remembers(k)'
    BY <1>1, <1>7, <2>1 DEF ClaimCheckout, Remembers, Alive
  <2>3. QED
    BY <1>2, <1>7, <2>1, <2>2 DEF ClaimCheckout
<1>8. CASE OpenSession(k)
  <2>1. /\ call'[k].step \in {"record", "idle"} /\ \A o \in Calls \ {k} : call'[o] = call[o]
        /\ call'[k].step = "record" => call'[k].customer = call[k].customer
    BY <1>0, <1>8, CallsOn DEF OpenSession, CallSteps, Alive
  <2>2. Remembers(k)'
    BY <1>1, <1>8, <2>1 DEF OpenSession, Remembers, Alive
  <2>3. QED
    BY <1>2, <1>8, <2>1, <2>2 DEF OpenSession
<1>9. CASE RecordSession(k) \/ CallEnds(k)
  <2>1. call'[k].step = "idle" /\ \A o \in Calls \ {k} : call'[o] = call[o]
    BY <1>0, <1>9, CallsOn DEF RecordSession, CallEnds, CallSteps
  <2>2. /\ UNCHANGED <<present, customer, known, sub, run>>
        /\ \/ payable' = payable
           \/ /\ payable' = payable \cup {call[k].customer} /\ present
              /\ known[call[k].customer] # "unmade"
              /\ Alive(call[k].customer) => customer = call[k].customer
    BY <1>1, <1>9 DEF RecordSession, CallEnds, Remembers
  <2>3. SubscribersAreNamed'
    BY <1>1, <2>2 DEF SubscribersAreNamed, Paid, Alive
  <2>4. CallsRemember'
    BY <1>1, <2>1, <2>2 DEF CallsRemember, Remembers, Alive
  <2>5. QED
    BY <1>1, <2>2, <2>3, <2>4 DEF BillingInv, NamesTheLast, FinishersReleased
<1>10. QED
  BY <1>3, <1>4, <1>5, <1>6, <1>7, <1>8, <1>9 DEF CallStep

\* Every step of the system keeps what billing relies on.
LEMMA BillingStep == TypeOK /\ BillingInv /\ [Next]_vars => BillingInv'
<1> SUFFICES ASSUME TypeOK, BillingInv, [Next]_vars PROVE BillingInv'
  OBVIOUS
<1> USE DEF rowVars, accountVars, stripeVars
<1>1. CASE UNCHANGED vars \/ Tick \/ CancelDeletion \/ RowLearns \/ AccountsChange
  BY <1>1, BillingUntouched
     DEF vars, billingVars, Tick, CancelDeletion, RowLearns, AccountsChange
<1>2. ASSUME NEW q \in Requests, RequestStep(q) PROVE BillingInv'
  <2>1. CASE UNCHANGED sub
    BY <1>2, <2>1, BillingUntouched
       DEF billingVars, RequestStep, RequestDeletion, ReadTrial, CancelTrial,
           ScheduleDeletion, RequestFails
  <2>2. CASE EndsAtPeriod(ask[q].trial)
    BY <1>2, <2>2, BillingEnding
       DEF RequestStep, RequestDeletion, ReadTrial, CancelTrial, ScheduleDeletion,
           RequestFails
  <2>3. QED
    BY <1>2, <2>1, <2>2
       DEF RequestStep, RequestDeletion, ReadTrial, CancelTrial, ScheduleDeletion,
           RequestFails
<1>3. ASSUME NEW c \in Customers, Pay(c) PROVE BillingInv'
  <2>1. /\ present /\ customer = c /\ Alive(c)
        /\ \A d \in Customers : Paid(d)' => Paid(d) \/ d = c
        /\ payable' \subseteq payable
    BY <1>3 DEF Pay, BillingInv, SubscribersAreNamed, Paid, TypeOK, StripeOK
  <2>2. UNCHANGED <<present, customer, known, run, call>>
    BY <1>3 DEF Pay
  <2>3. SubscribersAreNamed'
    BY <2>1, <2>2 DEF BillingInv, SubscribersAreNamed, Alive
  <2>4. QED
    BY <2>2, <2>3 DEF BillingInv, NamesTheLast, CallsRemember, Remembers,
       FinishersReleased, Alive
<1>4. ASSUME NEW c \in Customers, PeriodEnds(c) PROVE BillingInv'
  <2>1. \A d \in Customers : Paid(d)' => Paid(d)
    BY <1>4 DEF PeriodEnds, Paid, TypeOK, StripeOK
  <2>2. UNCHANGED <<present, customer, known, payable, run, call>>
    BY <1>4 DEF PeriodEnds
  <2>3. QED
    BY <2>1, <2>2 DEF BillingInv, SubscribersAreNamed, NamesTheLast, CallsRemember,
       Remembers, FinishersReleased, Alive
<1>5. QED
  BY <1>1, <1>2, <1>3, <1>4, BillingOfRuns, BillingOfCalls DEF Next

\* At the start nobody has subscribed.
LEMMA BillingInit == Init => BillingInv
<1> SUFFICES ASSUME Init PROVE BillingInv
  OBVIOUS
<1>1. SubscribersAreNamed
  BY DEF Init, SubscribersAreNamed, Paid
<1>2. NamesTheLast
  BY ErasureAssumption DEF Init, NamesTheLast, Customers
<1>3. CallsRemember /\ FinishersReleased
  BY DEF Init, CallsRemember, Remembers, FinishersReleased, NoCall, Resting
<1>4. QED
  BY <1>1, <1>2, <1>3 DEF BillingInv

\* However runs crash, overlap and lose answers of Stripe while checkouts give the
\* workspace customers, no subscription outlives the workspace (erase, finish and
\* customerFor).
THEOREM NobodyIsBilledForNothing == Spec => []NoOrphanBilling
<1>1. BillingInv => NoOrphanBilling
  BY DEF BillingInv, SubscribersAreNamed, NoOrphanBilling
<1>2. Spec => [](TypeOK /\ BillingInv)
  BY TypeInit, TypeStep, BillingInit, BillingStep, PTL DEF Spec
<1>3. QED
  BY <1>1, <1>2, PTL
-----------------------------------------------------------------------------
(* What the claim and the registration lock are for *)

\* Every step leaves a claim only on what is scheduled.
LEMMA ClaimStep == TypeOK /\ ClaimedIsScheduled /\ [Next]_vars => ClaimedIsScheduled'
<1> SUFFICES ASSUME TypeOK, ClaimedIsScheduled, [Next]_vars PROVE ClaimedIsScheduled'
  OBVIOUS
<1> USE DEF ClaimedIsScheduled, rowVars, accountVars, stripeVars
<1>1. CASE UNCHANGED vars \/ Tick \/ CancelDeletion \/ RowLearns \/ AccountsChange
  BY <1>1 DEF vars, Tick, CancelDeletion, RowLearns, AccountsChange
<1>2. ASSUME NEW q \in Requests, RequestStep(q) PROVE ClaimedIsScheduled'
  <2>1. CASE ScheduleDeletion(q)
    <3>1. ask[q].at \in Nat
      BY ErasureAssumption DEF TypeOK, AsksOK, AskType
    <3>2. ask[q].at + Grace # 0
      BY <3>1, ErasureAssumption
    <3>3. QED
      BY <2>1, <3>2 DEF ScheduleDeletion
  <2>2. QED
    BY <1>2, <2>1 DEF RequestStep, RequestDeletion, ReadTrial, CancelTrial, RequestFails
<1>3. ASSUME NEW r \in Runs, RunGoesOn(r) \/ RunFails(r) PROVE ClaimedIsScheduled'
  BY <1>3 DEF RunGoesOn, RunFails, FindDue, CheckOperator, Withdraw, ClaimErasure, StillDue,
     ReadCustomer, ReleaseBilling, LetGo, FinishErasure, ReleaseFails, CrashRun, NothingDue,
     Erase
<1>4. ASSUME NEW k \in Calls, CallStep(k) PROVE ClaimedIsScheduled'
  BY <1>4 DEF CallStep, ReadStored, CustomerExists, CreateCustomer, StoreCustomer,
     ClaimCheckout, OpenSession, RecordSession, CallEnds
<1>5. ASSUME NEW c \in Customers, Pay(c) \/ PeriodEnds(c) PROVE ClaimedIsScheduled'
  BY <1>5 DEF Pay, PeriodEnds
<1>6. QED
  BY <1>1, <1>2, <1>3, <1>4, <1>5 DEF Next

\* A run holds its claim only on a deletion that is scheduled: whatever the run
\* read before, claim and cancel look at the row in the same statement that writes.
THEOREM ClaimsAreScheduled == Spec => []ClaimedIsScheduled
<1>1. Init => ClaimedIsScheduled
  BY DEF Init, ClaimedIsScheduled
<1>2. QED
  BY <1>1, TypeInit, TypeStep, ClaimStep, PTL DEF Spec

\* No step leaves other accounts without the operator.
LEMMA OperatorStep == FlagsOK /\ OperatorSurvives /\ [Next]_vars => OperatorSurvives'
<1> SUFFICES ASSUME FlagsOK, OperatorSurvives, [Next]_vars PROVE OperatorSurvives'
  OBVIOUS
<1> USE DEF OperatorSurvives, rowVars, accountVars, stripeVars
<1>0. CASE AccountsChange
  BY <1>0 DEF AccountsChange, FlagsOK
<1>1. CASE UNCHANGED vars \/ Tick \/ CancelDeletion \/ RowLearns
  BY <1>1 DEF vars, Tick, CancelDeletion, RowLearns
<1>2. ASSUME NEW q \in Requests, RequestStep(q) PROVE OperatorSurvives'
  BY <1>2 DEF RequestStep, RequestDeletion, ReadTrial, CancelTrial, ScheduleDeletion,
     RequestFails
<1>3. ASSUME NEW r \in Runs, RunGoesOn(r) \/ RunFails(r) PROVE OperatorSurvives'
  <2>1. CASE FinishErasure(r)
    <3>1. UNCHANGED <<operator, others>> /\ (present' = present \/ ~(operator /\ others))
      BY <2>1 DEF FinishErasure, OperatorWouldBeLost
    <3>2. QED
      BY <3>1
  <2>2. QED
    BY <1>3, <2>1 DEF RunGoesOn, RunFails, FindDue, CheckOperator, Withdraw, ClaimErasure,
       ReadCustomer, ReleaseBilling, LetGo, ReleaseFails, CrashRun
<1>4. ASSUME NEW k \in Calls, CallStep(k) PROVE OperatorSurvives'
  BY <1>4 DEF CallStep, ReadStored, CustomerExists, CreateCustomer, StoreCustomer,
     ClaimCheckout, OpenSession, RecordSession, CallEnds
<1>5. ASSUME NEW c \in Customers, Pay(c) \/ PeriodEnds(c) PROVE OperatorSurvives'
  BY <1>5 DEF Pay, PeriodEnds
<1>6. QED
  BY <1>0, <1>1, <1>2, <1>3, <1>4, <1>5 DEF Next

\* The operator's workspace does not go while other accounts exist: finish counts
\* them in the transaction that erases.
THEOREM OperatorIsKept == Spec => []OperatorSurvives
<1>1. Init => OperatorSurvives
  BY DEF Init, OperatorSurvives
<1>2. TypeOK => FlagsOK
  BY DEF TypeOK
<1>3. QED
  BY <1>1, <1>2, TypeInit, TypeStep, OperatorStep, PTL DEF Spec
-----------------------------------------------------------------------------
(* What a cancellation finds *)

\* A workspace that is there and not the operator's, as long as Stripe answered.
Plain == present /\ ~operator /\ ~unsure

\* Nobody is deleted at Stripe but a customer the row has named.
DeletedWereNamed == present => \A c \in Customers : known[c] = "deleted" => c <= customer

\* What a run relies on: it works under its claim, on a customer the row has named;
\* only the operator's workspace is withdrawn, only after a doubt a claim let go.
RunsHoldClaim == \A r \in Runs :
  /\ run[r].step = "release" /\ present => run[r].customer <= customer
  /\ run[r].step = "withdraw" => operator
  /\ run[r].step = "unclaim" => unsure
  /\ run[r].step \in {"look", "release", "finish"} /\ Plain => claimed

\* A customer that is gone is gone under a claim, which outlives the run that died.
GoneIsClaimed == Plain /\ customer # 0 /\ known[customer] = "deleted" => claimed

CancelInv == DeletedWereNamed /\ RunsHoldClaim /\ GoneIsClaimed

\* What a run does: it keeps the other runs, and deletes at most its own customer.
LEMMA RunMoves ==
  ASSUME TypeOK, NEW r \in Runs, RunGoesOn(r) \/ RunFails(r)
  PROVE  /\ \A o \in Runs \ {r} : run'[o] = run[o]
         /\ known' = known \/ (run[r].step = "release"
                               /\ known' = [known EXCEPT ![run[r].customer] = "deleted"])
         /\ UNCHANGED operator
<1> USE DEF rowVars, accountVars, stripeVars, Step
<1>1. \A o \in Runs \ {r} : run'[o] = run[o]
  BY DEF TypeOK, RunsOK, RunGoesOn, RunFails, FindDue, CheckOperator, Withdraw, ClaimErasure,
     ReadCustomer, ReleaseBilling, LetGo, FinishErasure, ReleaseFails, CrashRun, Goto, Running,
     EndRun
<1>2. known' = known \/ (run[r].step = "release"
                         /\ known' = [known EXCEPT ![run[r].customer] = "deleted"])
  BY DEF RunGoesOn, RunFails, FindDue, CheckOperator, Withdraw, ClaimErasure, ReadCustomer,
     ReleaseBilling, LetGo, FinishErasure, ReleaseFails, CrashRun, DeleteCustomer
<1>3. UNCHANGED operator
  BY DEF RunGoesOn, RunFails, FindDue, CheckOperator, Withdraw, ClaimErasure, ReadCustomer,
     ReleaseBilling, LetGo, FinishErasure, ReleaseFails, CrashRun
<1> QED BY <1>1, <1>2, <1>3

\* Where a run goes, and what it does to the row on the way.
LEMMA RunGoesTo ==
  ASSUME TypeOK, RunsHoldClaim, NEW r \in Runs, RunGoesOn(r) \/ RunFails(r)
  PROVE  /\ run'[r].step = "release" =>
              UNCHANGED <<present, customer>> /\ (present => run'[r].customer <= customer)
         /\ run'[r].step = "withdraw" => operator
         /\ run'[r].step = "unclaim" => unsure'
         /\ run'[r].step \in {"look", "release", "finish"} /\ Plain' => claimed'
         /\ present' => present /\ UNCHANGED customer
         /\ unsure => unsure'
         /\ Plain' /\ claimed => claimed'
<1> USE DEF rowVars, accountVars, stripeVars, Step
<1>0. RunsOK /\ run[r].customer \in AnyCustomer /\ run[r].at \in 0..MaxTime /\ customer \in AnyCustomer
  BY DEF TypeOK, RunsOK, RunType, RowOK
<1>1. CASE FindDue(r)
  <2>1. run'[r].step = "check" BY <1>0, <1>1 DEF FindDue, Running, RunsOK
  <2> QED BY <1>1, <2>1 DEF FindDue, Plain
<1>2. CASE CheckOperator(r)
  <2>1. run'[r].step = IF OperatorWouldBeLost THEN "withdraw" ELSE "claim"
    BY <1>0, <1>2 DEF CheckOperator, Goto, Running, RunsOK
  <2> QED BY <1>2, <2>1 DEF CheckOperator, OperatorWouldBeLost, Plain
<1>3. CASE Withdraw(r)
  <2>1. operator /\ run'[r].step = "idle"
    BY <1>0, <1>3, RunOver DEF Withdraw, RunsHoldClaim
  <2> QED BY <1>3, <2>1 DEF Withdraw, Plain
<1>4. CASE ClaimErasure(r)
  <2>1. run'[r].step = "idle" \/ (run'[r].step = "look" /\ claimed' = TRUE)
    BY <1>0, <1>4, RunGoes, RunOver DEF ClaimErasure, RunSteps
  <2> QED BY <1>4, <2>1 DEF ClaimErasure, Plain
<1>5. CASE ReadCustomer(r)
  <2>1. /\ run'[r].step \in {"finish", "release", "idle"}
        /\ run'[r].step # "idle" => run'[r].customer = customer
    BY <1>0, <1>5, RunsOn, RunOver DEF ReadCustomer, RunSteps
  <2>2. customer <= customer BY <1>0, ErasureAssumption DEF AnyCustomer, Customers
  <2> QED BY <1>5, <2>1, <2>2 DEF ReadCustomer, RunsHoldClaim, Plain
<1>6. CASE ReleaseBilling(r)
  <2>1. run'[r].step = "finish" BY <1>0, <1>6, RunGoes DEF ReleaseBilling, RunSteps
  <2> QED BY <1>6, <2>1 DEF ReleaseBilling, RunsHoldClaim, Plain
<1>7. CASE LetGo(r)
  <2>1. unsure /\ run'[r].step = "idle" BY <1>0, <1>7, RunOver DEF LetGo, RunsHoldClaim
  <2> QED BY <1>7, <2>1 DEF LetGo, Plain
<1>8. CASE FinishErasure(r)
  <2>1. run'[r].step = "idle" BY <1>0, <1>8, RunOver DEF FinishErasure
  <2> QED BY <1>8, <2>1 DEF FinishErasure, OperatorWouldBeLost, Erase, Plain
<1>9. CASE ReleaseFails(r)
  <2>1. run'[r].step = "unclaim" BY <1>0, <1>9, RunGoes DEF ReleaseFails, RunSteps
  <2> QED BY <1>9, <2>1 DEF ReleaseFails, Plain
<1>10. CASE CrashRun(r)
  <2>1. run'[r].step = "idle" BY <1>0, <1>10, RunOver DEF CrashRun
  <2> QED BY <1>10, <2>1 DEF CrashRun, Plain
<1> QED
  BY <1>1, <1>2, <1>3, <1>4, <1>5, <1>6, <1>7, <1>8, <1>9, <1>10 DEF RunGoesOn, RunFails

LEMMA CancelOfRuns ==
  ASSUME TypeOK, CancelInv, NEW r \in Runs, RunGoesOn(r) \/ RunFails(r)
  PROVE  CancelInv'
<1>0. /\ DeletedWereNamed /\ RunsHoldClaim /\ GoneIsClaimed
      /\ customer \in AnyCustomer /\ known \in [Customers -> {"unmade", "alive", "deleted"}]
      /\ run[r].step = "release" => run[r].customer \in Customers
  BY DEF CancelInv, TypeOK, RowOK, StripeOK, RunsOK, RunType, AnyCustomer
<1>1. present' => present /\ UNCHANGED <<customer, operator>>
  BY <1>0, RunMoves, RunGoesTo
<1>2. Plain' => Plain /\ (claimed => claimed')
  BY <1>0, RunMoves, RunGoesTo DEF Plain
<1>3. DeletedWereNamed'
  BY <1>0, <1>1, RunMoves DEF DeletedWereNamed, RunsHoldClaim
<1>4. GoneIsClaimed'
  <2> SUFFICES ASSUME Plain', customer' # 0, known'[customer'] = "deleted" PROVE claimed'
    BY DEF GoneIsClaimed
  <2>1. Plain /\ customer' = customer BY <1>1, <1>2 DEF Plain
  <2>2. CASE known' = known BY <1>0, <1>2, <2>1, <2>2 DEF GoneIsClaimed
  <2>3. CASE run[r].step = "release" BY <1>0, <1>2, <2>1, <2>3 DEF RunsHoldClaim
  <2> QED BY <2>2, <2>3, RunMoves
<1>5. RunsHoldClaim'
  <2> SUFFICES ASSUME NEW o \in Runs
               PROVE  /\ run'[o].step = "release" /\ present' => run'[o].customer <= customer'
                      /\ run'[o].step = "withdraw" => operator'
                      /\ run'[o].step = "unclaim" => unsure'
                      /\ run'[o].step \in {"look", "release", "finish"} /\ Plain' => claimed'
    BY DEF RunsHoldClaim
  <2>1. CASE o = r BY <1>0, <2>1, RunGoesTo, RunMoves
  <2>2. CASE o # r
    <3>1. run'[o] = run[o] /\ UNCHANGED operator BY <2>2, RunMoves
    <3>2. unsure => unsure' BY <1>0, RunGoesTo
    <3> QED BY <1>0, <1>1, <1>2, <3>1, <3>2 DEF RunsHoldClaim
  <2> QED BY <2>1, <2>2
<1> QED BY <1>3, <1>4, <1>5 DEF CancelInv

\* A checkout names a customer that nobody has deleted.
LEMMA CancelOfCalls ==
  ASSUME TypeOK, CancelInv, NEW k \in Calls, CallStep(k)
  PROVE  CancelInv'
<1> USE DEF rowVars, accountVars, stripeVars, Hangs
<1>0. /\ customer \in AnyCustomer /\ call[k].customer \in AnyCustomer
      /\ known \in [Customers -> {"unmade", "alive", "deleted"}]
      /\ AnyCustomer \subseteq Nat
  BY ErasureAssumption
  DEF TypeOK, RowOK, StripeOK, CallsOK, CallType, AnyCustomer, Customers
<1>1. CASE CreateCustomer(k)
  <2>1. \A c \in Customers : known'[c] = "deleted" <=> known[c] = "deleted"
    BY <1>0, <1>1 DEF CreateCustomer
  <2>2. customer # 0 => customer \in Customers BY <1>0 DEF AnyCustomer
  <2> QED BY <1>1, <2>1, <2>2
    DEF CreateCustomer, CancelInv, DeletedWereNamed, RunsHoldClaim, GoneIsClaimed, Plain
<1>2. CASE StoreCustomer(k)
  <2>1. UNCHANGED customer \/ (present /\ customer' = customer + 1 /\ customer + 1 \in Customers)
    BY <1>0, <1>2, ErasureAssumption
    DEF StoreCustomer, TypeOK, CallsOK, AnyCustomer, Customers
  <2>2. UNCHANGED <<present, claimed, operator, unsure, known, run>>
    BY <1>2 DEF StoreCustomer
  <2>3. CASE UNCHANGED customer
    BY <2>2, <2>3 DEF CancelInv, DeletedWereNamed, RunsHoldClaim, GoneIsClaimed, Plain
  <2>4. CASE present /\ customer' = customer + 1 /\ customer + 1 \in Customers
    <3>1. customer \in Nat /\ \A r \in Runs : run[r].customer \in Nat
      BY <1>0 DEF TypeOK, RunsOK, RunType
    <3>2. known[customer + 1] # "deleted"
      BY <2>4, <3>1 DEF CancelInv, DeletedWereNamed
    <3>3. DeletedWereNamed'
      BY <2>2, <2>4, <3>1 DEF CancelInv, DeletedWereNamed, Customers
    <3>4. RunsHoldClaim'
      BY <2>2, <2>4, <3>1 DEF CancelInv, RunsHoldClaim, Plain
    <3> QED BY <2>2, <2>4, <3>2, <3>3, <3>4 DEF CancelInv, GoneIsClaimed
  <2> QED BY <2>1, <2>3, <2>4
<1>3. CASE UNCHANGED <<present, claimed, customer, operator, unsure, known, run>>
  BY <1>3 DEF CancelInv, DeletedWereNamed, RunsHoldClaim, GoneIsClaimed, Plain
<1> QED
  BY <1>1, <1>2, <1>3
  DEF CallStep, ReadStored, CustomerExists, ClaimCheckout, OpenSession, RecordSession, CallEnds

LEMMA CancelStep == TypeOK /\ CancelInv /\ [Next]_vars => CancelInv'
<1> SUFFICES ASSUME TypeOK, CancelInv, [Next]_vars PROVE CancelInv' OBVIOUS
<1> USE DEF rowVars, accountVars, stripeVars
<1>1. ASSUME UNCHANGED <<present, claimed, customer, operator, unsure, known, run>> PROVE CancelInv'
  BY <1>1 DEF CancelInv, DeletedWereNamed, RunsHoldClaim, GoneIsClaimed, Plain
<1>2. CASE UNCHANGED vars \/ Tick \/ CancelDeletion \/ RowLearns \/ AccountsChange
  BY <1>1, <1>2 DEF vars, Tick, CancelDeletion, RowLearns, AccountsChange
<1>3. ASSUME NEW q \in Requests, RequestStep(q) PROVE CancelInv'
  BY <1>1, <1>3 DEF RequestStep, RequestDeletion, ReadTrial, CancelTrial, ScheduleDeletion,
     RequestFails
<1>4. ASSUME NEW c \in Customers, Pay(c) \/ PeriodEnds(c) PROVE CancelInv'
  BY <1>1, <1>4 DEF Pay, PeriodEnds
<1> QED BY <1>2, <1>3, <1>4, CancelOfRuns, CancelOfCalls DEF Next

LEMMA CancelInvInit == Init => CancelInv
BY DEF Init, CancelInv, DeletedWereNamed, RunsHoldClaim, GoneIsClaimed, Plain, Resting

\* Nothing takes a plain workspace off the schedule but its owner, and not while an
\* erasure has claimed it.
LEMMA OnlyOwnersCancel ==
  ASSUME TypeOK, CancelInv, [Next]_vars, Scheduled, present', due' = 0, ~operator, ~unsure
  PROVE  ~claimed
<1> USE DEF rowVars, accountVars, stripeVars
<1>1. due # 0 BY DEF Scheduled
<1>2. CASE CancelDeletion BY <1>2 DEF CancelDeletion
<1>3. CASE UNCHANGED due BY <1>1, <1>3
<1>4. ASSUME NEW q \in Requests, ScheduleDeletion(q) PROVE FALSE
  <2>1. ask[q].at \in Nat BY ErasureAssumption DEF TypeOK, AsksOK, AskType
  <2> QED BY <1>4, <2>1, ErasureAssumption DEF ScheduleDeletion, Scheduled
<1>5. ASSUME NEW r \in Runs, Withdraw(r) \/ FinishErasure(r) PROVE UNCHANGED due
  BY <1>5 DEF Withdraw, FinishErasure, OperatorWouldBeLost, Erase, CancelInv, RunsHoldClaim
<1>6. ASSUME NEW q \in Requests, RequestStep(q), ~ScheduleDeletion(q) PROVE UNCHANGED due
  BY <1>6 DEF RequestStep, RequestDeletion, ReadTrial, CancelTrial, RequestFails
<1>7. ASSUME NEW r \in Runs, RunGoesOn(r) \/ RunFails(r), ~Withdraw(r), ~FinishErasure(r)
      PROVE  UNCHANGED due
  BY <1>7 DEF RunGoesOn, RunFails, FindDue, CheckOperator, ClaimErasure, ReadCustomer,
     ReleaseBilling, LetGo, ReleaseFails, CrashRun
<1>8. ASSUME NEW k \in Calls, CallStep(k) PROVE UNCHANGED due
  BY <1>8 DEF CallStep, ReadStored, CustomerExists, CreateCustomer, StoreCustomer,
     ClaimCheckout, OpenSession, RecordSession, CallEnds
<1>9. CASE UNCHANGED vars \/ Tick \/ RowLearns \/ AccountsChange
  BY <1>3, <1>9 DEF vars, Tick, RowLearns, AccountsChange
<1>10. ASSUME NEW c \in Customers, Pay(c) \/ PeriodEnds(c) PROVE UNCHANGED due
  BY <1>10 DEF Pay, PeriodEnds
<1> QED BY <1>2, <1>3, <1>4, <1>5, <1>6, <1>7, <1>8, <1>9, <1>10 DEF Next

\* However many runs, crashes, requests and checkouts: as long as Stripe answered every
\* deletion, a cancellation that is accepted finds the customer as it was (cancel
\* refuses while erasureClaimedAt is set, and only a run that was answered erases).
THEOREM CancelKeepsCustomer == Spec => CancelRemovesNothing
<1>1. TypeOK /\ BillingInv /\ CancelInv /\ [Next]_vars =>
        [Scheduled /\ present' /\ due' = 0 /\ ~operator /\ ~unsure =>
           customer = 0 \/ Alive(customer)]_vars
  <2> SUFFICES ASSUME TypeOK, BillingInv, CancelInv, [Next]_vars, Scheduled, present', due' = 0,
                      ~operator, ~unsure, customer # 0
               PROVE  Alive(customer)
    OBVIOUS
  <2>1. ~claimed BY OnlyOwnersCancel
  <2>2. known[customer] # "deleted"
    BY <2>1 DEF CancelInv, GoneIsClaimed, Plain, Scheduled
  <2>3. known[customer] # "unmade" BY DEF BillingInv, NamesTheLast
  <2>4. customer \in Customers BY DEF TypeOK, RowOK, AnyCustomer
  <2> QED BY <2>2, <2>3, <2>4 DEF TypeOK, StripeOK, Alive
<1> QED
  BY <1>1, TypeInit, TypeStep, BillingInit, BillingStep, CancelInvInit, CancelStep, PTL
  DEF Spec, CancelRemovesNothing
=============================================================================
