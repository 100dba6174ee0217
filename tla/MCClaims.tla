------------------------------ MODULE MCClaims ------------------------------
(***************************************************************************)
(* Constants for model checking Checkout, TrialStarts, ProxyLease,         *)
(* DiscoveryWeek and QuotaAdmission: a lease of a workspace, claims of     *)
(* mailboxes and cards, leases of egress endpoints, searches of a week,    *)
(* room in a plan.  These parts share no state and are checked in one run: *)
(* an initial state chooses the part that runs, the others stay as they    *)
(* are.                                                                    *)
(***************************************************************************)
EXTENDS Checkout, TrialStarts, ProxyLease, DiscoveryWeek, QuotaAdmission, TLC

CONSTANTS x, y, c1, c2, c3, w1, w2, k1

VARIABLE part  \* the part that runs

Init ==
  /\ part \in {"checkout", "trials", "proxies", "discovery", "room"}
  /\ CheckoutInit /\ LeaseInit
  /\ TrialInit /\ \A w \in Workspaces : IF part = "trials"
                    THEN owner[w] # NoKey \/ card[w] # NoKey  \* else it claims nothing
                    ELSE owner[w] = NoKey /\ card[w] = NoKey
  /\ WeekInit /\ (part # "discovery" => \A k \in Phrases : discovery[k] = NoRow)
  /\ RoomInit /\ (part # "room" => planLimit = 0)

Next ==
  \/ /\ part = "checkout" /\ CheckoutNext
     /\ UNCHANGED <<part, trialVars, poolVars, weekVars, roomVars>>
  \/ /\ part = "trials" /\ TrialNext
     /\ UNCHANGED <<part, checkoutVars, poolVars, weekVars, roomVars>>
  \/ /\ part = "proxies" /\ LeaseNext
     /\ ~overrun  \* HeldAlone and FitsRate claim nothing after that
     /\ Retire \/ Probe => \E j \in Jobs : LeaseAt(j, "idle")  \* until the last job asked
     /\ UNCHANGED <<part, checkoutVars, trialVars, weekVars, roomVars>>
  \/ /\ part = "discovery" /\ WeekNext
     /\ ~escaped  \* WeeklyCap claims nothing after that
     /\ UNCHANGED <<part, checkoutVars, trialVars, poolVars, roomVars>>
  \/ /\ part = "room" /\ RoomNext
     /\ UNCHANGED <<part, checkoutVars, trialVars, poolVars, weekVars>>

Spec == Init /\ [][Next]_<<part, checkoutVars, trialVars, poolVars, weekVars, roomVars>>

\* Settles share the names of Admissions and of two Attempts, Jobs and Plans, Mailboxes
\* those of Phrases and Keywords.
AnyOrder == Permutations(Settles) \cup Permutations(Mailboxes)
=============================================================================
