---------------------------- MODULE MCAlertOutbox ----------------------------
(* Constants for model checking AlertOutbox. *)
EXTENDS AlertOutbox, TLC

CONSTANTS k1, k2, a, b, none, d1, d2, f1, f2, hook, mail

OneScope == [k \in Keys |-> "owned"]
TwoScopes == [k \in Keys |-> IF k = k1 THEN "owned" ELSE "competitors"]
AcceptAll == [ch \in Channels |-> Keys]
AcceptSome == [ch \in Channels |-> IF ch = mail THEN {k1} ELSE Keys]

\* Either one key, or one dispatcher and one text, is in play at a time: the races
\* of dispatchers over a key, and the claims of several keys, without their product.
OneKey == \A k \in Keys \ {k1} : ~Exists(k) /\ \A d \in Dispatchers :
            dpc[d] # "idle" => call[d][1] # k
OneDispatcher == /\ Cardinality({d \in Dispatchers : dpc[d] # "idle"}) <= 1
                 /\ \A d \in Dispatchers : dpc[d] # "idle" => call[d][2] # b
                 /\ \A k \in Keys : payload[k] # b
Narrow == OneKey \/ OneDispatcher

AnyWorker == Permutations(Flushers) \cup Permutations(Dispatchers)

BoundedSpec == Init /\ [][Next /\ Narrow']_vars
=============================================================================
