------------------------- MODULE MCActionLifecycle -------------------------
(* Constants for model checking ActionLifecycle. *)
EXTENDS ActionLifecycle, TLC

CONSTANTS u1, u2, g1, g2, r1

\* Two runs overlap, two users act, and the row is a second one, only while the
\* history is short.
Narrow == \/ Len(log) <= 2
          \/ /\ rows = 1
             /\ Cardinality({g \in Runs : began[g] # 0}) <= 1
             /\ Cardinality({log[i].actor : i \in Events(log)} \ {"system"}) <= 1

AnyOrder == Permutations(Users) \cup Permutations(Runs)

BoundedSpec == Init /\ [][Next /\ Narrow']_vars
=============================================================================
