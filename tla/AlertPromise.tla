---------------------------- MODULE AlertPromise ----------------------------
(***************************************************************************)
(* What the alert outbox promises, with no process, retry or crash in it.  *)
(* A reported fact (named by its dedupe key) is pending until a flush      *)
(* seals it into a claim together with other pending facts; from then on   *)
(* its text never changes; the claim is handed to the delivery queue, and  *)
(* only then is it finished, all of its facts at once.                     *)
(***************************************************************************)
EXTENDS Naturals

CONSTANTS Keys,     \* dedupe keys
          Texts,    \* payloads
          NoText,   \* the payload of a key that has no row
          Claims    \* identifiers of claims, numbers above 0

VARIABLES text, claim, done, given

promiseVars == <<text, claim, done, given>>

Group(c) == {k \in Keys : claim[k] = c}

Start == /\ text = [k \in Keys |-> NoText]
         /\ claim = [k \in Keys |-> 0]
         /\ done = {}
         /\ given = {}

\* A fact is reported, or reported again with newer values.
Report(k, t) == /\ claim[k] = 0 /\ k \notin done
                /\ text' = [text EXCEPT ![k] = t]
                /\ UNCHANGED <<claim, done, given>>

\* A flush seals some of the pending facts into a claim nobody used before.
Seal(c, S) == /\ S # {} /\ Group(c) = {} /\ c \notin given
              /\ \A k \in S : text[k] # NoText /\ claim[k] = 0 /\ k \notin done
              /\ claim' = [k \in Keys |-> IF k \in S THEN c ELSE claim[k]]
              /\ UNCHANGED <<text, done, given>>

\* The whole claim is accepted by the queue.
Give(c) == /\ Group(c) # {}
           /\ given' = given \cup {c}
           /\ UNCHANGED <<text, claim, done>>

\* The whole claim is marked flushed, which needs it to have been given.
Finish(c) == /\ Group(c) # {} /\ c \in given
             /\ done' = done \cup Group(c)
             /\ UNCHANGED <<text, claim, given>>

\* Retention removes a finished claim as a whole.
Forget(c) == /\ Group(c) # {} /\ Group(c) \subseteq done
             /\ text' = [k \in Keys |-> IF claim[k] = c THEN NoText ELSE text[k]]
             /\ claim' = [k \in Keys |-> IF claim[k] = c THEN 0 ELSE claim[k]]
             /\ done' = done \ Group(c)
             /\ UNCHANGED given

Advance == \/ \E k \in Keys, t \in Texts : Report(k, t)
           \/ \E c \in Claims : \/ \E S \in SUBSET Keys : Seal(c, S)
                                \/ Give(c) \/ Finish(c) \/ Forget(c)

Promise == Start /\ [][Advance]_promiseVars

\* The promise with its delivery half: a sealed claim is given, then finished.
KeptPromise == Promise /\ \A c \in Claims : /\ WF_promiseVars(Give(c))
                                            /\ WF_promiseVars(Finish(c))
=============================================================================
