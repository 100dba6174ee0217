---------------------------- MODULE MCAllowances ----------------------------
(***************************************************************************)
(* Constants for model checking EmailAlert and CreativeRun, which spend    *)
(* allowances of mails and of AI calls.  The two share no state and are    *)
(* checked in one run: an initial state chooses the part that runs, the    *)
(* other stays as it is.                                                   *)
(***************************************************************************)
EXTENDS EmailAlert, CreativeRun, TLC

CONSTANTS a1, x, y, c1, c2, p1

VARIABLE part  \* the part that runs

Init ==
  /\ part \in {"mails", "analysis"}
  /\ MailInit /\ (part # "mails" => members = {})
  /\ RunInit

Next ==
  \/ part = "mails" /\ MailNext /\ UNCHANGED <<part, runVars>>
  \/ part = "analysis" /\ RunNext /\ UNCHANGED <<part, mailVars>>

Spec == Init /\ [][Next]_<<part, mailVars, runVars>>

\* Calls and Asks share names.
AnyOrder == Permutations(Calls) \cup Permutations(Addresses)
=============================================================================
