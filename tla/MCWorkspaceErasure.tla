------------------------ MODULE MCWorkspaceErasure --------------------------
(* Constants for model checking WorkspaceErasure. *)
EXTENDS WorkspaceErasure, TLC

CONSTANTS g1, q1, c1
=============================================================================
