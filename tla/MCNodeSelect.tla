---------------------------- MODULE MCNodeSelect -----------------------------
(* Bounds for model-checking NodeSelect. *)
EXTENDS NodeSelect

AllFaults == {"call", "kill", "power"}
=============================================================================
