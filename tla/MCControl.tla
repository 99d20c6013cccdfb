------------------------------ MODULE MCControl ------------------------------
(* Bounds for model-checking Control. *)
EXTENDS Control

Pair     == {"p2pool", "xmrig"}
AllVerbs == {"start", "stop", "restart"}
Starts   == {"start"}

NoFaults  == {}
AllFaults == FaultKinds
=============================================================================
