------------------------------- MODULE MCHealth ------------------------------
(* Bounds for model-checking HealthCheck and Doctor. *)
EXTENDS Doctor

\* The three load states of a unit that cannot be loaded are one to every rule.
SomeLoads == {"loaded", "masked", "not-found"}

SomeCounts == {Null, 0, 1}

\* On both sides of each limit.
SomeHeights == {Null, 0, SidechainLag, SidechainLag + 1}
SomeAges    == {Null, 0, ZMQOldAfter, ZMQOldAfter + 1}
=============================================================================
