----------------------------- MODULE MCNodeProbe -----------------------------
(* Bounds for model-checking NodeProbe by itself. *)
EXTENDS NodeProbe

CONSTANTS n1, a4, b4

\* A name and an address of the host's own network.
TwoHosts    == <<n1, b4>>
SomeAnswers == <<{<<a4>>}, {}>>
=============================================================================
