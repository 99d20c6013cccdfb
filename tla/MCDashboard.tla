----------------------------- MODULE MCDashboard -----------------------------
(* Bounds for model-checking Dashboard. *)
EXTENDS Dashboard

\* Every key but those of the journal views.
MenuKeys == {"q", "ctrl+c", "s", "?", "p", "r", "esc", "down", "up", "enter", "toggle"}

\* Keys that start the first unit, or open its journal.
ViewKeys == {"s", "l", "enter"}

NoKeys    == {}
NoFaults  == {}
AllFaults == {"units", "miner"}
=============================================================================
