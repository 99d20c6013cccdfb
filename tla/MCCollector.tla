----------------------------- MODULE MCCollector -----------------------------
(* Bounds for model-checking Collector. *)
EXTENDS Collector

Miner == {"xmrig"}
Pool  == {"p2pool"}

NoSteps == {}
\* Back and forward, beyond each limit.
SomeSteps == {-2, 2}

AllReads  == {"units", "miner", "file"}
UnitReads == {"units"}

SilentFile  == {"file"}
SilentMiner == {"miner"}

ZeroAge == {0}
OneAge  == {1}
=============================================================================
