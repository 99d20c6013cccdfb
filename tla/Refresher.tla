------------------------------ MODULE Refresher ------------------------------
(***************************************************************************)
(* What the dashboard promises of each of its two background reads, the    *)
(* collection of a snapshot and the payout report: a read is started only  *)
(* while the guard is down, and each delivery takes it down again.  One    *)
(* read is in flight from the beginning, outside the guard, because Init   *)
(* has a value receiver.  Dashboard implements it twice.                   *)
(***************************************************************************)
EXTENDS Naturals

VARIABLES
    guard,    \* a read was started and nothing was delivered since
    flights   \* the reads that were started and not delivered

RefresherInit == guard = FALSE /\ flights = 1

Start ==
    /\ ~guard
    /\ guard' = TRUE
    /\ flights' = flights + 1

Deliver ==
    /\ flights > 0
    /\ guard' = FALSE
    /\ flights' = flights - 1

RefresherNext == Start \/ Deliver

RefresherSpec == RefresherInit /\ [][RefresherNext]_<<guard, flights>>
=============================================================================
