------------------------- MODULE MCDistributorLock -------------------------
(* A small instance of DistributorLock: a loop and two "Distribute now" runs. *)
EXTENDS DistributorLock

CONSTANTS loop1, click1, click2, free

MCLoops == {loop1}
MCClicks == {click1, click2}
=============================================================================
