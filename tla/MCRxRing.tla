------------------------------ MODULE MCRxRing ------------------------------
(* The ring with three slots: the stream wraps it twice and overflows it.  *)
EXTENDS RxRing
=============================================================================
