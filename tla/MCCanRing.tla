----------------------------- MODULE MCCanRing -----------------------------
(* A ring of three slots for TLC: the positions wrap, and it overflows.     *)
EXTENDS CanRing
=============================================================================
