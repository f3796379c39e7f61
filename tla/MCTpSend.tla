------------------------------ MODULE MCTpSend ------------------------------
(* A message of four packets for TLC; windows of two of them, or of all.    *)
EXTENDS TpSend
=============================================================================
