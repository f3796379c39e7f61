----------------------------- MODULE MCFlashLog -----------------------------
(* A log of two sectors and three slots, the middle slot in both sectors.   *)
(* Bounds: a log that has been disturbed is followed while at most one      *)
(* entry has been begun, a save that has been crossed and the trace before  *)
(* the first entry; a full log is followed with the settings of the boot.   *)
EXTENDS FlashLog

Followed ==
  /\ spoiled # "no" => begun <= 1
  /\ crossed \/ debug => begun = 0
  /\ begun = MaxWrites => cfg = Default
=============================================================================
