----------------------------- MODULE MCGbtBms -----------------------------
(***************************************************************************)
(* Instances of GbtBms for TLC.  The periods keep the order of the code's: *)
(* the coarse clock has one tick for 250 ms and BCP twice as long as BRO,  *)
(* so that both fall due in the same pass; the fine clock tells BCL from   *)
(* the slower frames of the charging state.                                *)
(***************************************************************************)
EXTENDS GbtBms

CoarsePeriod == [f \in Cyclic |-> IF f = "BCP" THEN 2 ELSE 1]
FinePeriod   == [f \in Cyclic |-> IF f = "BCL" THEN 1 ELSE 2]

\* g_runtime as SettingsStore_Init leaves it, in release mode m.
Boot(lock, wait, m) ==
  [lock |-> lock, wait |-> wait, mode |-> m, confirm |-> TRUE, ready |-> FALSE,
   permit |-> TRUE, delay |-> 2, atTail |-> FALSE, demand |-> "set"]

\* The boot lock is armed, as in g_runtime_defaults.
BootLocked == {Boot(TRUE, TRUE, "delay"), Boot(TRUE, TRUE, "confirm")}

\* The lock was saved as armed, or as 0 so that the session starts at boot.
BootDelay == {Boot(TRUE, TRUE, "delay"), Boot(FALSE, TRUE, "delay")}

=============================================================================
