---------------------------- MODULE MCDisplayUi ----------------------------
(* Instances of DisplayUi for TLC: a ring of three bytes, one row above the *)
(* stop row.                                                               *)
EXTENDS DisplayUi

Menu == <<"save", "step">>
=============================================================================
