------------------------- MODULE SettingsFileProofs -------------------------
(***************************************************************************)
(* The file written and renamed implements the page of NvStore, for any    *)
(* blobs, any call that fails and a kill anywhere: what is renamed is the  *)
(* whole blob, because it is renamed only after a close that succeeded.    *)
(***************************************************************************)
EXTENDS SettingsFile, TLAPS

\* A write holds a blob, and the temporary file is whole when it is renamed.
WriteInv ==
  /\ step \in Steps /\ saving \in Blobs \cup {Absent}
  /\ step # "idle" => saving \in Blobs
  /\ step = "idle" => saving = Absent
  /\ step = "rename" => tmp = saving

\* Every step keeps WriteInv.
LEMMA WriteInvKept == ASSUME FileAssumption, WriteInv, [Next]_fvars PROVE WriteInv'
<1>1. CASE \E b \in Blobs : Save(b)
  BY <1>1 DEF FileAssumption, WriteInv, Save, Steps
<1>2. CASE Write
  BY <1>2 DEF FileAssumption, WriteInv, Write, Fopen, Fwrite, Fclose, Rename, Steps
<1>3. CASE Report \/ Kill
  BY <1>3 DEF FileAssumption, WriteInv, Report, Kill, Steps
<1>4. CASE UNCHANGED fvars
  BY <1>4 DEF WriteInv, fvars
<1>. QED  BY <1>1, <1>2, <1>3, <1>4 DEF Next

\* Every step is a step of NvStore: the rename replaces the page, nothing else
\* touches it.
LEMMA StepsRefine == ASSUME FileAssumption, WriteInv, [Next]_fvars PROVE [Nv!Next]_(Nv!nvars)
<1>. USE DEF FileAssumption, Nv!nvars
<1>1. CASE \E b \in Blobs : Save(b)
  <2>1. PICK b \in Blobs : Save(b)  BY <1>1
  <2>2. Nv!Begin(b)  BY <2>1 DEF WriteInv, Save, Nv!Begin
  <2>. QED  BY <2>2 DEF Nv!Next
<1>2. CASE Rename /\ step' = "true"
  <2>1. Nv!Replace  BY <1>2 DEF WriteInv, Rename, Nv!Replace
  <2>. QED  BY <2>1 DEF Nv!Next
<1>3. CASE Fopen \/ Fwrite \/ Fclose \/ (Rename /\ step' = "false")
  BY <1>3 DEF Fopen, Fwrite, Fclose, Rename
<1>4. CASE Report
  <2>1. Nv!End  BY <1>4 DEF Report, Nv!End
  <2>. QED  BY <2>1 DEF Nv!Next, Nv!CutOff
<1>5. CASE Kill
  <2>1. Nv!End  BY <1>5 DEF Kill, Nv!End
  <2>. QED  BY <2>1 DEF Nv!Next, Nv!CutOff
<1>6. CASE UNCHANGED fvars
  BY <1>6 DEF fvars
<1>. QED  BY <1>1, <1>2, <1>3, <1>4, <1>5, <1>6 DEF Next, Write, Rename

\* SettingsNvm_Write and SettingsNvm_Read are the atomic store of NvStore.
THEOREM FileImplementsStore ==
  ASSUME FileAssumption PROVE Spec => ImplementsNvStore
<1>1. Init => WriteInv /\ Nv!Init
  BY DEF FileAssumption, Init, WriteInv, Nv!Init, Steps
<1>. QED
  BY <1>1, WriteInvKept, StepsRefine, PTL DEF Spec, ImplementsNvStore, Nv!Spec
=============================================================================
