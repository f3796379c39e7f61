---------------------------- MODULE SettingsFile ----------------------------
(***************************************************************************)
(* The settings of the Linux program (linux/settings_nvm_file.c): a blob   *)
(* is written to a temporary file, which is then renamed.  Every call may  *)
(* fail, and the process may be killed between any two.  What is renamed   *)
(* stays renamed, and a file that was closed keeps its bytes: a machine    *)
(* that loses its power is left out, no fsync guards against that.         *)
(***************************************************************************)
CONSTANTS
  Blobs,  \* settings blobs
  Absent  \* no such file

Part == "part"  \* a file that holds less than a blob

FileAssumption == Absent \notin Blobs /\ Part \notin Blobs /\ Part # Absent

VARIABLES
  file,   \* settings_path
  tmp,    \* tmp_path
  saving, \* the blob that SettingsNvm_Write writes, Absent outside of it
  step    \* where SettingsNvm_Write is

fvars == <<file, tmp, saving, step>>

Steps == {"idle", "fopen", "fwrite", "fclose", "rename", "true", "false"}

FileTypeOK ==
  /\ file \in Blobs \cup {Absent, Part} /\ tmp \in Blobs \cup {Absent, Part}
  /\ saving \in Blobs \cup {Absent} /\ step \in Steps

Init == file = Absent /\ tmp = Absent /\ saving = Absent /\ step = "idle"

\* SettingsStore_Save makes the blob.
Save(b) ==
  /\ step = "idle" /\ step' = "fopen" /\ saving' = b
  /\ UNCHANGED <<file, tmp>>

\* It may fail, without touching what is there.
Fopen ==
  /\ step = "fopen" /\ UNCHANGED <<file, saving>>
  /\ \/ step' = "fwrite" /\ tmp' = Part
     \/ step' = "false" /\ UNCHANGED tmp

\* The bytes may stay in the buffer of the stream.
Fwrite ==
  /\ step = "fwrite" /\ UNCHANGED <<file, saving>>
  /\ \/ step' = "fclose" /\ tmp' \in {Part, saving}
     \/ step' = "false" /\ tmp' = Absent

\* Variant with a fault: the result of fclose is not looked at.
Fclose_Unchecked ==
  /\ step = "fclose" /\ UNCHANGED <<file, saving>>
  /\ step' = "rename" /\ tmp' \in {Part, saving}

Fclose ==
  /\ step = "fclose" /\ UNCHANGED <<file, saving>>
  /\ \/ step' = "rename" /\ tmp' = saving
     \/ step' = "false" /\ tmp' = Absent

Rename ==
  /\ step = "rename" /\ UNCHANGED saving
  /\ \/ step' = "true" /\ file' = tmp /\ tmp' = Absent
     \/ step' = "false" /\ tmp' = Absent /\ UNCHANGED file

Write == Fopen \/ Fwrite \/ Fclose \/ Rename

\* SETTINGS SAVED, or SAVE FAILED.
Report ==
  /\ step \in {"true", "false"} /\ step' = "idle" /\ saving' = Absent
  /\ UNCHANGED <<file, tmp>>

\* The process is killed: the files stay.
Kill == saving' = Absent /\ step' = "idle" /\ UNCHANGED <<file, tmp>>

Next == (\E b \in Blobs : Save(b)) \/ Write \/ Report \/ Kill

Spec == Init /\ [][Next]_fvars

-----------------------------------------------------------------------------

Nv == INSTANCE NvStore
        WITH stored <- file, writing <- saving, done <- step = "true"

\* The file is the page of NvStore.
ImplementsNvStore == Nv!Spec
=============================================================================
