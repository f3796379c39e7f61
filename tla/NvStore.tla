------------------------------ MODULE NvStore ------------------------------
(***************************************************************************)
(* What SettingsNvm_Write promises to the settings store: one page that    *)
(* holds a whole blob, always the old one or the new one.  A write that    *)
(* reports success has replaced it, one that reports failure has not, and  *)
(* one that is cut off has done either.                                    *)
(***************************************************************************)
CONSTANTS
  Blobs,  \* settings blobs
  Absent  \* no page

VARIABLES
  stored,  \* what the next start reads
  writing, \* the blob of the write under way, Absent if there is none
  done     \* it has taken effect

nvars == <<stored, writing, done>>

Init == stored \in Blobs \cup {Absent} /\ writing = Absent /\ done = FALSE

Begin(b) == writing = Absent /\ writing' = b /\ UNCHANGED <<stored, done>>

Replace ==
  /\ writing # Absent /\ ~done
  /\ stored' = writing /\ done' = TRUE /\ UNCHANGED writing

End == writing' = Absent /\ done' = FALSE /\ UNCHANGED stored

Success == writing # Absent /\ done /\ End
Failure == writing # Absent /\ ~done /\ End
CutOff  == End

Next == (\E b \in Blobs : Begin(b)) \/ Replace \/ Success \/ Failure \/ CutOff

Spec == Init /\ [][Next]_nvars
=============================================================================
