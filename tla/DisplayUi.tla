----------------------------- MODULE DisplayUi -----------------------------
(***************************************************************************)
(* Screens and buttons (Core/Src/display_ui.c).  UI_OnButtonInterrupt puts *)
(* a press into a ring of Size bytes and may come between any two steps of *)
(* UI_Loop; only UI_PopButtonEvent disables interrupts.  UI_Loop takes one *)
(* press, gives it to the handler of the screen, then looks at the time-   *)
(* outs and at the charge engine.                                          *)
(*                                                                         *)
(* Presses are those that pass the debouncing: any sequence of them.  The  *)
(* values of the fields are not followed, `effect` says what a press has   *)
(* done to the rest of the program.  Save and clear take long (`job`).     *)
(* ui_notif_active is set exactly while the screen is "notif", ui_dirty    *)
(* and the drawing are left out.  A tick is UI_NOTIF_GRACE_MS; one pass of *)
(* UI_Loop without a job takes less than that.                             *)
(***************************************************************************)
EXTENDS Naturals, Sequences

CONSTANTS
  Size,    \* UI_BTN_QUEUE_SIZE
  Keys,    \* the buttons that are pressed
  Items,   \* the flash menu, top to bottom
  Rows,    \* rows of the main screen before the stop row
  Fields,  \* number of ui_all_fields
  Grace,   \* UI_NOTIF_GRACE_MS, in ticks
  Timeout  \* UI_NOTIF_TIMEOUT_MS

Buttons == {"up", "down", "sharp", "star"}
Jobs    == {"save", "clear"}

ASSUME UiAssumption ==
  /\ Size \in Nat \ {0, 1} /\ Keys \subseteq Buttons
  /\ Items \in Seq(Jobs \cup {"log", "mem", "erase", "step"}) /\ Items # <<>>
  /\ Rows \in Nat /\ Fields \in Nat \ {0}
  /\ Grace \in Nat \ {0} /\ Timeout \in Nat /\ Grace < Timeout

Slots   == 0 .. Size - 1
Screens == {"main", "params", "flash", "connect", "notif"}

VARIABLES
  slot, head, tail,   \* ui_button_queue and its positions
  pc,                 \* where the main loop is
  inHand,             \* button_id of UI_Loop
  flushTo,            \* the tail that UI_FlushButtonEvents has read
  screen,             \* ui_screen
  returnTo,           \* ui_notif_return_screen
  shown,              \* GetTick() - ui_notif_start
  mainRow, paramRow,  \* ui_main_selected, ui_param_selected
  flashRow,           \* ui_flash_selected
  edit,               \* ui_param_edit
  confirm,            \* ui_flash_confirm
  manual,             \* ui_manual_mode = STEP
  job,                \* the save or clear that is running
  effect,             \* what the last handler did outside the display
  ticked,             \* the tick of this pass has come
  banner              \* history: the last # armed the job, on the flash screen

ring  == <<slot, head, tail>>
rows  == <<mainRow, paramRow, flashRow, edit, manual>>
popup == <<returnTo, shown>>
vars  == <<ring, pc, inHand, flushTo, screen, popup, rows, confirm, job,
           effect, ticked, banner>>

TypeOK ==
  /\ slot \in [Slots -> Buttons] /\ head \in Slots /\ tail \in Slots
  /\ pc \in {"Pop", "Handle", "Job", "FlushLoad", "FlushStore", "Timers"}
  /\ inHand \in Buttons \cup {"none"} /\ flushTo \in Slots
  /\ screen \in Screens /\ returnTo \in Screens \ {"notif"}
  /\ shown \in 0 .. Timeout
  /\ mainRow \in 0 .. Rows /\ paramRow \in 0 .. Fields - 1
  /\ flashRow \in 0 .. Len(Items) - 1
  /\ edit \in BOOLEAN /\ manual \in BOOLEAN
  /\ confirm \in Jobs \cup {"none"} /\ job \in Jobs \cup {"none"}
  /\ effect \in {"none", "stop", "advance", "change", "log", "erase", "save",
                 "clear"}
  /\ ticked \in BOOLEAN /\ banner \in BOOLEAN

\* UI_Init, and the statics.
Init ==
  /\ slot = [s \in Slots |-> "up"] /\ head = 0 /\ tail = 0
  /\ pc = "Pop" /\ inHand = "none" /\ flushTo = 0
  /\ screen = "main" /\ returnTo = "main" /\ shown = Timeout
  /\ mainRow = 0 /\ paramRow = 0 /\ flashRow = 0
  /\ edit = FALSE /\ confirm = "none" /\ manual = FALSE
  /\ job = "none" /\ effect = "none" /\ ticked = FALSE
  /\ banner = FALSE

\* Variant with a fault: the positions run one byte too far.
After_TooFar(pos) == IF pos = Size THEN 0 ELSE pos + 1

After(pos) == IF pos + 1 = Size THEN 0 ELSE pos + 1

Selected == Items[flashRow + 1]

-----------------------------------------------------------------------------
(* The interrupt *)

\* Variant with a fault: a full queue does not give up its oldest press.
PressInterrupt_KeepOld(b) ==
  /\ slot' = [slot EXCEPT ![head] = b]
  /\ head' = After(head)
  /\ UNCHANGED <<tail, pc, inHand, flushTo, screen, popup, rows, confirm, job,
                 effect, ticked, banner>>

\* UI_OnButtonInterrupt: the newest press is kept, if need be instead of the
\* oldest.
PressInterrupt(b) ==
  /\ slot' = [slot EXCEPT ![head] = b]
  /\ head' = After(head)
  /\ tail' = IF After(head) = tail THEN After(tail) ELSE tail
  /\ UNCHANGED <<pc, inHand, flushTo, screen, popup, rows, confirm, job,
                 effect, ticked, banner>>

-----------------------------------------------------------------------------
(* UI_PopButtonEvent and UI_FlushButtonEvents *)

\* Interrupts are disabled.
Pop ==
  /\ pc = "Pop"
  /\ IF head = tail
     THEN pc' = "Timers" /\ UNCHANGED <<inHand, tail>>
     ELSE pc' = "Handle" /\ inHand' = slot[tail] /\ tail' = After(tail)
  /\ UNCHANGED <<slot, head, flushTo, screen, popup, rows, confirm, job,
                 effect, ticked, banner>>

FlushLoad ==
  /\ pc = "FlushLoad" /\ pc' = "FlushStore" /\ flushTo' = tail
  /\ UNCHANGED <<ring, inHand, screen, popup, rows, confirm, job, effect,
                 ticked, banner>>

\* head = tail, with the tail read before: if interrupts have moved the tail of
\* a full queue since, the older presses are all still there.
FlushStore ==
  /\ pc = "FlushStore" /\ pc' = "Timers"
  /\ head' = flushTo /\ flushTo' = 0
  /\ UNCHANGED <<slot, tail, inHand, screen, popup, rows, confirm, job, effect,
                 ticked, banner>>

-----------------------------------------------------------------------------
(* The handlers: what they leave alone, and where they go on *)

Elsewhere == /\ inHand' = "none"
             /\ UNCHANGED <<ring, flushTo, popup, job, ticked>>

\* A press that changes rows, values or the screen, and nothing that waits for
\* a confirmation.
Plain(next) == /\ pc' = "Timers" /\ screen' = next
               /\ banner' = FALSE /\ UNCHANGED confirm

HandleNotif ==
  /\ screen = "notif" /\ banner' = FALSE
  /\ \/ /\ shown < Grace
        /\ pc' = "Timers" /\ UNCHANGED screen
     \/ /\ shown >= Grace
        /\ screen' = returnTo /\ pc' = "FlushLoad"
  /\ UNCHANGED <<confirm, effect, rows>> /\ Elsewhere

HandleMain(b) ==
  /\ screen = "main"
  /\ \/ /\ b \in {"up", "down"}
        /\ effect' = CASE mainRow < Rows -> "change"
                       [] mainRow = Rows /\ manual -> "advance"
                       [] mainRow = Rows /\ ~manual -> "stop"
        /\ Plain("main") /\ UNCHANGED rows
     \/ /\ b = "sharp"
        /\ mainRow' = (mainRow + 1) % (Rows + 1)
        /\ Plain("main") /\ UNCHANGED <<effect, paramRow, flashRow, edit,
                                        manual>>
     \/ /\ b = "star"
        /\ edit' = FALSE
        /\ Plain("params") /\ UNCHANGED <<effect, mainRow, paramRow, flashRow,
                                          manual>>
  /\ Elsewhere

HandleParams(b) ==
  /\ screen = "params"
  /\ \/ /\ b = "star"
        /\ edit' = FALSE /\ flashRow' = 0
        /\ Plain("flash") /\ UNCHANGED <<effect, mainRow, paramRow, manual>>
     \/ /\ b = "sharp"
        /\ edit' = ~edit
        /\ Plain("params") /\ UNCHANGED <<effect, mainRow, paramRow, flashRow,
                                          manual>>
     \/ /\ b \in {"up", "down"} /\ edit
        /\ effect' = "change"
        /\ Plain("params") /\ UNCHANGED rows
     \/ /\ b \in {"up", "down"} /\ ~edit
        /\ paramRow' = IF b = "up" THEN (paramRow + Fields - 1) % Fields
                                   ELSE (paramRow + 1) % Fields
        /\ Plain("params") /\ UNCHANGED <<effect, mainRow, flashRow, edit,
                                          manual>>
  /\ Elsewhere

\* The flash menu, and the connect screen too: * and the movement.
HandleFlashMove(b) ==
  /\ screen \in {"flash", "connect"}
  /\ \/ /\ b = "star"
        /\ mainRow' = 0
        /\ Plain("main") /\ UNCHANGED flashRow
     \/ /\ b \in {"up", "down"}
        /\ flashRow' = IF b = "up" THEN (flashRow + Len(Items) - 1) % Len(Items)
                                   ELSE (flashRow + 1) % Len(Items)
        /\ confirm' = "none" /\ banner' = FALSE
        /\ pc' = "Timers" /\ UNCHANGED <<screen, mainRow>>
  /\ UNCHANGED <<effect, paramRow, edit, manual>> /\ Elsewhere

\* # with nothing to confirm.
HandleFlashSelect ==
  /\ screen \in {"flash", "connect"} /\ confirm = "none"
  /\ confirm' = IF Selected \in Jobs THEN Selected ELSE "none"
  /\ banner' = (screen = "flash" /\ Selected \in Jobs)
  /\ effect' = IF Selected \in {"log", "erase"} THEN Selected ELSE "none"
  /\ manual' = IF Selected = "step" THEN ~manual ELSE manual
  /\ pc' = "Timers"
  /\ UNCHANGED <<screen, mainRow, paramRow, flashRow, edit>> /\ Elsewhere

\* # again: SettingsStore_Save, or SettingsStore_Clear, GbtRestoreDefaults and
\* FlashLog_SetEnabled.
HandleFlashConfirm ==
  /\ screen \in {"flash", "connect"} /\ confirm # "none"
  /\ job' = confirm /\ effect' = confirm /\ pc' = "Job"
  /\ inHand' = "none"
  /\ UNCHANGED <<ring, flushTo, screen, popup, rows, confirm, ticked, banner>>

\* It returns: UI_ShowNotification.
JobDone ==
  /\ pc = "Job" /\ pc' = "FlushLoad"
  /\ returnTo' = screen /\ screen' = "notif" /\ shown' = 0
  /\ confirm' = "none" /\ job' = "none" /\ banner' = FALSE
  /\ UNCHANGED <<ring, inHand, flushTo, rows, effect, ticked>>

Handle ==
  /\ pc = "Handle"
  /\ \/ HandleNotif
     \/ HandleMain(inHand)
     \/ HandleParams(inHand)
     \/ HandleFlashMove(inHand)
     \/ inHand = "sharp" /\ (HandleFlashSelect \/ HandleFlashConfirm)

-----------------------------------------------------------------------------
(* The rest of UI_Loop, and the clock *)

\* Variant with a fault: only a key dismisses the popup.
Dismissed_ByKey == screen

\* The automatic dismissal.
Dismissed == IF screen = "notif" /\ shown >= Timeout THEN returnTo ELSE screen

\* The dismissal, then the switch between main and connect: what
\* GbtIsConnectingPhase says depends on the charger.
Timers(connecting) ==
  /\ pc = "Timers" /\ pc' = "Pop"
  /\ screen' = CASE Dismissed = "main" /\ connecting -> "connect"
                 [] Dismissed = "connect" /\ ~connecting -> "main"
                 [] OTHER -> Dismissed
  /\ effect' = "none" /\ ticked' = FALSE
  /\ UNCHANGED <<ring, inHand, flushTo, popup, rows, confirm, job, banner>>

UI_Loop == Pop \/ Handle \/ JobDone \/ FlushLoad \/ FlushStore
             \/ \E connecting \in BOOLEAN : Timers(connecting)

Tick ==
  /\ screen = "notif" /\ shown < Timeout
  /\ pc = "Pop" \/ ~ticked
  /\ shown' = shown + 1 /\ ticked' = (pc # "Pop")
  /\ UNCHANGED <<ring, pc, inHand, flushTo, screen, returnTo, rows, confirm,
                 job, effect, banner>>

Press == \E b \in Keys : PressInterrupt(b)

Next == Press \/ UI_Loop \/ Tick

Spec == Init /\ [][Next]_vars

\* The main loop runs and the clock ticks; nothing is owed by the operator.
FairSpec == Spec /\ WF_vars(UI_Loop) /\ WF_vars(Tick)

-----------------------------------------------------------------------------

\* The presses that wait, oldest first.
Count == IF head >= tail THEN head - tail ELSE head + Size - tail

SlotOf(k) == IF tail + k - 1 < Size THEN tail + k - 1 ELSE tail + k - 1 - Size

Waiting == [k \in 1 .. Count |-> slot[SlotOf(k)]]

Flushing == CASE pc # "FlushStore" -> "none"
              [] pc = "FlushStore" /\ tail = flushTo -> "all"
              [] pc = "FlushStore" /\ tail # flushTo -> "newest"

Abstract == INSTANCE ButtonQueue
              WITH Capacity <- Size - 1, queue <- Waiting, flush <- Flushing

\* The ring is the queue of ButtonQueue: presses reach the handlers in the order
\* they were made, at most once each.  Only a full queue loses its oldest one,
\* and only a flush loses others.
ImplementsButtonQueue == Abstract!Spec

\* The popup goes away by itself, whatever is pressed.
PopupEnds == screen = "notif" ~> screen # "notif"

\* README: a save or clear needs two # in a row on the settings screen, the
\* first of which shows the banner.
SecondSharpActs == [][(job = "none" /\ job' # "none") => banner]_vars
=============================================================================
