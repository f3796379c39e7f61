------------------------------- MODULE GbtBms -------------------------------
(***************************************************************************)
(* The GB/T 27930 charge engine of the BMS (Core/Src/gbt_27930_bms.c):     *)
(* SetupCharge, LoopCharge, handle_rx_message, StopCharge and the manual   *)
(* step, called from the main loop `while (1) { LoopCharge(); UI_Loop(); }`*)
(* and preempted at any point by the UART interrupt, which runs a whole    *)
(* CLI command.                                                            *)
(*                                                                         *)
(* One pass of LoopCharge is split at the points where something else can  *)
(* happen in between: after the boot-lock test, between two received       *)
(* frames, before the switch over the state, while a J1939 transport       *)
(* session (tp_send_rts_cts) waits for the charger, and between the BCP    *)
(* transport session and the BRO that follows it in the same pass.         *)
(*                                                                         *)
(* Time.  `t_last_X` is modelled by the age of that timestamp, GetTS() -   *)
(* t_last_X, which saturates at AgeCap.  LoopCharge reads the clock once   *)
(* into `now` and goes on using it: `lag` is GetTS() - now, so a period    *)
(* test sees age - lag and `t_last_X = now` makes the age equal to lag.    *)
(* `t_last_X = 0` stands for "long ago": the clock is assumed to have run  *)
(* for AgeCap ticks at boot, when the display and the settings come up.    *)
(*                                                                         *)
(* The frames the charger may send are arbitrary: any frame at any moment. *)
(* How the receive ring stores them is module CanRing; how a transport     *)
(* session exchanges its frames is module TpSend.  The timestamp           *)
(* t_last_CCS_seen and last_crm_confirm are written and never used, and    *)
(* state SEND_BRO is never assigned: none of the three is modelled.        *)
(***************************************************************************)
EXTENDS Naturals

CONSTANTS
  Period,      \* transmission period of each cyclic frame, in ticks
  MaxLag,      \* bound: ticks that may pass inside one LoopCharge pass
  AgeCap,      \* bound: age at which a timestamp saturates
  Delays,      \* values of BRO_PRE_DELAY_S the host may set, in ticks
  DefaultDelay,\* the value of GbtRestoreDefaults
  BootRuntimes,\* g_runtime as SettingsStore_Init may leave it at boot
  RsetFields,  \* runtime fields the host writes over the CLI in a run
  UiOps,       \* operator keys that reach the engine in a run
  MaxCommands  \* bound: commands and keys of one behaviour

Cyclic == {"BHM", "BRM", "BCP", "BRO", "BCL", "BCS", "BSM", "BST"}

\* "PHASE" is t_bro_phase_start.
Timers == Cyclic \cup {"PHASE"}

States == {"WAIT", "BHM", "BRM", "BCP", "CHG", "END"}

\* BRO release modes GBT27930_BRO_WAIT_NONE, _DELAY and _CONFIRM.
Modes == {"none", "delay", "confirm"}

(***************************************************************************)
(* Frames of the charger, by PGN.  `arg` is what the handler looks at: the *)
(* confirmation byte of CRM and CRO is 0xAA, or the pack voltage and       *)
(* current of CCS satisfy the tail condition.                              *)
(***************************************************************************)
Frames == [pgn : {"CHM", "CML", "CST"}, arg : {FALSE}]
            \cup [pgn : {"CRM", "CRO", "CCS"}, arg : BOOLEAN]

\* What the BMS transmits.  A transport session is one transmission here.
TxFrames == {"BHM", "BRM", "BCP", "BRO_00", "BRO_AA",
             "BCL", "BSM", "BCS", "BST"}

(***************************************************************************)
(* The fields of g_runtime that control the engine.  `atTail` is the tail  *)
(* condition packVoltage > tailSwitchVoltage and |packCurrent| <           *)
(* tailSwitchCurrent; `demand` tells an operator's demand from the tail    *)
(* request; `ready` is bro_ready.                                          *)
(***************************************************************************)
FieldValues ==
  [lock    |-> BOOLEAN, wait   |-> BOOLEAN, mode   |-> Modes,
   confirm |-> BOOLEAN, ready  |-> BOOLEAN, permit |-> BOOLEAN,
   delay   |-> Delays,  atTail |-> BOOLEAN, demand |-> {"set"}]

Runtimes ==
  [lock    : BOOLEAN, wait   : BOOLEAN, mode   : Modes,
   confirm : BOOLEAN, ready  : BOOLEAN, permit : BOOLEAN,
   delay   : Delays,  atTail : BOOLEAN, demand : {"set", "tail"}]

PeriodAssumption == Period \in [Cyclic -> Nat \ {0}]
BoundAssumption  == /\ MaxLag \in Nat /\ AgeCap \in Nat
                    /\ \A f \in Cyclic : Period[f] + MaxLag <= AgeCap
DelayAssumption  == /\ Delays \subseteq 0 .. AgeCap
                    /\ DefaultDelay \in Delays
BootAssumption   == BootRuntimes \subseteq Runtimes
HostAssumption   == /\ RsetFields \subseteq DOMAIN FieldValues
                    /\ UiOps \subseteq {"stop", "step", "restore"}
                    /\ MaxCommands \in Nat

ASSUME ConstantsAssumption ==
  /\ PeriodAssumption /\ BoundAssumption /\ DelayAssumption
  /\ BootAssumption /\ HostAssumption

VARIABLES
  pc,         \* where the main loop is
  state,      \* g_state
  locked,     \* g_start_locked
  runtime,    \* g_runtime
  cml,        \* g_cml_seen
  stopSeq,    \* g_stop_sequence_active
  bstSent,    \* g_bst_sent
  tailApplied,\* g_tail_request_applied
  age,        \* GetTS() - t_last_X, saturating at AgeCap
  lag,        \* GetTS() - now inside LoopCharge
  tx,         \* frames the last step handed to CanSendMsg
  hist,       \* history, read by the properties only
  commands    \* commands and keys still to come (bounded by MaxCommands)

engine == <<state, locked, runtime, cml, stopSeq, bstSent, tailApplied>>
vars   == <<pc, engine, age, lag, tx, hist, commands>>

(***************************************************************************)
(* History of the session, i.e. since SetupCharge: CHM was heard or an     *)
(* operator or host opened the bus (`open`), a CML came or was skipped     *)
(* (`cml`) and how long ago (`since`), BRO_CONFIRM was set (`confirmed`),  *)
(* and BRO=0xAA was sent in the BRO window open now, with the release      *)
(* fields as they are (`aa`).  `fresh` is `cml` counted since the state    *)
(* was last WAIT_CHM, and `released` tells whether LOCK_BEFORE_START has   *)
(* read 0 since boot.                                                      *)
(***************************************************************************)
Histories ==
  [open : BOOLEAN, cml : BOOLEAN, since : 0 .. AgeCap, fresh : BOOLEAN,
   confirmed : BOOLEAN, aa : BOOLEAN, released : BOOLEAN]

PcValues == {"Loop", "Unlock", "Drain", "Switch", "Bro", "Ui",
             "TpBRM", "TpBCP", "TpBCS"}

TypeOK ==
  /\ pc \in PcValues
  /\ state \in States
  /\ runtime \in Runtimes
  /\ locked \in BOOLEAN /\ cml \in BOOLEAN /\ stopSeq \in BOOLEAN
  /\ bstSent \in BOOLEAN /\ tailApplied \in BOOLEAN
  /\ age \in [Timers -> 0 .. AgeCap]
  /\ lag \in 0 .. MaxLag
  /\ tx \subseteq TxFrames
  /\ hist \in Histories
  /\ commands \in 0 .. MaxCommands

-----------------------------------------------------------------------------
(* Timestamps *)

\* (uint32_t)(now - t_last) >= PERIOD.  A timestamp taken after `now` makes
\* the difference wrap around to a huge number: the frame counts as due.
Due(f) == age[f] < lag \/ age[f] - lag >= Period[f]

\* t_last_X = 0 for every X in S; the age is then as large as it can get.
LongAgo(S) == [t \in Timers |-> IF t \in S THEN AgeCap ELSE age[t]]

\* t_last_X = GetTS() for every X in S.
JustNow(S) == [t \in Timers |-> IF t \in S THEN 0 ELSE age[t]]

\* t_last_X = now for every X in S.
AtNow(S) == [t \in Timers |-> IF t \in S THEN lag ELSE age[t]]

Older(a) == IF a < AgeCap THEN a + 1 ELSE AgeCap

-----------------------------------------------------------------------------
(* handle_rx_message, one operator per PGN *)

RxCHM(f) ==
  /\ f.pgn = "CHM"
  /\ hist' = [hist EXCEPT !.open = TRUE]
  /\ IF state = "WAIT"
     THEN state' = "BHM" /\ age' = LongAgo({"BHM"})
     ELSE UNCHANGED <<state, age>>
  /\ UNCHANGED <<runtime, cml, stopSeq, bstSent>>

RxCRM(f) ==
  /\ f.pgn = "CRM"
  /\ CASE state = "BHM"           -> state' = "BRM" /\ age' = LongAgo({"BRM"})
       [] state = "BRM" /\ f.arg  -> state' = "BCP" /\ age' = LongAgo({"BCP"})
       [] OTHER                   -> UNCHANGED <<state, age>>
  /\ UNCHANGED <<runtime, cml, stopSeq, bstSent, hist>>

\* Variant with a fault: every CML opens the BRO window anew.
RxCML_EveryTime(f) ==
  /\ f.pgn = "CML"
  /\ cml' = TRUE
  /\ age' = JustNow({"PHASE", "BRO"})
  /\ hist' = [hist EXCEPT !.cml = TRUE, !.fresh = TRUE,
                          !.since = IF hist.cml THEN @ ELSE 0]
  /\ UNCHANGED <<state, runtime, stopSeq, bstSent>>

\* The first CML opens the BRO window, in whatever state it comes.
RxCML(f) ==
  LET long  == IF state = "BCP" THEN {"BCP"} ELSE {}
      fresh == IF cml THEN {} ELSE {"PHASE", "BRO"}
  IN
  /\ f.pgn = "CML"
  /\ cml' = TRUE
  /\ age' = [t \in Timers |-> IF t \in fresh THEN 0 ELSE LongAgo(long)[t]]
  /\ hist' = [hist EXCEPT !.cml = TRUE, !.fresh = TRUE,
                          !.since = IF hist.cml THEN @ ELSE 0]
  /\ UNCHANGED <<state, runtime, stopSeq, bstSent>>

RxCRO(f) ==
  /\ f.pgn = "CRO"
  /\ IF f.arg /\ state = "BCP"
     THEN state' = "CHG" /\ age' = LongAgo({"BCL", "BCS", "BSM"})
     ELSE UNCHANGED <<state, age>>
  /\ UNCHANGED <<runtime, cml, stopSeq, bstSent, hist>>

\* Variant with a fault: the charger's pause flag overwrites PERMIT_CHARGE.
RxCCS_Permit(f) ==
  /\ f.pgn = "CCS"
  /\ runtime' = IF state = "CHG"
                THEN [runtime EXCEPT !.atTail = f.arg, !.permit = f.arg]
                ELSE runtime
  /\ UNCHANGED <<state, cml, stopSeq, bstSent, age, hist>>

RxCCS(f) ==
  /\ f.pgn = "CCS"
  /\ runtime' = IF state = "CHG" THEN [runtime EXCEPT !.atTail = f.arg]
                                 ELSE runtime
  /\ UNCHANGED <<state, cml, stopSeq, bstSent, age, hist>>

RxCST(f) ==
  /\ f.pgn = "CST"
  /\ state' = "END" /\ stopSeq' = FALSE /\ bstSent' = FALSE
  /\ UNCHANGED <<runtime, cml, age, hist>>

HandleRx(f) ==
  /\ RxCHM(f) \/ RxCRM(f) \/ RxCML(f) \/ RxCRO(f) \/ RxCCS(f) \/ RxCST(f)
  /\ tx' = {}
  /\ UNCHANGED <<locked, tailApplied>>

-----------------------------------------------------------------------------
(* SetupCharge: at boot (Init) and when LoopCharge releases the lock *)

\* Variant with a fault: a confirmation outlives its session.
FreshRuntime_KeepConfirm(r) == [r EXCEPT !.permit = TRUE, !.ready = FALSE]

\* The runtime fields a new session resets.
FreshRuntime(r) ==
  [r EXCEPT !.confirm = FALSE, !.permit = TRUE, !.ready = FALSE]

FreshHistory(r, everReleased) ==
  [open |-> ~r.wait, cml |-> FALSE, since |-> 0, fresh |-> FALSE,
   confirmed |-> FALSE, aa |-> FALSE, released |-> everReleased]

\* The first BHM is sent at once when neither the lock nor CHM holds it back.
FirstTx(r) == IF ~r.lock /\ ~r.wait THEN {"BHM"} ELSE {}

FreshAges(r) ==
  [t \in Timers |-> IF t = "PHASE" \/ t \in FirstTx(r) THEN 0 ELSE AgeCap]

SetupCharge ==
  /\ state' = "WAIT"
  /\ runtime' = FreshRuntime(runtime)
  /\ locked' = runtime.lock
  /\ cml' = FALSE /\ stopSeq' = FALSE /\ bstSent' = FALSE
  /\ tailApplied' = FALSE
  /\ tx' = FirstTx(runtime)
  /\ age' = FreshAges(runtime)
  /\ hist' = FreshHistory(runtime, hist.released)

Init ==
  /\ \E r \in BootRuntimes :
       /\ runtime = FreshRuntime(r)
       /\ locked = r.lock
       /\ tx = FirstTx(r)
       /\ age = FreshAges(r)
       /\ hist = FreshHistory(r, ~r.lock)
  /\ pc = "Loop" /\ state = "WAIT" /\ lag = 0
  /\ cml = FALSE /\ stopSeq = FALSE /\ bstSent = FALSE
  /\ tailApplied = FALSE /\ commands = MaxCommands

-----------------------------------------------------------------------------
(* LoopCharge *)

\* LoopCharge returns: `now` dies with it.
Return == pc' = "Ui" /\ lag' = 0

\* Variant with a fault: no return while the lock is armed.
EnterLocked_FallThrough ==
  /\ pc = "Loop" /\ locked
  /\ pc' = IF runtime.lock THEN "Drain" ELSE "Unlock"
  /\ locked' = runtime.lock
  /\ tx' = {}
  /\ UNCHANGED <<state, runtime, cml, stopSeq, bstSent, tailApplied, age, lag,
                 hist, commands>>

\* Variant with a fault: the flag is sampled at session start only.
EnterLocked_Forever ==
  /\ pc = "Loop" /\ locked
  /\ Return /\ tx' = {}
  /\ UNCHANGED <<engine, age, hist, commands>>

\* Locked: received frames are thrown away and the lock flag is tested.
EnterLocked ==
  /\ pc = "Loop" /\ locked
  /\ IF runtime.lock
     THEN Return /\ UNCHANGED locked
     ELSE pc' = "Unlock" /\ locked' = FALSE /\ UNCHANGED lag
  /\ tx' = {}
  /\ UNCHANGED <<state, runtime, cml, stopSeq, bstSent, tailApplied, age, hist,
                 commands>>

\* The session starts and `now` is read again.
Unlock ==
  /\ pc = "Unlock"
  /\ SetupCharge
  /\ pc' = "Drain" /\ lag' = 0
  /\ UNCHANGED commands

EnterUnlocked ==
  /\ pc = "Loop" /\ ~locked
  /\ pc' = "Drain" /\ tx' = {}
  /\ UNCHANGED <<engine, age, lag, hist, commands>>

\* One turn of the loop that empties the receive ring ...
DrainRx(f) ==
  /\ pc = "Drain"
  /\ HandleRx(f)
  /\ UNCHANGED <<pc, lag, commands>>

\* ... which ends when Pop finds it empty.
DrainDone ==
  /\ pc = "Drain"
  /\ pc' = "Switch" /\ tx' = {}
  /\ UNCHANGED <<engine, age, lag, hist, commands>>

\* Send single frame f if `may` holds and f is due, and return.
SendCyclic(f, may) ==
  /\ Return
  /\ IF may /\ Due(f) THEN tx' = {f} /\ age' = AtNow({f})
                       ELSE tx' = {} /\ UNCHANGED age
  /\ UNCHANGED <<engine, hist, commands>>

\* Variant with a fault: BHM from the start, whatever WAIT_FOR_CHM says.
SwitchWait_Always ==
  /\ pc = "Switch" /\ state = "WAIT"
  /\ SendCyclic("BHM", TRUE)

\* Without WAIT_FOR_CHM the BHM is sent from the start.
SwitchWait ==
  /\ pc = "Switch" /\ state = "WAIT"
  /\ SendCyclic("BHM", ~runtime.wait)

SwitchBhm ==
  /\ pc = "Switch" /\ state = "BHM"
  /\ SendCyclic("BHM", TRUE)

\* Open the transport session of f if it is due, else go on at `next`.
StartTp(f, tpPc, next) ==
  /\ IF Due(f) THEN pc' = tpPc /\ tx' = {f} /\ UNCHANGED lag
               ELSE next /\ tx' = {}
  /\ UNCHANGED <<engine, age, hist, commands>>

SwitchBrm ==
  /\ pc = "Switch" /\ state = "BRM"
  /\ StartTp("BRM", "TpBRM", Return)

\* The BRO of this state comes after the transport session: see Bro.
SwitchBcp ==
  /\ pc = "Switch" /\ state = "BCP"
  /\ StartTp("BCP", "TpBCP", pc' = "Bro" /\ UNCHANGED lag)

\* Variants with a fault: the tail request is not remembered; the BCL branch
\* stamps t_last_BSM.
SwitchCharging_TailAgain ==
  LET sent == {f \in {"BCL", "BSM"} : Due(f)} IN
  /\ pc = "Switch" /\ state = "CHG"
  /\ tailApplied' = (tailApplied \/ runtime.atTail)
  /\ runtime' = IF runtime.atTail THEN [runtime EXCEPT !.demand = "tail"]
                                  ELSE runtime
  /\ age' = AtNow(sent)
  /\ Return /\ tx' = sent
  /\ UNCHANGED <<state, locked, cml, stopSeq, bstSent, hist, commands>>

SwitchCharging_WrongStamp ==
  LET sent == IF Due("BCL") THEN {"BCL"} ELSE {f \in {"BSM"} : Due(f)} IN
  /\ pc = "Switch" /\ state = "CHG"
  /\ age' = AtNow(IF Due("BCL") THEN {"BCL", "BSM"} ELSE sent)
  /\ IF Due("BCS")
     THEN pc' = "TpBCS" /\ tx' = sent \cup {"BCS"} /\ UNCHANGED lag
     ELSE Return /\ tx' = sent
  /\ UNCHANGED <<engine, hist, commands>>

\* maybe_apply_tail_request, then BCL and BSM, then BCS by transport session.
SwitchCharging ==
  LET tail == ~tailApplied /\ runtime.atTail
      sent == {f \in {"BCL", "BSM"} : Due(f)}
  IN
  /\ pc = "Switch" /\ state = "CHG"
  /\ tailApplied' = (tailApplied \/ tail)
  /\ runtime' = IF tail THEN [runtime EXCEPT !.demand = "tail"] ELSE runtime
  /\ age' = AtNow(sent)
  /\ IF Due("BCS")
     THEN pc' = "TpBCS" /\ tx' = sent \cup {"BCS"} /\ UNCHANGED lag
     ELSE Return /\ tx' = sent
  /\ UNCHANGED <<state, locked, cml, stopSeq, bstSent, hist, commands>>

\* Variants with a fault: BST waits for an earlier BST; BST is sent once only.
SwitchEnd_Never ==
  LET bst == stopSeq /\ bstSent /\ Due("BST") IN
  /\ pc = "Switch" /\ state = "END"
  /\ Return
  /\ tx' = (IF bst THEN {"BST"} ELSE {})
  /\ UNCHANGED <<engine, age, hist, commands>>

SwitchEnd_Once ==
  LET bst == stopSeq /\ ~bstSent IN
  /\ pc = "Switch" /\ state = "END"
  /\ Return
  /\ bstSent' = (bstSent \/ bst)
  /\ tx' = (IF bst THEN {"BST"} ELSE {})
  /\ UNCHANGED <<state, locked, runtime, cml, stopSeq, tailApplied, age, hist,
                 commands>>

SwitchEnd ==
  LET bst == stopSeq /\ (~bstSent \/ Due("BST")) IN
  /\ pc = "Switch" /\ state = "END"
  /\ Return
  /\ bstSent' = (bstSent \/ bst)
  /\ IF bst THEN tx' = {"BST"} /\ age' = AtNow({"BST"})
            ELSE tx' = {} /\ UNCHANGED age
  /\ UNCHANGED <<state, locked, runtime, cml, stopSeq, tailApplied, hist, commands>>

Switch == SwitchWait \/ SwitchBhm \/ SwitchBrm \/ SwitchBcp
            \/ SwitchCharging \/ SwitchEnd

-----------------------------------------------------------------------------
(* tp_send_rts_cts, seen from the engine: while the session waits for CTS  *)
(* or EOM_ACK, every other frame goes through handle_rx_message.           *)

TpPcs == {"TpBRM", "TpBCP", "TpBCS"}

TpFrame == [p \in TpPcs |-> CASE p = "TpBRM" -> "BRM"
                              [] p = "TpBCP" -> "BCP"
                              [] p = "TpBCS" -> "BCS"]

TpRx(f) ==
  /\ pc \in TpPcs
  /\ HandleRx(f)
  /\ UNCHANGED <<pc, lag, commands>>

\* It ends, well or not (the result is ignored), and t_last_X = now.
TpEnd ==
  /\ pc \in TpPcs
  /\ age' = AtNow({TpFrame[pc]})
  /\ IF pc = "TpBCP" THEN pc' = "Bro" /\ UNCHANGED lag ELSE Return
  /\ tx' = {}
  /\ UNCHANGED <<engine, hist, commands>>

-----------------------------------------------------------------------------
(* build_and_send_BRO *)

\* bro_ready_now
BroReadyNow ==
  /\ cml /\ state = "BCP"
  /\ CASE runtime.mode = "none"    -> TRUE
       [] runtime.mode = "confirm" -> runtime.confirm
       [] runtime.mode = "delay"   -> age["PHASE"] >= runtime.delay

\* The end of case SEND_BCP.  The state is not tested again: the transport
\* session before it may have left SEND_BCP.
Bro ==
  /\ pc = "Bro"
  /\ Return
  /\ IF cml /\ Due("BRO")
     THEN /\ tx' = IF BroReadyNow THEN {"BRO_AA"} ELSE {"BRO_00"}
          /\ runtime' = [runtime EXCEPT !.ready = ~BroReadyNow]
          /\ age' = AtNow({"BRO"})
          /\ hist' = [hist EXCEPT !.aa = @ \/ BroReadyNow]
     ELSE tx' = {} /\ UNCHANGED <<runtime, age, hist>>
  /\ UNCHANGED <<state, locked, cml, stopSeq, bstSent, tailApplied, commands>>

-----------------------------------------------------------------------------
(* UI_Loop: at most one key, then back to LoopCharge *)

Command == commands > 0 /\ commands' = commands - 1

UiQuiet ==
  /\ pc = "Ui"
  /\ pc' = "Loop" /\ tx' = {}
  /\ UNCHANGED <<engine, age, lag, hist, commands>>

StopChargeManual ==
  /\ pc = "Ui" /\ "stop" \in UiOps
  /\ Command
  /\ pc' = "Loop" /\ tx' = {}
  /\ state' = "END" /\ stopSeq' = TRUE /\ bstSent' = FALSE
  /\ age' = LongAgo({"BST"})
  /\ hist' = [hist EXCEPT !.open = TRUE]
  /\ UNCHANGED <<locked, runtime, cml, tailApplied, lag>>

\* Variant with a fault: the step follows the enumeration, SEND_BRO included.
NextState_Enum == [s \in States |->
  CASE s = "WAIT" -> "BHM" [] s = "BHM" -> "BRM" [] s = "BRM" -> "BCP"
    [] s = "BCP"  -> "BRO" [] s = "CHG" -> "END" [] s = "END" -> "WAIT"]

\* The state a manual step goes to.
NextState == [s \in States |->
  CASE s = "WAIT" -> "BHM" [] s = "BHM" -> "BRM" [] s = "BRM" -> "BCP"
    [] s = "BCP"  -> "CHG" [] s = "CHG" -> "END" [] s = "END" -> "WAIT"]

\* A step into SEND_BCP stands for a CML; a step back to WAIT_CHM keeps
\* everything the last session left.
GbtManualStateNext ==
  /\ pc = "Ui" /\ "step" \in UiOps
  /\ Command
  /\ pc' = "Loop" /\ tx' = {}
  /\ state' = NextState[state]
  /\ age' = CASE state = "WAIT" -> JustNow({"BHM"})
              [] state = "BHM"  -> JustNow({"BRM"})
              [] state = "BRM"  -> JustNow({"BCP", "BRO", "PHASE"})
              [] state = "BCP"  -> LongAgo({"BCL", "BCS", "BSM"})
              [] state = "END"  -> LongAgo({"BHM"})
              [] OTHER          -> age
  /\ cml' = (cml \/ state = "BRM")
  /\ stopSeq' = (stopSeq /\ state # "CHG")
  /\ bstSent' = (bstSent /\ state # "CHG")
  /\ hist' = [hist EXCEPT !.open = TRUE,
                          !.cml = @ \/ state = "BRM",
                          !.since = IF state = "BRM" THEN 0 ELSE @,
                          !.aa = @ /\ state # "BRM",
                          !.fresh = (@ \/ state = "BRM") /\ state # "END"]
  /\ UNCHANGED <<locked, runtime, tailApplied, lag>>

\* Flash menu, "clear settings": g_runtime = g_runtime_defaults.
GbtRestoreDefaults ==
  /\ pc = "Ui" /\ "restore" \in UiOps
  /\ Command
  /\ pc' = "Loop" /\ tx' = {}
  /\ runtime' = [lock |-> TRUE, wait |-> TRUE, mode |-> "delay",
                 confirm |-> FALSE, ready |-> FALSE, permit |-> TRUE,
                 delay |-> DefaultDelay, atTail |-> FALSE, demand |-> "set"]
  /\ hist' = [hist EXCEPT !.aa = FALSE]
  /\ UNCHANGED <<state, locked, cml, stopSeq, bstSent, tailApplied, age, lag>>

UiLoop == UiQuiet \/ StopChargeManual \/ GbtManualStateNext \/ GbtRestoreDefaults

-----------------------------------------------------------------------------
(* The UART interrupt and the clock *)

\* RSET <field> <value>, run to completion inside the interrupt.
GbtSetRuntimeField(f, v) ==
  /\ Command
  /\ runtime' = [runtime EXCEPT ![f] = v]
  /\ tx' = {}
  /\ hist' = [hist EXCEPT !.confirmed = @ \/ (f = "confirm" /\ v = TRUE),
                          !.open = @ \/ (f = "wait" /\ v = FALSE),
                          !.aa = @ /\ f \notin {"mode", "confirm", "delay"},
                          !.released = @ \/ (f = "lock" /\ v = FALSE)]
  /\ UNCHANGED <<pc, state, locked, cml, stopSeq, bstSent, tailApplied,
                 age, lag>>

Rset == \E f \in RsetFields : \E v \in FieldValues[f] : GbtSetRuntimeField(f, v)

\* Inside a pass the clock runs on, by at most MaxLag ticks.
Tick ==
  /\ pc \in {"Loop", "Ui", "Unlock"} \/ lag < MaxLag
  /\ lag' = IF pc \in {"Loop", "Ui", "Unlock"} THEN lag ELSE lag + 1
  /\ age' = [t \in Timers |-> Older(age[t])]
  /\ tx' = {}
  /\ hist' = [hist EXCEPT !.since = IF hist.cml THEN Older(@) ELSE @]
  /\ UNCHANGED <<pc, engine, commands>>

\* The main loop but for the receipt of frames.
MainLoop == EnterLocked \/ Unlock \/ EnterUnlocked \/ DrainDone \/ Switch
              \/ TpEnd \/ Bro \/ UiLoop

Receive == \E f \in Frames : DrainRx(f) \/ TpRx(f)

Next == MainLoop \/ Receive \/ Rset \/ Tick

Spec == Init /\ [][Next]_vars

(***************************************************************************)
(* The main loop never blocks: every loop in it is bounded by a timeout or *)
(* by the receive ring running empty, and the clock is a free-running      *)
(* timer.  Nothing is assumed of the charger, the host or the operator.    *)
(***************************************************************************)
FairSpec == Spec /\ WF_vars(MainLoop) /\ WF_vars(Tick)

-----------------------------------------------------------------------------
(* Safety *)

\* Boot lock: from boot on nothing is transmitted before LOCK_BEFORE_START
\* has been cleared, whatever frames, keys and commands come meanwhile.
BootLockSilent == tx # {} => hist.released

\* WAIT_FOR_CHM: a session transmits nothing before a CHM has come, unless
\* the host turned the field off or the operator pressed a key.
StrictSilence == tx # {} => hist.open

\* BRO=0xAA is earned within the session: a CML came (or the operator skipped
\* it) and, by the release mode in force, the whole pre-delay has passed
\* since that CML or the host has confirmed in this session.
BroReleaseEarned ==
  "BRO_AA" \in tx =>
    /\ hist.cml
    /\ runtime.mode = "delay"   => hist.since >= runtime.delay
    /\ runtime.mode = "confirm" => hist.confirmed

\* While the handshake stays in SEND_BCP and the host leaves the fields of
\* BRO alone, a BRO once released to 0xAA never falls back to 0x00, however
\* often the charger repeats CML.
BroSteady ==
  [][ (hist.aa /\ state = "BCP") => "BRO_00" \notin tx' ]_vars

\* PERMIT_CHARGE is the host's request: no frame of the charger and no
\* transmission changes it.
PermitHostOwned ==
  [][ (Receive \/ Switch \/ TpEnd \/ Bro)
        => runtime'.permit = runtime.permit ]_vars

\* The tail request overrides the demand once in a session: what the
\* operator sets afterwards stays.
TailOnce ==
  [][ (tailApplied /\ runtime.demand = "set") => runtime'.demand = "set" ]_vars

-----------------------------------------------------------------------------
(* Liveness *)

\* A stop pressed while the session runs gets its BST out, unless the charger
\* stops first (CST).
StopSendsBst ==
  (stopSeq /\ ~bstSent /\ ~locked /\ pc = "Loop") ~> ("BST" \in tx \/ ~stopSeq)

\* BST is repeated for as long as the charger does not answer with CST.
BstRepeats == <>[](state = "END" /\ stopSeq /\ ~locked) => []<>("BST" \in tx)

\* While charging, none of the three cyclic frames starves the others.
ChargingStreams ==
  <>[](state = "CHG" /\ ~locked)
    => []<>("BCL" \in tx) /\ []<>("BSM" \in tx) /\ []<>("BCS" \in tx)

\* With the delay release a BMS that stays in SEND_BCP after CML does release
\* BRO, however often the charger repeats CML.
DelayReleases ==
  <>[](state = "BCP" /\ cml /\ ~locked /\ runtime.mode = "delay")
    => <>("BRO_AA" \in tx)

\* Clearing LOCK_BEFORE_START releases the lock.
LockReleases == <>[](~runtime.lock) => <>[](~locked)

-----------------------------------------------------------------------------
(* Statements of the documentation that the code does not keep *)

\* README, BRO pre-delay: 0x00 is reported before 0xAA, not after it.
BroNeverWithdrawn == [][ hist.aa => "BRO_00" \notin tx' ]_vars

\* g_cml_seen: BRO may only start after CML is received (or skipped by the
\* operator) in the handshake that begins at WAIT_CHM.
BroNeedsCml == (tx \cap {"BRO_00", "BRO_AA"} # {}) => hist.fresh

=============================================================================
