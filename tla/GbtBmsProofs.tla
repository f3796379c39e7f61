--------------------------- MODULE GbtBmsProofs ---------------------------
(***************************************************************************)
(* Proofs about the charge engine, for every value of the constants that   *)
(* satisfies ConstantsAssumption.                                          *)
(***************************************************************************)
EXTENDS GbtBms, TLAPS

(* The constants *)

LEMMA LagFits == MaxLag \in 0 .. AgeCap /\ AgeCap \in Nat /\ MaxLag \in Nat
  BY ConstantsAssumption DEF PeriodAssumption, BoundAssumption, Cyclic

LEMMA DelaysFit == DefaultDelay \in Delays /\ Delays \subseteq 0 .. AgeCap
  BY ConstantsAssumption DEF DelayAssumption

LEMMA CommandsFit == MaxCommands \in Nat
  BY ConstantsAssumption DEF HostAssumption

AgeType == [Timers -> 0 .. AgeCap]

LEMMA AgeTypes ==
  ASSUME age \in AgeType, lag \in 0 .. MaxLag, NEW S
  PROVE  /\ LongAgo(S) \in AgeType
         /\ JustNow(S) \in AgeType
         /\ AtNow(S) \in AgeType
  BY LagFits DEF AgeType, LongAgo, JustNow, AtNow

LEMMA FreshTypes ==
  ASSUME NEW r \in Runtimes, NEW b \in BOOLEAN
  PROVE  /\ FreshRuntime(r) \in Runtimes
         /\ FreshAges(r) \in AgeType
         /\ FreshHistory(r, b) \in Histories
         /\ FirstTx(r) \subseteq TxFrames
         /\ r.lock \in BOOLEAN
<1>1. FreshRuntime(r) \in Runtimes
  BY DEF FreshRuntime, Runtimes
<1>2. FreshAges(r) \in AgeType
  BY LagFits DEF FreshAges, AgeType
<1>3. FreshHistory(r, b) \in Histories
  BY LagFits DEF FreshHistory, Histories, Runtimes
<1>4. FirstTx(r) \subseteq TxFrames
  BY DEF FirstTx, TxFrames
<1>5. r.lock \in BOOLEAN
  BY DEF Runtimes
<1>. QED
  BY <1>1, <1>2, <1>3, <1>4, <1>5

\* What a handled frame leaves is again well typed.
LEMMA HandleRxTypes ==
  ASSUME TypeOK, NEW f \in Frames, HandleRx(f)
  PROVE  /\ state' \in States /\ runtime' \in Runtimes
         /\ cml' \in BOOLEAN /\ stopSeq' \in BOOLEAN /\ bstSent' \in BOOLEAN
         /\ age' \in AgeType /\ hist' \in Histories /\ tx' \subseteq TxFrames
         /\ locked' = locked /\ tailApplied' = tailApplied
<1> USE DEF TypeOK
<1>0. tx' \subseteq TxFrames /\ locked' = locked /\ tailApplied' = tailApplied
  BY DEF HandleRx
<1>1. CASE RxCHM(f)
  BY <1>0, <1>1, AgeTypes DEF RxCHM, AgeType, States, Histories
<1>2. CASE RxCRM(f)
  BY <1>0, <1>2, AgeTypes DEF RxCRM, AgeType, States
<1>3. CASE RxCML(f)
  <2>1. age' \in AgeType
    BY <1>3, AgeTypes, LagFits DEF RxCML, AgeType
  <2>2. hist' \in Histories
    <3>1. (IF hist.cml THEN hist.since ELSE 0) \in 0 .. AgeCap
      BY LagFits DEF Histories
    <3>2. hist' = [[[hist EXCEPT !.cml = TRUE] EXCEPT !.fresh = TRUE]
                      EXCEPT !.since = IF hist.cml THEN hist.since ELSE 0]
      BY <1>3 DEF RxCML, Histories
    <3>. QED
      BY <3>1, <3>2 DEF Histories
  <2>. QED
    BY <1>0, <1>3, <2>1, <2>2 DEF RxCML
<1>4. CASE RxCRO(f)
  BY <1>0, <1>4, AgeTypes DEF RxCRO, AgeType, States
<1>5. CASE RxCCS(f)
  <2>1. f.pgn = "CCS" => f.arg \in BOOLEAN
    BY DEF Frames
  <2>. QED
    BY <1>0, <1>5, <2>1 DEF RxCCS, AgeType, Runtimes
<1>6. CASE RxCST(f)
  BY <1>0, <1>6 DEF RxCST, AgeType, States
<1>. QED
  BY <1>1, <1>2, <1>3, <1>4, <1>5, <1>6 DEF HandleRx

-----------------------------------------------------------------------------
(* Types *)

LEMMA TypesInit == Init => TypeOK
<1> SUFFICES ASSUME Init PROVE TypeOK
  OBVIOUS
<1>1. PICK r \in BootRuntimes :
         /\ runtime = FreshRuntime(r) /\ locked = r.lock
         /\ tx = FirstTx(r) /\ age = FreshAges(r)
         /\ hist = FreshHistory(r, ~r.lock)
  BY DEF Init
<1>2. r \in Runtimes
  BY ConstantsAssumption DEF BootAssumption
<1>3. /\ runtime \in Runtimes /\ locked \in BOOLEAN /\ tx \subseteq TxFrames
      /\ age \in AgeType /\ hist \in Histories
  BY <1>1, <1>2, FreshTypes
<1>4. /\ pc \in PcValues /\ state \in States /\ lag \in 0 .. MaxLag
      /\ cml \in BOOLEAN /\ stopSeq \in BOOLEAN /\ bstSent \in BOOLEAN
      /\ tailApplied \in BOOLEAN /\ commands \in 0 .. MaxCommands
  <2>1. 0 \in 0 .. MaxLag /\ MaxCommands \in 0 .. MaxCommands
    BY LagFits, CommandsFit
  <2>. QED
    BY <2>1 DEF Init, PcValues, States
<1>. QED
  BY <1>3, <1>4 DEF TypeOK, AgeType

\* Steps at the head of LoopCharge.
LEMMA HeadTypes ==
  ASSUME TypeOK, EnterLocked \/ Unlock \/ EnterUnlocked \/ DrainDone
  PROVE  TypeOK'
<1>1. CASE EnterLocked
  <2>1. pc' \in PcValues /\ lag' \in 0 .. MaxLag /\ locked' \in BOOLEAN
    <3>1. CASE runtime.lock
      BY <1>1, <3>1, LagFits DEF EnterLocked, Return, TypeOK, PcValues
    <3>2. CASE ~runtime.lock
      BY <1>1, <3>2, LagFits DEF EnterLocked, TypeOK, PcValues
    <3>. QED
      BY <3>1, <3>2
  <2>. QED
    BY <1>1, <2>1 DEF EnterLocked, TypeOK
<1>2. CASE Unlock
  <2>1. /\ FreshRuntime(runtime) \in Runtimes /\ FreshAges(runtime) \in AgeType
        /\ FreshHistory(runtime, hist.released) \in Histories
        /\ FirstTx(runtime) \subseteq TxFrames /\ runtime.lock \in BOOLEAN
    <3>1. hist.released \in BOOLEAN /\ runtime \in Runtimes
      BY DEF TypeOK, Histories
    <3>. QED
      BY <3>1, FreshTypes
  <2>2. /\ runtime' \in Runtimes /\ age' \in AgeType /\ hist' \in Histories
        /\ tx' \subseteq TxFrames /\ locked' \in BOOLEAN
    BY <1>2, <2>1 DEF Unlock, SetupCharge
  <2>3. pc' \in PcValues /\ state' \in States /\ lag' \in 0 .. MaxLag
    BY <1>2, LagFits DEF Unlock, SetupCharge, PcValues, States
  <2>. QED
    BY <1>2, <2>2, <2>3 DEF Unlock, SetupCharge, TypeOK, AgeType
<1>3. CASE EnterUnlocked
  BY <1>3 DEF EnterUnlocked, engine, TypeOK, PcValues
<1>4. CASE DrainDone
  BY <1>4 DEF DrainDone, engine, TypeOK, PcValues
<1>. QED
  BY <1>1, <1>2, <1>3, <1>4

\* The switch over the state.
LEMMA SwitchTypes ==
  ASSUME TypeOK, Switch
  PROVE  TypeOK'
<1>1. ASSUME NEW f \in Cyclic \cap TxFrames, NEW b, SendCyclic(f, b)
      PROVE  TypeOK'
  <2>1. AtNow({f}) \in AgeType
    BY AgeTypes DEF TypeOK, AgeType
  <2>. QED
    BY <1>1, <2>1, LagFits
       DEF SendCyclic, Return, engine, TypeOK, AgeType, PcValues
<1>2. ASSUME NEW f \in Cyclic \cap TxFrames, NEW p \in PcValues, NEW n,
             StartTp(f, p, n), n => pc' \in PcValues /\ lag' \in 0 .. MaxLag
      PROVE  TypeOK'
  BY <1>2 DEF StartTp, engine, TypeOK
<1>3. CASE SwitchWait
  BY <1>1, <1>3 DEF SwitchWait, Cyclic, TxFrames
<1>4. CASE SwitchBhm
  BY <1>1, <1>4 DEF SwitchBhm, Cyclic, TxFrames
<1>5. Return => pc' \in PcValues /\ lag' \in 0 .. MaxLag
  BY LagFits DEF Return, PcValues
<1>6. CASE SwitchBrm
  BY <1>2, <1>5, <1>6 DEF SwitchBrm, Cyclic, TxFrames, PcValues
<1>7. CASE SwitchBcp
  <2>1. (pc' = "Bro" /\ UNCHANGED lag) => pc' \in PcValues /\ lag' \in 0 .. MaxLag
    BY DEF TypeOK, PcValues
  <2>. QED
    BY <1>2, <1>7, <2>1 DEF SwitchBcp, Cyclic, TxFrames, PcValues
<1>8. CASE SwitchCharging
  <2>1. \A S : AtNow(S) \in AgeType
    BY AgeTypes DEF TypeOK, AgeType
  <2>2. runtime' \in Runtimes
    BY <1>8 DEF SwitchCharging, TypeOK, Runtimes
  <2>3. pc' \in PcValues /\ lag' \in 0 .. MaxLag /\ tx' \subseteq TxFrames
    BY <1>5, <1>8 DEF SwitchCharging, TypeOK, PcValues, TxFrames
  <2>4. age' \in AgeType /\ tailApplied' \in BOOLEAN
    BY <1>8, <2>1 DEF SwitchCharging, TypeOK
  <2>. QED
    BY <1>8, <2>2, <2>3, <2>4 DEF SwitchCharging, TypeOK, AgeType
<1>9. CASE SwitchEnd
  <2>1. AtNow({"BST"}) \in AgeType
    BY AgeTypes DEF TypeOK, AgeType
  <2>2. age' \in AgeType /\ tx' \subseteq TxFrames /\ bstSent' \in BOOLEAN
    BY <1>9, <2>1 DEF SwitchEnd, TypeOK, AgeType, TxFrames
  <2>. QED
    BY <1>5, <1>9, <2>2 DEF SwitchEnd, TypeOK, AgeType
<1>. QED
  BY <1>3, <1>4, <1>6, <1>7, <1>8, <1>9 DEF Switch

\* The end of a transport session and the BRO.
LEMMA TailEndTypes ==
  ASSUME TypeOK, TpEnd \/ Bro
  PROVE  TypeOK'
<1>1. \A S : AtNow(S) \in AgeType
  BY AgeTypes DEF TypeOK, AgeType
<1>2. CASE TpEnd
  BY <1>1, <1>2, LagFits DEF TpEnd, Return, engine, TypeOK, AgeType, PcValues
<1>3. CASE Bro
  <2>1. BroReadyNow \in BOOLEAN
    BY DEF BroReadyNow, TypeOK, Runtimes, Modes
  <2>2. runtime' \in Runtimes
    BY <1>3, <2>1 DEF Bro, TypeOK, Runtimes
  <2>3. hist' \in Histories
    BY <1>3, <2>1 DEF Bro, TypeOK, Histories
  <2>4. age' \in AgeType /\ tx' \subseteq TxFrames
    BY <1>1, <1>3 DEF Bro, TypeOK, AgeType, TxFrames
  <2>. QED
    BY <1>3, <2>2, <2>3, <2>4, LagFits
       DEF Bro, Return, TypeOK, AgeType, PcValues
<1>. QED
  BY <1>2, <1>3

\* UI_Loop.
LEMMA UiTypes ==
  ASSUME TypeOK, UiLoop
  PROVE  TypeOK'
<1>1. \A S : LongAgo(S) \in AgeType /\ JustNow(S) \in AgeType
  BY AgeTypes DEF TypeOK, AgeType
<1>2. commands \in 0 .. MaxCommands /\ (Command => commands' \in 0 .. MaxCommands)
  BY CommandsFit DEF TypeOK, Command
<1>3. CASE UiQuiet
  BY <1>3 DEF UiQuiet, engine, TypeOK, PcValues
<1>4. CASE StopChargeManual
  <2>1. age' \in AgeType /\ hist' \in Histories
    BY <1>1, <1>4 DEF StopChargeManual, TypeOK, Histories
  <2>. QED
    BY <1>2, <1>4, <2>1
       DEF StopChargeManual, TypeOK, AgeType, PcValues, States
<1>5. CASE GbtManualStateNext
  <2>1. state' \in States
    BY <1>5 DEF GbtManualStateNext, TypeOK, States, NextState
  <2>2. age' \in AgeType
    BY <1>1, <1>5 DEF GbtManualStateNext, TypeOK, AgeType
  <2>3. (IF state = "BRM" THEN 0 ELSE hist.since) \in 0 .. AgeCap
    BY LagFits DEF TypeOK, Histories
  <2>4. hist' \in Histories
    BY <1>5, <2>3 DEF GbtManualStateNext, TypeOK, Histories
  <2>5. cml' \in BOOLEAN /\ stopSeq' \in BOOLEAN /\ bstSent' \in BOOLEAN
    BY <1>5 DEF GbtManualStateNext, TypeOK
  <2>. QED
    BY <1>2, <1>5, <2>1, <2>2, <2>4, <2>5
       DEF GbtManualStateNext, TypeOK, AgeType, PcValues
<1>6. CASE GbtRestoreDefaults
  <2>1. runtime' \in Runtimes
    BY <1>6, DelaysFit DEF GbtRestoreDefaults, Runtimes, Modes
  <2>2. hist' \in Histories
    BY <1>6 DEF GbtRestoreDefaults, TypeOK, Histories
  <2>. QED
    BY <1>2, <1>6, <2>1, <2>2 DEF GbtRestoreDefaults, TypeOK, PcValues
<1>. QED
  BY <1>3, <1>4, <1>5, <1>6 DEF UiLoop

\* The frames, the host and the clock.
LEMMA RxTypes ==
  ASSUME TypeOK, Receive
  PROVE  TypeOK'
<1>1. PICK f \in Frames : DrainRx(f) \/ TpRx(f)
  BY DEF Receive
<1>2. HandleRx(f) /\ UNCHANGED <<pc, lag, commands>>
  BY <1>1 DEF DrainRx, TpRx
<1>. QED
  BY <1>2, HandleRxTypes DEF TypeOK, AgeType

LEMMA RsetTypes ==
  ASSUME TypeOK, Rset
  PROVE  TypeOK'
<1>1. PICK f \in RsetFields : \E v \in FieldValues[f] : GbtSetRuntimeField(f, v)
  BY DEF Rset
<1>2. PICK v \in FieldValues[f] : GbtSetRuntimeField(f, v)
  BY <1>1
<1>3. f \in DOMAIN FieldValues
  BY ConstantsAssumption DEF HostAssumption
<1>4. runtime' \in Runtimes
  BY <1>2, <1>3 DEF GbtSetRuntimeField, FieldValues, TypeOK, Runtimes
<1>5. hist' \in Histories
  BY <1>2 DEF GbtSetRuntimeField, TypeOK, Histories
<1>6. commands' \in 0 .. MaxCommands /\ tx' \subseteq TxFrames
  BY <1>2, CommandsFit DEF GbtSetRuntimeField, Command, TypeOK
<1>. QED
  BY <1>2, <1>4, <1>5, <1>6 DEF GbtSetRuntimeField, TypeOK

LEMMA TickTypes ==
  ASSUME TypeOK, Tick
  PROVE  TypeOK'
<1>1. \A a \in 0 .. AgeCap : Older(a) \in 0 .. AgeCap
  BY LagFits DEF Older
<1>2. age' \in AgeType
  BY <1>1 DEF Tick, TypeOK, AgeType
<1>3. (IF hist.cml THEN Older(hist.since) ELSE hist.since) \in 0 .. AgeCap
  BY <1>1 DEF TypeOK, Histories
<1>4. hist' \in Histories
  BY <1>3 DEF Tick, TypeOK, Histories
<1>5. lag' \in 0 .. MaxLag
  <2>1. pc \in {"Loop", "Ui", "Unlock"} => lag' = lag
    BY DEF Tick
  <2>2. pc \notin {"Loop", "Ui", "Unlock"} => lag < MaxLag /\ lag' = lag + 1
    BY DEF Tick
  <2>. QED
    BY <2>1, <2>2, LagFits DEF TypeOK
<1>. QED
  BY <1>2, <1>4, <1>5 DEF Tick, engine, TypeOK, AgeType

LEMMA TypesNext == TypeOK /\ [Next]_vars => TypeOK'
<1> SUFFICES ASSUME TypeOK, [Next]_vars PROVE TypeOK'
  OBVIOUS
<1>1. CASE EnterLocked \/ Unlock \/ EnterUnlocked \/ DrainDone
  BY <1>1, HeadTypes
<1>2. CASE Switch
  BY <1>2, SwitchTypes
<1>3. CASE TpEnd \/ Bro
  BY <1>3, TailEndTypes
<1>4. CASE UiLoop
  BY <1>4, UiTypes
<1>5. CASE Receive
  BY <1>5, RxTypes
<1>6. CASE Rset
  BY <1>6, RsetTypes
<1>7. CASE Tick
  BY <1>7, TickTypes
<1>8. CASE UNCHANGED vars
  BY <1>8 DEF vars, engine, TypeOK
<1>. QED
  BY <1>1, <1>2, <1>3, <1>4, <1>5, <1>6, <1>7, <1>8 DEF Next, MainLoop

\* Every variable keeps its type: nothing the charger sends and no command or
\* key drives the charge engine outside its states, its field ranges and the
\* ages its timestamps may have.
THEOREM TypesHold == Spec => []TypeOK
  BY TypesInit, TypesNext, PTL DEF Spec

-----------------------------------------------------------------------------
(* The boot lock *)

\* Until LOCK_BEFORE_START has read 0, the lock and the flag stay armed and
\* the main loop stays outside the part of LoopCharge that transmits.
LockInv ==
  hist.released \/ (locked /\ runtime.lock /\ pc \in {"Loop", "Ui"} /\ tx = {})

\* From boot on nothing is transmitted before LOCK_BEFORE_START has been
\* cleared, in whatever order frames, keys and commands come (LoopCharge,
\* SetupCharge).
THEOREM BootLockHolds == Spec => []BootLockSilent
<1>1. Init => LockInv
  <2> SUFFICES ASSUME Init PROVE LockInv
    OBVIOUS
  <2>1. PICK r \in BootRuntimes :
           /\ runtime = FreshRuntime(r) /\ locked = r.lock
           /\ tx = FirstTx(r) /\ hist = FreshHistory(r, ~r.lock)
    BY DEF Init
  <2>2. r \in Runtimes
    BY ConstantsAssumption DEF BootAssumption
  <2>3. runtime.lock = r.lock /\ r.lock \in BOOLEAN
    BY <2>1, <2>2 DEF FreshRuntime, Runtimes
  <2>4. hist.released = ~r.lock
    BY <2>1 DEF FreshHistory
  <2>5. pc = "Loop"
    BY DEF Init
  <2>. QED
    BY <2>1, <2>3, <2>4, <2>5 DEF LockInv, FirstTx
<1>2. TypeOK /\ LockInv /\ [Next]_vars => LockInv'
  <2> SUFFICES ASSUME TypeOK, LockInv, [Next]_vars PROVE LockInv'
    OBVIOUS
  <2>1. CASE hist.released
    <3>1. hist'.released
      <4>0. hist \in Histories
        BY DEF TypeOK
      <4>1. CASE Receive
        BY <2>1, <4>0, <4>1 DEF Receive, DrainRx, TpRx, HandleRx, RxCHM, RxCRM,
             RxCML, RxCRO, RxCCS, RxCST, Histories
      <4>2. CASE Unlock
        BY <2>1, <4>2 DEF Unlock, SetupCharge, FreshHistory
      <4>3. CASE EnterLocked \/ EnterUnlocked \/ DrainDone \/ Switch \/ TpEnd
                   \/ UNCHANGED vars
        BY <2>1, <4>3 DEF EnterLocked, EnterUnlocked, DrainDone, Switch, SwitchWait,
             SwitchBhm, SwitchBrm, SwitchBcp, SwitchCharging, SwitchEnd,
             SendCyclic, StartTp, TpEnd, vars
      <4>4. CASE Bro
        BY <2>1, <4>0, <4>4 DEF Bro, Histories
      <4>5. CASE UiLoop
        BY <2>1, <4>0, <4>5 DEF UiLoop, UiQuiet, StopChargeManual,
             GbtManualStateNext, GbtRestoreDefaults, Histories
      <4>6. CASE Rset \/ Tick
        BY <2>1, <4>0, <4>6 DEF Rset, GbtSetRuntimeField, Tick, Histories
      <4>. QED
        BY <4>1, <4>2, <4>3, <4>4, <4>5, <4>6 DEF Next, MainLoop
    <3>. QED
      BY <3>1 DEF LockInv
  <2>2. CASE ~hist.released
    <3>0. /\ locked /\ runtime.lock /\ pc \in {"Loop", "Ui"} /\ tx = {}
          /\ hist \in Histories /\ runtime \in Runtimes
      BY <2>2 DEF LockInv, TypeOK
    <3>1. CASE EnterLocked
      BY <3>0, <3>1 DEF EnterLocked, Return, LockInv
    <3>2. CASE UiLoop
      <4>1. CASE UiQuiet
        BY <3>0, <4>1 DEF UiQuiet, engine, LockInv
      <4>2. CASE StopChargeManual \/ GbtManualStateNext
        BY <3>0, <4>2 DEF StopChargeManual, GbtManualStateNext, LockInv
      <4>3. CASE GbtRestoreDefaults
        BY <3>0, <4>3 DEF GbtRestoreDefaults, LockInv
      <4>. QED
        BY <3>2, <4>1, <4>2, <4>3 DEF UiLoop
    <3>3. CASE Rset
      <4>1. PICK f \in RsetFields :
               \E v \in FieldValues[f] : GbtSetRuntimeField(f, v)
        BY <3>3 DEF Rset
      <4>2. PICK v \in FieldValues[f] : GbtSetRuntimeField(f, v)
        BY <4>1
      <4>3. CASE f = "lock" /\ v = FALSE
        BY <3>0, <4>2, <4>3 DEF GbtSetRuntimeField, LockInv, Histories
      <4>4. CASE ~(f = "lock" /\ v = FALSE)
        <5>1. f = "lock" => v = TRUE
          BY <4>4 DEF FieldValues
        <5>2. runtime'.lock
          BY <3>0, <4>2, <5>1 DEF GbtSetRuntimeField, Runtimes
        <5>. QED
          BY <3>0, <4>2, <5>2 DEF GbtSetRuntimeField, LockInv
      <4>. QED
        BY <4>3, <4>4
    <3>4. CASE Tick \/ UNCHANGED vars
      BY <3>0, <3>4 DEF Tick, engine, vars, LockInv
    <3>5. ~(Unlock \/ EnterUnlocked \/ DrainDone \/ Switch \/ TpEnd \/ Bro \/ Receive)
      BY <3>0 DEF Unlock, EnterUnlocked, DrainDone, Switch, SwitchWait, SwitchBhm,
           SwitchBrm, SwitchBcp, SwitchCharging, SwitchEnd, TpEnd, Bro, Receive,
           DrainRx, TpRx, TpPcs
    <3>. QED
      BY <3>1, <3>2, <3>3, <3>4, <3>5 DEF Next, MainLoop
  <2>. QED
    BY <2>1, <2>2
<1>3. LockInv => BootLockSilent
  BY DEF LockInv, BootLockSilent
<1>. QED
  BY <1>1, <1>2, <1>3, TypesHold, PTL DEF Spec

-----------------------------------------------------------------------------
(* WAIT_FOR_CHM *)

\* While nothing has opened the bus the session waits (or was ended by CST),
\* WAIT_FOR_CHM is set, and the main loop is in no transmission.
SilenceInv ==
  hist.open \/ /\ state \in {"WAIT", "END"} /\ ~stopSeq /\ runtime.wait
               /\ pc \notin TpPcs \cup {"Bro"} /\ tx = {}

LEMMA SilenceInit ==
  ASSUME NEW r \in Runtimes, NEW b,
         runtime = FreshRuntime(r), tx = FirstTx(r), hist = FreshHistory(r, b),
         state = "WAIT", ~stopSeq, pc = "Loop"
  PROVE  SilenceInv
  BY DEF FreshRuntime, FreshHistory, FirstTx, SilenceInv, Runtimes, TpPcs

\* A session transmits nothing before a CHM has come, unless the host turned
\* WAIT_FOR_CHM off or the operator pressed a key (LoopCharge).
THEOREM StrictSilenceHolds == Spec => []StrictSilence
<1>1. Init => SilenceInv
  <2> SUFFICES ASSUME Init PROVE SilenceInv
    OBVIOUS
  <2>1. PICK r \in BootRuntimes :
           /\ runtime = FreshRuntime(r) /\ tx = FirstTx(r)
           /\ hist = FreshHistory(r, ~r.lock)
    BY DEF Init
  <2>2. r \in Runtimes
    BY ConstantsAssumption DEF BootAssumption
  <2>. QED
    BY <2>1, <2>2, SilenceInit DEF Init
<1>2. TypeOK /\ SilenceInv /\ [Next]_vars => SilenceInv'
  <2> SUFFICES ASSUME TypeOK, SilenceInv, [Next]_vars PROVE SilenceInv'
    OBVIOUS
  <2>0. hist \in Histories /\ runtime \in Runtimes
    BY DEF TypeOK
  <2>1. CASE Unlock
    BY <2>0, <2>1 DEF Unlock, SetupCharge, FreshRuntime, FreshHistory, FirstTx,
         SilenceInv, Runtimes, TpPcs
  <2>2. CASE hist.open /\ ~Unlock
    <3>1. hist'.open
      <4>1. CASE Receive
        BY <2>0, <2>2, <4>1 DEF Receive, DrainRx, TpRx, HandleRx, RxCHM, RxCRM,
             RxCML, RxCRO, RxCCS, RxCST, Histories
      <4>2. CASE EnterLocked \/ EnterUnlocked \/ DrainDone \/ Switch \/ TpEnd
                   \/ UNCHANGED vars
        BY <2>2, <4>2 DEF EnterLocked, EnterUnlocked, DrainDone, Switch, SwitchWait,
             SwitchBhm, SwitchBrm, SwitchBcp, SwitchCharging, SwitchEnd,
             SendCyclic, StartTp, TpEnd, vars
      <4>3. CASE Bro
        BY <2>0, <2>2, <4>3 DEF Bro, Histories
      <4>4. CASE UiLoop
        BY <2>0, <2>2, <4>4 DEF UiLoop, UiQuiet, StopChargeManual,
             GbtManualStateNext, GbtRestoreDefaults, Histories
      <4>5. CASE Rset \/ Tick
        BY <2>0, <2>2, <4>5 DEF Rset, GbtSetRuntimeField, Tick, Histories
      <4>. QED
        BY <2>2, <4>1, <4>2, <4>3, <4>4, <4>5 DEF Next, MainLoop
    <3>. QED
      BY <3>1 DEF SilenceInv
  <2>3. CASE ~hist.open
    <3>0. /\ state \in {"WAIT", "END"} /\ ~stopSeq /\ runtime.wait
          /\ pc \notin TpPcs \cup {"Bro"} /\ tx = {}
      BY <2>3 DEF SilenceInv
    <3>1. CASE EnterLocked \/ EnterUnlocked \/ DrainDone \/ UiQuiet
      BY <3>0, <3>1 DEF EnterLocked, EnterUnlocked, DrainDone, UiQuiet, Return,
           engine, SilenceInv, TpPcs
    <3>2. CASE Switch
      BY <3>0, <3>2 DEF Switch, SwitchWait, SwitchBhm, SwitchBrm, SwitchBcp,
           SwitchCharging, SwitchEnd, SendCyclic, Return, engine, SilenceInv,
           TpPcs
    <3>3. ~(TpEnd \/ Bro)
      BY <3>0 DEF TpEnd, Bro
    <3>4. CASE StopChargeManual \/ GbtManualStateNext
      BY <2>0, <3>4 DEF StopChargeManual, GbtManualStateNext, SilenceInv, Histories
    <3>5. CASE GbtRestoreDefaults
      BY <3>0, <3>5 DEF GbtRestoreDefaults, SilenceInv, TpPcs
    <3>6. CASE Receive
      <4>1. PICK f \in Frames : HandleRx(f) /\ pc' = pc
        BY <3>6 DEF Receive, DrainRx, TpRx
      <4>2. CASE RxCHM(f)
        BY <2>0, <4>2 DEF RxCHM, SilenceInv, Histories
      <4>3. CASE RxCRM(f) \/ RxCML(f) \/ RxCRO(f) \/ RxCST(f)
        BY <2>0, <3>0, <4>1, <4>3 DEF HandleRx, RxCRM, RxCML, RxCRO, RxCST,
             SilenceInv, Histories
      <4>4. CASE RxCCS(f)
        BY <2>0, <3>0, <4>1, <4>4 DEF HandleRx, RxCCS, SilenceInv
      <4>. QED
        BY <4>1, <4>2, <4>3, <4>4 DEF HandleRx
    <3>7. CASE Rset
      <4>1. PICK f \in RsetFields :
               \E v \in FieldValues[f] : GbtSetRuntimeField(f, v)
        BY <3>7 DEF Rset
      <4>2. PICK v \in FieldValues[f] : GbtSetRuntimeField(f, v)
        BY <4>1
      <4>3. CASE f = "wait" /\ v = FALSE
        BY <2>0, <4>2, <4>3 DEF GbtSetRuntimeField, SilenceInv, Histories
      <4>4. CASE ~(f = "wait" /\ v = FALSE)
        <5>1. f = "wait" => v = TRUE
          BY <4>4 DEF FieldValues
        <5>2. runtime'.wait
          BY <2>0, <3>0, <4>2, <5>1 DEF GbtSetRuntimeField, Runtimes
        <5>. QED
          BY <3>0, <4>2, <5>2 DEF GbtSetRuntimeField, SilenceInv, TpPcs
      <4>. QED
        BY <4>3, <4>4
    <3>8. CASE Tick \/ UNCHANGED vars
      BY <3>0, <3>8 DEF Tick, engine, vars, SilenceInv, TpPcs
    <3>. QED
      BY <2>1, <3>1, <3>2, <3>3, <3>4, <3>5, <3>6, <3>7, <3>8
         DEF Next, MainLoop, UiLoop
  <2>. QED
    BY <2>1, <2>2, <2>3
<1>3. SilenceInv => StrictSilence
  BY DEF SilenceInv, StrictSilence
<1>. QED
  BY <1>1, <1>2, <1>3, TypesHold, PTL DEF Spec

-----------------------------------------------------------------------------
(* The release of BRO *)

\* What BRO_WAIT_CONFIRM asks for is there.
ReleaseMet ==
  /\ runtime.mode = "confirm" => runtime.confirm
  /\ runtime.mode = "delay"   => age["PHASE"] >= runtime.delay

\* The flag g_cml_seen and the start of the BRO window follow the CMLs of this
\* session, BRO_CONFIRM was set in it, and a released BRO could be released
\* again.
BroInv ==
  /\ cml = hist.cml
  /\ cml => age["PHASE"] = hist.since
  /\ runtime.confirm => hist.confirmed
  /\ hist.aa => cml /\ ReleaseMet
  /\ BroReleaseEarned

\* The state that BroInv looks at.
BroView == <<cml, age["PHASE"], runtime.mode, runtime.confirm, runtime.delay,
             hist.cml, hist.since, hist.confirmed, hist.aa>>

LEMMA BroViewKept ==
  ASSUME BroInv, UNCHANGED BroView, "BRO_AA" \notin tx'
  PROVE  BroInv'
  BY DEF BroInv, BroView, ReleaseMet, BroReleaseEarned

LEMMA BroInvInit == Init => BroInv
<1> SUFFICES ASSUME Init PROVE BroInv
  OBVIOUS
<1>1. PICK r \in BootRuntimes :
         /\ runtime = FreshRuntime(r) /\ tx = FirstTx(r)
         /\ hist = FreshHistory(r, ~r.lock)
  BY DEF Init
<1>2. r \in Runtimes /\ ~cml
  BY ConstantsAssumption DEF Init, BootAssumption
<1>3. ~runtime.confirm /\ "BRO_AA" \notin tx
  BY <1>1, <1>2 DEF FreshRuntime, FirstTx, Runtimes
<1>4. ~hist.cml /\ ~hist.aa /\ hist.cml \in BOOLEAN
  BY <1>1 DEF FreshHistory
<1>5. cml = FALSE
  BY DEF Init
<1>. QED
  BY <1>3, <1>4, <1>5 DEF BroInv, BroReleaseEarned

\* SetupCharge starts a session with none of it.
LEMMA BroInvUnlock ==
  ASSUME TypeOK, Unlock
  PROVE  BroInv'
<1>1. ~runtime'.confirm /\ "BRO_AA" \notin tx'
  BY DEF Unlock, SetupCharge, FreshRuntime, FirstTx, TypeOK, Runtimes
<1>2. hist'.cml = FALSE /\ hist'.aa = FALSE /\ cml' = FALSE
  BY DEF Unlock, SetupCharge, FreshHistory
<1>. QED
  BY <1>1, <1>2 DEF BroInv, BroReleaseEarned

\* A received frame moves the window at the first CML only.
LEMMA BroInvReceive ==
  ASSUME TypeOK, BroInv, Receive
  PROVE  BroInv'
<1>1. PICK f \in Frames : HandleRx(f)
  BY DEF Receive, DrainRx, TpRx
<1>2. /\ "BRO_AA" \notin tx' /\ hist \in Histories /\ runtime \in Runtimes
      /\ "PHASE" \in Timers /\ age \in AgeType
  BY <1>1 DEF HandleRx, TypeOK, Timers, AgeType
<1>3. \A S : "PHASE" \notin S => LongAgo(S)["PHASE"] = age["PHASE"]
  BY <1>2 DEF LongAgo
<1>4. CASE RxCHM(f) \/ RxCRM(f) \/ RxCRO(f) \/ RxCST(f)
  <2>1. UNCHANGED BroView
    BY <1>2, <1>3, <1>4 DEF RxCHM, RxCRM, RxCRO, RxCST, BroView, Histories
  <2>. QED
    BY <1>2, <2>1, BroViewKept
<1>5. CASE RxCCS(f)
  <2>1. UNCHANGED BroView
    BY <1>2, <1>5 DEF RxCCS, BroView, Runtimes
  <2>. QED
    BY <1>2, <2>1, BroViewKept
<1>6. CASE RxCML(f)
  <2>1. /\ cml' = TRUE /\ hist'.cml = TRUE /\ runtime' = runtime
        /\ hist'.confirmed = hist.confirmed /\ hist'.aa = hist.aa
        /\ hist'.since = IF hist.cml THEN hist.since ELSE 0
    BY <1>2, <1>6 DEF RxCML, Histories
  <2>2. cml => age'["PHASE"] = age["PHASE"]
    BY <1>2, <1>3, <1>6 DEF RxCML
  <2>3. ~cml => age'["PHASE"] = 0
    BY <1>2, <1>6 DEF RxCML
  <2>4. cml \in BOOLEAN
    BY DEF TypeOK
  <2>. QED
    BY <1>2, <2>1, <2>2, <2>3, <2>4 DEF BroInv, ReleaseMet, BroReleaseEarned
<1>. QED
  BY <1>1, <1>4, <1>5, <1>6 DEF HandleRx

\* The clock ages the window and the history alike.
LEMMA BroInvTick ==
  ASSUME TypeOK, BroInv, Tick
  PROVE  BroInv'
<1>1. /\ age'["PHASE"] = Older(age["PHASE"]) /\ age["PHASE"] \in 0 .. AgeCap
  BY DEF Tick, TypeOK, Timers
<1>2. /\ hist'.cml = hist.cml /\ hist'.confirmed = hist.confirmed
      /\ hist'.aa = hist.aa /\ cml' = cml /\ runtime' = runtime /\ tx' = {}
      /\ hist'.since = IF hist.cml THEN Older(hist.since) ELSE hist.since
  BY DEF Tick, TypeOK, Histories, engine
<1>3. Older(age["PHASE"]) >= age["PHASE"]
  BY <1>1, LagFits DEF Older
<1>4. runtime.delay \in 0 .. AgeCap
  BY DelaysFit DEF TypeOK, Runtimes
<1>5. Older(age["PHASE"]) \in 0 .. AgeCap
  BY <1>1, LagFits DEF Older
<1>6. ReleaseMet => ReleaseMet'
  BY <1>1, <1>2, <1>3, <1>4, <1>5 DEF ReleaseMet
<1>. QED
  BY <1>1, <1>2, <1>6 DEF BroInv, BroReleaseEarned

\* BRO itself: 0xAA goes out exactly when the release is met.
LEMMA BroInvBro ==
  ASSUME TypeOK, BroInv, Bro
  PROVE  BroInv'
<1>1. /\ runtime \in Runtimes /\ hist \in Histories /\ "PHASE" \in Timers
      /\ \A S : "PHASE" \notin S => AtNow(S)["PHASE"] = age["PHASE"]
  BY DEF TypeOK, Timers, AtNow
<1>2. /\ age'["PHASE"] = age["PHASE"] /\ cml' = cml
      /\ runtime'.mode = runtime.mode /\ runtime'.confirm = runtime.confirm
      /\ runtime'.delay = runtime.delay /\ hist'.cml = hist.cml
      /\ hist'.since = hist.since /\ hist'.confirmed = hist.confirmed
  BY <1>1 DEF Bro, Runtimes, Histories
<1>3. CASE cml /\ Due("BRO") /\ BroReadyNow
  <2>1. ReleaseMet
    <3>1. runtime.mode \in Modes
      BY <1>1 DEF Runtimes
    <3>. QED
      BY <1>3, <3>1 DEF BroReadyNow, ReleaseMet, Modes
  <2>2. ReleaseMet'
    BY <1>2, <2>1 DEF ReleaseMet
  <2>. QED
    BY <1>2, <1>3, <2>1, <2>2 DEF BroInv, ReleaseMet, BroReleaseEarned
<1>4. CASE ~(cml /\ Due("BRO") /\ BroReadyNow)
  <2>1. "BRO_AA" \notin tx' /\ hist'.aa = hist.aa
    BY <1>1, <1>4 DEF Bro, Histories
  <2>. QED
    BY <1>2, <2>1, BroViewKept DEF BroView
<1>. QED
  BY <1>3, <1>4

\* Keys: a step into SEND_BCP opens the window again, and the defaults take
\* the confirmation back.
LEMMA BroInvUi ==
  ASSUME TypeOK, BroInv, UiLoop
  PROVE  BroInv'
<1>1. hist \in Histories /\ "PHASE" \in Timers /\ tx' = {}
  BY DEF TypeOK, Timers, UiLoop, UiQuiet, StopChargeManual, GbtManualStateNext,
         GbtRestoreDefaults
<1>2. \A S : /\ "PHASE" \notin S => LongAgo(S)["PHASE"] = age["PHASE"]
             /\ "PHASE" \notin S => JustNow(S)["PHASE"] = age["PHASE"]
             /\ "PHASE" \in S => JustNow(S)["PHASE"] = 0
  BY <1>1 DEF LongAgo, JustNow
<1>3. CASE UiQuiet
  BY <1>1, <1>3, BroViewKept DEF UiQuiet, engine, BroView
<1>4. CASE StopChargeManual
  <2>1. UNCHANGED BroView
    BY <1>1, <1>2, <1>4 DEF StopChargeManual, BroView, Histories
  <2>. QED
    BY <1>1, <2>1, BroViewKept
<1>5. CASE GbtManualStateNext /\ state # "BRM"
  <2>0. cml \in BOOLEAN /\ state \in States
    BY DEF TypeOK
  <2>1. age'["PHASE"] = age["PHASE"]
    BY <1>2, <1>5, <2>0 DEF GbtManualStateNext, States
  <2>2. cml' = cml /\ runtime' = runtime
    BY <1>5, <2>0 DEF GbtManualStateNext
  <2>3. /\ hist'.cml = hist.cml /\ hist'.since = hist.since /\ hist'.aa = hist.aa
        /\ hist'.confirmed = hist.confirmed
    BY <1>1, <1>5 DEF GbtManualStateNext, Histories
  <2>. QED
    BY <1>1, <2>1, <2>2, <2>3, BroViewKept DEF BroView
<1>6. CASE GbtManualStateNext /\ state = "BRM"
  <2>1. age'["PHASE"] = 0 /\ cml' = TRUE /\ runtime' = runtime
    BY <1>2, <1>6 DEF GbtManualStateNext
  <2>2. /\ hist'.cml = TRUE /\ hist'.since = 0 /\ hist'.aa = FALSE
        /\ hist'.confirmed = hist.confirmed
    BY <1>1, <1>6 DEF GbtManualStateNext, Histories
  <2>. QED
    BY <1>1, <2>1, <2>2 DEF BroInv, BroReleaseEarned
<1>7. CASE GbtRestoreDefaults
  <2>1. /\ ~runtime'.confirm /\ hist'.aa = FALSE /\ hist'.cml = hist.cml
        /\ hist'.since = hist.since /\ cml' = cml /\ age' = age
    BY <1>1, <1>7 DEF GbtRestoreDefaults, Histories
  <2>. QED
    BY <1>1, <2>1 DEF BroInv, BroReleaseEarned
<1>. QED
  BY <1>3, <1>4, <1>5, <1>6, <1>7 DEF UiLoop

\* RSET: a change of the release fields is a release of its own.
LEMMA BroInvRset ==
  ASSUME TypeOK, BroInv, Rset
  PROVE  BroInv'
<1>1. PICK f \in RsetFields : \E v \in FieldValues[f] : GbtSetRuntimeField(f, v)
  BY DEF Rset
<1>2. PICK v \in FieldValues[f] : GbtSetRuntimeField(f, v)
  BY <1>1
<1>3. runtime \in Runtimes /\ hist \in Histories
  BY DEF TypeOK
<1>4. /\ tx' = {} /\ cml' = cml /\ age' = age
      /\ hist'.cml = hist.cml /\ hist'.since = hist.since
  BY <1>2, <1>3 DEF GbtSetRuntimeField, Histories
<1>5. hist'.aa <=> hist.aa /\ f \notin {"mode", "confirm", "delay"}
  BY <1>2, <1>3 DEF GbtSetRuntimeField, Histories
<1>6. hist'.confirmed <=> hist.confirmed \/ (f = "confirm" /\ v = TRUE)
  BY <1>2, <1>3 DEF GbtSetRuntimeField, Histories
<1>7. \A g \in {"mode", "confirm", "delay"} : f # g => runtime'[g] = runtime[g]
  BY <1>2, <1>3 DEF GbtSetRuntimeField, Runtimes
<1>8. runtime'.confirm => hist'.confirmed
  <2>1. CASE f = "confirm"
    <3>1. v \in BOOLEAN /\ runtime'.confirm = v
      BY <1>2, <1>3, <2>1 DEF GbtSetRuntimeField, FieldValues, Runtimes
    <3>. QED
      BY <1>6, <2>1, <3>1
  <2>2. CASE f # "confirm"
    BY <1>6, <1>7, <2>2 DEF BroInv
  <2>. QED
    BY <2>1, <2>2
<1>9. hist'.aa => ReleaseMet'
  BY <1>4, <1>5, <1>7 DEF BroInv, ReleaseMet
<1>. QED
  BY <1>4, <1>5, <1>8, <1>9 DEF BroInv, BroReleaseEarned

LEMMA BroInvNext == TypeOK /\ BroInv /\ [Next]_vars => BroInv'
<1> SUFFICES ASSUME TypeOK, BroInv, [Next]_vars PROVE BroInv'
  OBVIOUS
<1>0. "PHASE" \in Timers /\ runtime \in Runtimes
  BY DEF Timers, TypeOK
<1>1. CASE EnterLocked \/ EnterUnlocked \/ DrainDone
  BY <1>1, BroViewKept DEF EnterLocked, EnterUnlocked, DrainDone, engine, BroView
<1>2. CASE Switch
  <2>1. \A S : "PHASE" \notin S => AtNow(S)["PHASE"] = age["PHASE"]
    BY <1>0 DEF AtNow
  <2>2. CASE SwitchWait \/ SwitchBhm \/ SwitchBrm \/ SwitchBcp
    BY <2>1, <2>2, BroViewKept DEF SwitchWait, SwitchBhm, SwitchBrm, SwitchBcp,
         SendCyclic, StartTp, engine, BroView
  <2>3. CASE SwitchCharging
    <3>1. UNCHANGED BroView
      BY <1>0, <2>1, <2>3 DEF SwitchCharging, BroView, Runtimes
    <3>2. "BRO_AA" \notin tx'
      BY <2>3 DEF SwitchCharging
    <3>. QED
      BY <3>1, <3>2, BroViewKept
  <2>4. CASE SwitchEnd
    BY <2>1, <2>4, BroViewKept DEF SwitchEnd, BroView
  <2>. QED
    BY <1>2, <2>2, <2>3, <2>4 DEF Switch
<1>3. CASE TpEnd
  <2>1. \A S : "PHASE" \notin S => AtNow(S)["PHASE"] = age["PHASE"]
    BY <1>0 DEF AtNow
  <2>2. TpFrame[pc] # "PHASE"
    BY <1>3 DEF TpEnd, TpFrame, TpPcs
  <2>. QED
    BY <1>3, <2>1, <2>2, BroViewKept DEF TpEnd, engine, BroView
<1>4. CASE UNCHANGED vars
  BY <1>4 DEF vars, engine, BroInv, ReleaseMet, BroReleaseEarned
<1>. QED
  BY <1>1, <1>2, <1>3, <1>4, BroInvUnlock, BroInvReceive, BroInvTick, BroInvBro,
     BroInvUi, BroInvRset DEF Next, MainLoop

\* BRO=0xAA is earned in the session it is sent in: CML came, and the whole
\* pre-delay has passed since the first one or the host has confirmed
\* (build_and_send_BRO, bro_ready_now).
THEOREM BroReleaseHolds == Spec => []BroReleaseEarned
<1>1. BroInv => BroReleaseEarned
  BY DEF BroInv
<1>. QED
  BY <1>1, BroInvInit, BroInvNext, TypesHold, PTL DEF Spec

\* A BRO released to 0xAA does not fall back to 0x00 while the handshake stays
\* in SEND_BCP and the host leaves the release fields alone, however often the
\* charger repeats CML (handle_rx_message).
THEOREM BroStaysReleased == Spec => BroSteady
<1>1. TypeOK /\ BroInv /\ [Next]_vars
        => ((hist.aa /\ state = "BCP") => "BRO_00" \notin tx') \/ UNCHANGED vars
  <2> SUFFICES ASSUME TypeOK, BroInv, Next, hist.aa, state = "BCP"
               PROVE  "BRO_00" \notin tx'
    OBVIOUS
  <2>1. CASE Bro
    <3>1. BroReadyNow
      BY DEF BroInv, ReleaseMet, BroReadyNow, TypeOK, Runtimes, Modes
    <3>. QED
      BY <2>1, <3>1 DEF Bro
  <2>2. CASE EnterLocked \/ EnterUnlocked \/ DrainDone \/ TpEnd \/ UiLoop
    BY <2>2 DEF EnterLocked, EnterUnlocked, DrainDone, TpEnd, UiLoop, UiQuiet,
         StopChargeManual, GbtManualStateNext, GbtRestoreDefaults
  <2>3. CASE Unlock
    BY <2>3 DEF Unlock, SetupCharge, FirstTx
  <2>4. CASE Switch
    <3>1. SwitchBcp
      BY <2>4 DEF Switch, SwitchWait, SwitchBhm, SwitchBrm, SwitchCharging, SwitchEnd
    <3>. QED
      BY <3>1 DEF SwitchBcp, StartTp
  <2>5. CASE Receive \/ Rset \/ Tick
    BY <2>5 DEF Receive, DrainRx, TpRx, HandleRx, Rset, GbtSetRuntimeField, Tick
  <2>. QED
    BY <2>1, <2>2, <2>3, <2>4, <2>5 DEF Next, MainLoop
<1>. QED
  BY <1>1, BroInvInit, BroInvNext, TypesHold, PTL DEF Spec, BroSteady

-----------------------------------------------------------------------------
(* The host's and the operator's requests *)

\* No frame of the charger and no transmission changes PERMIT_CHARGE
\* (handle_rx_message, case CCS).
THEOREM PermitStays == Spec => PermitHostOwned
<1>1. TypeOK /\ [Next]_vars
        => ((Receive \/ Switch \/ TpEnd \/ Bro)
              => runtime'.permit = runtime.permit) \/ UNCHANGED vars
  <2> SUFFICES ASSUME TypeOK, Receive \/ Switch \/ TpEnd \/ Bro
               PROVE  runtime'.permit = runtime.permit
    OBVIOUS
  <2>0. runtime \in Runtimes
    BY DEF TypeOK
  <2>1. CASE Receive
    BY <2>0, <2>1 DEF Receive, DrainRx, TpRx, HandleRx, RxCHM, RxCRM, RxCML, RxCRO,
         RxCCS, RxCST, Runtimes
  <2>2. CASE Switch
    BY <2>0, <2>2 DEF Switch, SwitchWait, SwitchBhm, SwitchBrm, SwitchBcp,
         SwitchCharging, SwitchEnd, SendCyclic, StartTp, engine, Runtimes
  <2>3. CASE TpEnd \/ Bro
    BY <2>0, <2>3 DEF TpEnd, Bro, engine, Runtimes
  <2>. QED
    BY <2>1, <2>2, <2>3
<1>. QED
  BY <1>1, TypesHold, PTL DEF Spec, PermitHostOwned

\* The tail request overrides the demand once: maybe_apply_tail_request is the
\* only step that does it, and it tests tailApplied.
THEOREM TailStaysOnce == Spec => TailOnce
<1>1. TypeOK /\ [Next]_vars
        => (tailApplied /\ runtime.demand = "set" => runtime'.demand = "set")
             \/ UNCHANGED vars
  <2> SUFFICES ASSUME TypeOK, Next, tailApplied, runtime.demand = "set"
               PROVE  runtime'.demand = "set"
    OBVIOUS
  <2>0. runtime \in Runtimes
    BY DEF TypeOK
  <2>1. CASE Receive
    BY <2>0, <2>1 DEF Receive, DrainRx, TpRx, HandleRx, RxCHM, RxCRM, RxCML, RxCRO,
         RxCCS, RxCST, Runtimes
  <2>2. CASE Switch
    BY <2>0, <2>2 DEF Switch, SwitchWait, SwitchBhm, SwitchBrm, SwitchBcp,
         SwitchCharging, SwitchEnd, SendCyclic, StartTp, engine
  <2>3. CASE EnterLocked \/ EnterUnlocked \/ DrainDone \/ TpEnd \/ Tick
    BY <2>3 DEF EnterLocked, EnterUnlocked, DrainDone, TpEnd, Tick, engine
  <2>4. CASE Unlock \/ Bro
    BY <2>0, <2>4 DEF Unlock, SetupCharge, FreshRuntime, Bro, Runtimes
  <2>5. CASE UiLoop
    <3>1. runtime' = runtime \/ GbtRestoreDefaults
      BY <2>5 DEF UiLoop, UiQuiet, StopChargeManual, GbtManualStateNext, engine
    <3>2. GbtRestoreDefaults => runtime'.demand = "set"
      BY DEF GbtRestoreDefaults
    <3>. QED
      BY <3>1, <3>2
  <2>6. CASE Rset
    <3>1. PICK f \in RsetFields : \E v \in FieldValues[f] : GbtSetRuntimeField(f, v)
      BY <2>6 DEF Rset
    <3>2. PICK v \in FieldValues[f] : runtime' = [runtime EXCEPT ![f] = v]
      BY <3>1 DEF GbtSetRuntimeField
    <3>3. f = "demand" => v = "set"
      BY <3>2 DEF FieldValues
    <3>. QED
      BY <2>0, <3>2, <3>3 DEF Runtimes
  <2>. QED
    BY <2>1, <2>2, <2>3, <2>4, <2>5, <2>6 DEF Next, MainLoop
<1>. QED
  BY <1>1, TypesHold, PTL DEF Spec, TailOnce

=============================================================================
