------------------------------- MODULE TpSend -------------------------------
(***************************************************************************)
(* The J1939 transport session of the BMS: tp_send_rts_cts in              *)
(* Core/Src/gbt_27930_bms.c, which carries BRM, BCP and BCS.  It runs      *)
(* inside LoopCharge and polls the receive ring itself; the receive        *)
(* interrupt fills the ring meanwhile.                                     *)
(*                                                                         *)
(* A frame is "cts", "eom" or "abort" when it is a TP.CM of the charger    *)
(* for the PGN being sent, and "other" when it is anything else: those go  *)
(* to handle_rx_message, whose effect is in GbtBms.  The ring is emptied   *)
(* by LoopCharge just before a session, so a session starts with an empty  *)
(* one.  The result is what the code returns; its callers ignore it.       *)
(*                                                                         *)
(* The charger is not part of the repository.  It is one of                *)
(*   "any"   : any frame at any moment (and a clock that runs at any pace) *)
(*   "early" : a receiver that grants windows of `window` packets, asks    *)
(*             again for what it misses, acknowledges the whole message,   *)
(*             and answers at once or within MaxAnswer ticks               *)
(*   "late"  : the same, but it never answers within Late ticks            *)
(***************************************************************************)
EXTENDS Naturals, Sequences, FiniteSetsExt

CONSTANTS
  Total,      \* total_packets of the message
  CtsTimeout, \* TP_CTS_TIMEOUT_MS, in ticks
  EomTimeout, \* TP_EOM_TIMEOUT_MS
  Overall,    \* TP_OVERALL_TIMEOUT_MS
  Gap,        \* ticks a DelayMs(1) takes
  Windows,    \* window sizes of the chargers
  Grants,     \* number of packets an "any" CTS may allow
  Firsts,     \* first packet an "any" CTS may name
  Late, MaxAnswer,
  RingCap,    \* bound: frames waiting in the ring
  MaxDrops    \* bound: data frames lost in one behaviour

ASSUME TpAssumption ==
  /\ Total \in 1 .. 254 /\ Gap \in Nat \ {0}
  /\ CtsTimeout \in Nat /\ EomTimeout \in Nat /\ Overall \in Nat
  /\ Windows \subseteq Nat \ {0} /\ Grants \subseteq 0 .. 255
  /\ Firsts \subseteq 0 .. 255
  /\ Late \in Nat /\ MaxAnswer \in Nat
  /\ Gap < Late /\ Late <= MaxAnswer /\ MaxAnswer + Gap < CtsTimeout
  /\ RingCap \in Nat /\ MaxDrops \in Nat

Packets == 1 .. Total

Frames == [ctl : {"cts"}, n : 0 .. 255, first : 0 .. 255]
            \cup [ctl : {"eom", "abort", "other"}]

VARIABLES
  pc,      \* where tp_send_rts_cts is
  sent,    \* packets_sent
  allowed, \* to_send - i
  seq,     \* seq
  waited,  \* GetTS() - t_wait_start (wait_eom_start, poll_start)
  elapsed, \* GetTS() - start_ts
  sleep,   \* ticks left of a DelayMs
  result,  \* what the last session returned
  dts,     \* history: packets sent as TP.DT in this session
  ring,    \* received frames not popped
  kind, window, \* what charger it is
  have,    \* packets the charger has
  granted, \* packets it has allowed and not got
  owed,    \* ticks since it has had an answer to give, if any
  heard,   \* it has sent another frame since the last tick
  drops,   \* data frames that may still be lost
  lost     \* history: data frames lost in this session

sender  == <<pc, sent, allowed, seq, elapsed, result, dts>>
charger == <<have, granted, owed, heard>>
vars    == <<sender, waited, sleep, ring, kind, window, charger, drops, lost>>

NoAnswer == MaxAnswer + 1
Horizon  == Overall + 1
MaxWait  == IF CtsTimeout > EomTimeout THEN CtsTimeout ELSE EomTimeout

TypeOK ==
  /\ pc \in {"Idle", "Cts", "Send", "Gap", "Poll", "Eom"}
  /\ sent \in 0 .. 2 * Total /\ allowed \in 0 .. 255 /\ seq \in 0 .. 255
  /\ waited \in 0 .. MaxWait /\ elapsed \in 0 .. Horizon /\ sleep \in 0 .. Gap
  /\ result \in {"none", "ok", "failed"}
  /\ dts \subseteq 0 .. Total
  /\ ring \in Seq(Frames) /\ Len(ring) <= RingCap
  /\ have \subseteq Packets /\ granted \subseteq Packets
  /\ owed \in 0 .. NoAnswer /\ heard \in BOOLEAN /\ drops \in 0 .. MaxDrops
  /\ lost \in 0 .. MaxDrops - drops

Init ==
  /\ pc = "Idle" /\ sent = 0 /\ allowed = 0 /\ seq = 0
  /\ waited = 0 /\ elapsed = 0 /\ sleep = 0 /\ result = "none" /\ dts = {}
  /\ ring = <<>> /\ kind \in {"any", "early", "late"} /\ window \in Windows
  /\ have = {} /\ granted = {} /\ owed = NoAnswer /\ heard = FALSE
  /\ drops = MaxDrops /\ lost = 0

-----------------------------------------------------------------------------
(* tp_send_rts_cts *)

\* The sender does something: it is not in a DelayMs.
Awake(at) == pc = at /\ sleep = 0

\* What the sender leaves alone.
Rest == UNCHANGED <<kind, window, charger, drops, lost>>

\* RTS: it starts the charger's side anew.
Rts ==
  /\ pc = "Idle" /\ ring = <<>>
  /\ pc' = "Cts" /\ sent' = 0 /\ elapsed' = 0 /\ waited' = 0
  /\ result' = "none" /\ dts' = {}
  /\ have' = {} /\ granted' = {} /\ owed' = 0 /\ lost' = 0
  /\ UNCHANGED <<allowed, seq, sleep, ring, kind, window, heard, drops>>

\* The head of the outer loop.
Outer == pc' = (IF sent < Total THEN "Cts" ELSE "Eom") /\ waited' = 0

Finish(r) == pc' = "Idle" /\ result' = r /\ UNCHANGED waited

\* When the overall timeout is over: TP.Conn_Abort, and the session has failed.
OverallCheck == IF elapsed > Overall THEN Finish("failed")
                                     ELSE Outer /\ UNCHANGED result

\* Variant with a fault: a CTS(0) does not look at the overall timeout.
CtsWait_Forever(f) ==
  /\ f.ctl = "cts" /\ f.n = 0
  /\ Outer
  /\ UNCHANGED <<allowed, seq, result>>

\* CTS(0), "wait".
CtsWait(f) ==
  /\ f.ctl = "cts" /\ f.n = 0
  /\ OverallCheck
  /\ UNCHANGED <<allowed, seq>>

\* Variant with a fault: the window starts at packet 1 whatever CTS says.
CtsFrame_FromOne(f) ==
  /\ f.ctl = "cts" /\ f.n > 0
  /\ pc' = "Send" /\ allowed' = f.n /\ seq' = 1
  /\ UNCHANGED <<waited, result>>

\* CTS: a window to send.
CtsFrame(f) ==
  /\ f.ctl = "cts" /\ f.n > 0
  /\ pc' = "Send" /\ allowed' = f.n /\ seq' = f.first
  /\ UNCHANGED <<waited, result>>

EndFrame(f) ==
  /\ f.ctl \in {"eom", "abort"}
  /\ Finish(IF f.ctl = "eom" THEN "ok" ELSE "failed")
  /\ UNCHANGED <<allowed, seq>>

\* Everything else goes to handle_rx_message.
Swallow == UNCHANGED <<pc, allowed, seq, waited, result>>

PopCts ==
  /\ Awake("Cts") /\ waited < CtsTimeout /\ ring # <<>>
  /\ LET f == Head(ring) IN
       \/ CtsWait(f) \/ CtsFrame(f) \/ EndFrame(f)
       \/ f.ctl = "other" /\ Swallow
  /\ ring' = Tail(ring)
  /\ UNCHANGED <<sent, elapsed, sleep, dts>> /\ Rest

\* In the last wait a CTS is not looked at any more.
PopEom ==
  /\ Awake("Eom") /\ waited < EomTimeout /\ ring # <<>>
  /\ LET f == Head(ring) IN
       \/ EndFrame(f)
       \/ f.ctl \in {"cts", "other"} /\ Swallow
  /\ ring' = Tail(ring)
  /\ UNCHANGED <<sent, elapsed, sleep, dts>> /\ Rest

\* DelayMs(1) while the ring is empty.
WaitSleep ==
  /\ \/ Awake("Cts") /\ waited < CtsTimeout
     \/ Awake("Eom") /\ waited < EomTimeout
  /\ ring = <<>> /\ sleep' = Gap
  /\ UNCHANGED <<sender, waited, ring>> /\ Rest

\* Variant with a fault: a timeout is reported as success.
WaitOver_Ok ==
  /\ \/ Awake("Cts") /\ waited >= CtsTimeout
     \/ Awake("Eom") /\ waited >= EomTimeout
  /\ Finish("ok")
  /\ UNCHANGED <<sent, allowed, seq, elapsed, sleep, dts, ring>> /\ Rest

\* No CTS (the charger is told by an abort) or no EOM_ACK (it is not).
WaitOver ==
  /\ \/ Awake("Cts") /\ waited >= CtsTimeout
     \/ Awake("Eom") /\ waited >= EomTimeout
  /\ Finish("failed")
  /\ UNCHANGED <<sent, allowed, seq, elapsed, sleep, dts, ring>> /\ Rest

-----------------------------------------------------------------------------
(* The charger's side of a data frame *)

\* It keeps what it has allowed; the last packet of its window ends it.
Arrives(p) ==
  /\ have' = have \cup ({p} \cap granted)
  /\ granted' = IF granted # {} /\ p = Max(granted) THEN {} ELSE granted
  /\ owed' = IF granted # {} /\ p = Max(granted) THEN 0 ELSE owed
  /\ UNCHANGED <<heard, drops, lost>>

Lost == /\ drops > 0 /\ drops' = drops - 1 /\ lost' = lost + 1
        /\ UNCHANGED charger

\* Variant with a fault: one packet beyond the message.
SendDt_TooFar ==
  /\ Awake("Send") /\ allowed > 0 /\ seq <= Total + 1
  /\ sent' = sent + 1 /\ dts' = dts \cup {seq}
  /\ pc' = "Gap" /\ sleep' = Gap
  /\ Arrives(seq)
  /\ UNCHANGED <<allowed, seq, waited, elapsed, result, ring, kind, window>>

\* One TP.DT and the gap after it; the frame is lost if no mailbox is free.
SendDt ==
  /\ Awake("Send") /\ allowed > 0 /\ seq <= Total
  /\ sent' = sent + 1 /\ dts' = dts \cup {seq}
  /\ pc' = "Gap" /\ sleep' = Gap
  /\ Arrives(seq) \/ Lost
  /\ UNCHANGED <<allowed, seq, waited, elapsed, result, ring, kind, window>>

\* poll_start = GetTS()
GapOver ==
  /\ Awake("Gap")
  /\ pc' = "Poll" /\ waited' = 0
  /\ UNCHANGED <<sent, allowed, seq, elapsed, result, dts, sleep, ring>> /\ Rest

\* All of what the ring holds goes to handle_rx_message, whatever it is.
PollPop ==
  /\ Awake("Poll") /\ waited < 1 /\ ring # <<>>
  /\ ring' = Tail(ring)
  /\ UNCHANGED <<sender, waited, sleep>> /\ Rest

\* Variant with a fault: a data frame counts twice.
PollDone_Twice ==
  /\ Awake("Poll") /\ (waited >= 1 \/ ring = <<>>)
  /\ pc' = "Send" /\ seq' = seq + 1 /\ allowed' = allowed - 1
  /\ sent' = IF sent < Total THEN sent + 1 ELSE sent
  /\ UNCHANGED <<elapsed, result, dts, waited, sleep, ring>> /\ Rest

PollDone ==
  /\ Awake("Poll") /\ (waited >= 1 \/ ring = <<>>)
  /\ pc' = "Send" /\ seq' = seq + 1 /\ allowed' = allowed - 1
  /\ UNCHANGED <<sent, elapsed, result, dts, waited, sleep, ring>> /\ Rest

\* The window is sent, or goes beyond the message.
WindowDone ==
  /\ Awake("Send") /\ (allowed = 0 \/ seq > Total)
  /\ OverallCheck
  /\ UNCHANGED <<sent, allowed, seq, elapsed, dts, sleep, ring>> /\ Rest

TpSendRtsCts == PopCts \/ PopEom \/ WaitSleep \/ WaitOver \/ SendDt \/ GapOver
                  \/ PollPop \/ PollDone \/ WindowDone

-----------------------------------------------------------------------------
(* The ring, the charger and the clock *)

Receive(f) ==
  /\ Len(ring) < RingCap
  /\ ring' = Append(ring, f)

AnyFrames == [ctl : {"cts"}, n : Grants, first : Firsts]
               \cup [ctl : {"eom", "abort", "other"}]

AnyAnswer ==
  /\ kind = "any" /\ ring = <<>>
  /\ \E f \in AnyFrames : Receive(f)
  /\ UNCHANGED <<sender, waited, sleep>> /\ Rest

MayAnswer == /\ kind # "any" /\ owed # NoAnswer
             /\ kind = "late" => owed >= Late

\* The next window starts at the first packet missing.
Cts ==
  LET missing == Packets \ have
      first   == Min(missing)
      n       == IF first + window - 1 <= Total THEN window ELSE Total - first + 1
  IN
  /\ MayAnswer /\ missing # {}
  /\ Receive([ctl |-> "cts", n |-> n, first |-> first])
  /\ granted' = first .. first + n - 1 /\ owed' = NoAnswer
  /\ UNCHANGED <<sender, waited, sleep, kind, window, have, heard, drops, lost>>

EomAck ==
  /\ MayAnswer /\ have = Packets
  /\ Receive([ctl |-> "eom"])
  /\ owed' = NoAnswer
  /\ UNCHANGED <<sender, waited, sleep, kind, window, have, granted, heard,
                 drops, lost>>

\* Other traffic of the charger, a frame in a tick at most.
OtherFrame ==
  /\ kind # "any" /\ ~heard /\ Len(ring) + 1 < RingCap
  /\ Receive([ctl |-> "other"])
  /\ heard' = TRUE
  /\ UNCHANGED <<sender, waited, sleep, kind, window, have, granted, owed,
                 drops, lost>>

\* LoopCharge empties the ring between two sessions.
Drain ==
  /\ pc = "Idle" /\ ring # <<>> /\ ring' = Tail(ring)
  /\ UNCHANGED <<sender, waited, sleep>> /\ Rest

\* The steps of the sender take no time to speak of next to a tick, and a
\* charger with an answer to give gives it in time; not so with "any".
Tick ==
  /\ kind # "any" => (sleep > 0 \/ pc = "Idle") /\ owed # MaxAnswer
  /\ waited' = IF waited < MaxWait THEN waited + 1 ELSE waited
  /\ elapsed' = IF elapsed < Horizon THEN elapsed + 1 ELSE elapsed
  /\ sleep' = IF sleep > 0 THEN sleep - 1 ELSE 0
  /\ owed' = IF owed = NoAnswer \/ kind = "any" THEN owed ELSE owed + 1
  /\ heard' = FALSE
  /\ UNCHANGED <<pc, sent, allowed, seq, result, dts, ring, kind, window, have,
                 granted, drops, lost>>

Next == Rts \/ TpSendRtsCts \/ AnyAnswer \/ Cts \/ EomAck \/ OtherFrame
          \/ Drain \/ Tick

Spec == Init /\ [][Next]_vars

(***************************************************************************)
(* The processor runs and the clock ticks.  Of the charger, its deadline   *)
(* in Tick is all that is assumed.                                         *)
(***************************************************************************)
FairSpec == Spec /\ WF_vars(TpSendRtsCts) /\ WF_vars(Tick)
              /\ WF_vars(Cts \/ EomAck)

-----------------------------------------------------------------------------

\* packets_sent counts data frames, not packets: a packet asked for again uses
\* up the count of one that has not been sent yet, and the session turns to wait
\* for the acknowledgment with packets unsent.  Only lost frames do that, and a
\* lost frame costs a window at most: nothing else makes the count run ahead.
UnsentPaidByLoss ==
  (kind # "any" /\ pc = "Eom") => Cardinality(Packets \ dts) <= window * lost

\* The session reports success only if the charger has the whole message.
SuccessIsReal == (kind # "any" /\ result = "ok") => have = Packets

\* A session ends, whatever the charger sends or does not send: LoopCharge is
\* never held for good.
TpTerminates == pc # "Idle" ~> pc = "Idle"

\* A charger that follows the protocol, and no data frame of the session lost.
Orderly == kind # "any" /\ lost = 0

\* With a charger that follows the protocol the message gets through, if one
\* window takes all of it or the charger leaves the sender the time to get
\* back from the gap after its last data frame.
Delivers ==
  (pc = "Cts" /\ []Orderly /\ (window >= Total \/ kind = "late"))
    ~> (have = Packets)
=============================================================================
