---------------------------- MODULE TpSendProofs ----------------------------
(***************************************************************************)
(* Proofs about the transport session, for messages of any length up to    *)
(* 254 packets, any timeouts and any windows: its variables keep their     *)
(* types; success means that the charger has the whole message; and what   *)
(* is unsent when the session turns to its last wait has been paid for by  *)
(* lost frames, a window for each of them.                                 *)
(***************************************************************************)
EXTENDS TpSend, FiniteSetTheorems, SequenceTheorems, WellFoundedInduction,
        TLAPS

\* packets_sent may count a packet several times.  It stays below 2 * Total:
\* a window begins with less than Total counted and has at most Total + 1.
StepInv ==
  /\ kind \in {"any", "early", "late"} /\ window \in Windows
  /\ pc = "Cts" => sent < Total
  /\ pc = "Send" => sent + 1 <= Total + seq
  /\ pc \in {"Gap", "Poll"} => allowed > 0 /\ seq <= Total /\ sent <= Total + seq

TpInv == TypeOK /\ StepInv

\* An acknowledgment on its way, or received, is that of the whole message.
AckInv ==
  kind # "any" =>
    /\ result = "ok" => have = Packets
    /\ \A k \in 1 .. Len(ring) : ring[k].ctl = "eom" => have = Packets

IsCts(k) == ring[k].ctl = "cts"
NoCts    == \A k \in 1 .. Len(ring) : ~IsCts(k)
OneCts   == \A j, k \in 1 .. Len(ring) : IsCts(j) /\ IsCts(k) => j = k

\* What the charger waits for when it owes an answer.
Owing == owed # NoAnswer => granted = {} /\ NoCts

Hi  == Cardinality(dts)
Got == Cardinality(have)

\* Packets are first sent in their order, and the charger has none unsent.
Agree == dts = 1 .. Hi /\ Hi <= Total /\ have \subseteq dts

\* What packets_sent runs ahead of Hi, with r more repetitions to come: a window
\* for each data frame that has been lost and has arrived since.
Ahead(r) == sent + r + window * (Hi - Got) <= Hi + window * lost

\* Of the m packets from packet p on, those sent before.
Repeats(p, m) == IF p + m <= Hi + 1 THEN m ELSE Hi + 1 - p

\* A CTS on its way grants a window from the first packet missing.
Fits(first, n) ==
  /\ n > 0 /\ n <= window /\ first > 0 /\ first <= Hi + 1 /\ first \notin have
  /\ first + n <= Total + 1 /\ granted = first .. first + n - 1

CtsFits == \A k \in 1 .. Len(ring) : IsCts(k) => Fits(ring[k].first, ring[k].n)

\* The sender goes on with m packets of a granted window, from packet p on.
\* The first packet of a window is missing: it may have to pay for the others.
Sending(p, m) ==
  /\ p > 0 /\ p <= Hi + 1
  /\ \/ p \notin have /\ m > 0 /\ m <= window /\ Ahead(0)
     \/ Ahead(Repeats(p, m))
  /\ m > 0 => /\ NoCts /\ owed = NoAnswer /\ p + m <= Total + 1
              /\ \E g \in 1 .. p : granted = g .. p + m - 1

InSession ==
  /\ Agree /\ CtsFits
  /\ pc \in {"Cts", "Eom"} => Ahead(0)
  /\ pc = "Eom" => Total <= sent
  /\ pc = "Send" => Sending(seq, allowed)
  /\ pc \in {"Gap", "Poll"} => Sending(seq + 1, allowed - 1)

OrderInv == kind # "any" => Owing /\ OneCts /\ (pc # "Idle" => InSession)

-----------------------------------------------------------------------------
(* Sets of packets and the ring *)

\* A set of packets has a least one (the first that the charger misses).
LEMMA MinOfInterval ==
  ASSUME NEW n \in Nat, NEW S \in SUBSET (1 .. n), S # {}
  PROVE  Min(S) \in S /\ \A y \in S : Min(S) <= y
<1> DEFINE Below(x) == {y \in S : y < x}
           T == {Below(x) : x \in S}
           R == StrictSubsetOrdering(S)
<1>0. \A x : Below(x) \in SUBSET S
  OBVIOUS
<1>1. IsFiniteSet(S)
  <2>1. IsFiniteSet(1 .. n)
    BY FS_Interval
  <2>. QED  BY <2>1, FS_Subset
<1>2. T \subseteq FiniteSubsetsOf(S) /\ T # {}
  <2>1. FiniteSubsetsOf(S) = SUBSET S
    BY <1>1, FS_FiniteSubsetsOfFinite
  <2>2. \A z \in S : Below(z) \in FiniteSubsetsOf(S) /\ Below(z) \in T
    BY <1>0, <2>1
  <2>. HIDE DEF Below
  <2>. QED  BY <2>2
<1>3. PICK U \in T : \A V \in T : ~ (<<V, U>> \in R)
  <2>1. IsWellFoundedOn(R, FiniteSubsetsOf(S))
    BY FS_StrictSubsetOrderingWellFounded
  <2>. HIDE DEF T, R
  <2>. QED  BY <1>2, <2>1, WFMin
<1>4. PICK x \in S : U = Below(x)
  OBVIOUS
<1>5. ASSUME NEW y \in S, y < x
      PROVE  FALSE
  <2>1. \A z \in Below(y) : z \in Below(x)
    BY <1>5
  <2>2. y \in Below(x) /\ y \notin Below(y)
    BY <1>5
  <2>3. <<Below(y), Below(x)>> \in R
    <3>. HIDE DEF Below
    <3>. QED BY <1>0, <2>1, <2>2 DEF StrictSubsetOrdering
  <2>. QED  BY <1>3, <1>4, <2>3
<1>6. \A y \in S : x <= y
  BY <1>5
<1>. QED
  BY <1>6 DEF Min

LEMMA MaxOfInterval ==
  ASSUME NEW a \in Nat, NEW b \in Nat, a <= b
  PROVE  Max(a .. b) = b
<1>1. b \in a .. b /\ \A y \in a .. b : b >= y
  OBVIOUS
<1>2. \A x \in a .. b : (\A y \in a .. b : x >= y) => x = b
  BY <1>1
<1>. QED
  BY <1>1, <1>2 DEF Max

LEMMA Sizes == /\ Total \in Nat /\ Total > 0 /\ Total < 255
               /\ Gap \in Nat /\ Gap > 0 /\ MaxDrops \in Nat /\ RingCap \in Nat
               /\ CtsTimeout \in Nat /\ EomTimeout \in Nat /\ Overall \in Nat
               /\ MaxAnswer \in Nat /\ Windows \subseteq Nat \ {0}
               /\ MaxWait \in Nat /\ Horizon = Overall + 1 /\ NoAnswer = MaxAnswer + 1
               /\ Late \in Nat
  BY TpAssumption DEF MaxWait, Horizon, NoAnswer

\* What a pop does to the ring.
LEMMA RingPop ==
  ASSUME ring \in Seq(Frames), Len(ring) <= RingCap, ring # <<>>, ring' = Tail(ring)
  PROVE  /\ ring' \in Seq(Frames) /\ Len(ring') = Len(ring) - 1 /\ Len(ring) > 0
         /\ Len(ring') <= RingCap
         /\ Head(ring) \in Frames /\ Head(ring) = ring[1]
         /\ \A k \in 1 .. Len(ring') : ring'[k] = ring[k + 1]
<1>1. Len(ring) \in Nat /\ Len(ring) > 0
  BY EmptySeq
<1>. QED
  BY <1>1, Sizes, HeadTailProperties

\* What a received frame does to it.
LEMMA RingPut ==
  ASSUME ring \in Seq(Frames), NEW f \in Frames, Receive(f)
  PROVE  /\ ring' \in Seq(Frames) /\ Len(ring') = Len(ring) + 1
         /\ Len(ring') <= RingCap
         /\ \A k \in 1 .. Len(ring) : ring'[k] = ring[k]
         /\ ring'[Len(ring) + 1] = f
<1>1. Len(ring) \in Nat /\ Len(ring) < RingCap
  BY LenProperties DEF Receive
<1>. QED
  BY <1>1, Sizes, AppendProperties DEF Receive

LEMMA FrameFields ==
  /\ \A f \in Frames : /\ f.ctl \in {"cts", "eom", "abort", "other"}
                       /\ f.ctl = "cts" => f.n \in 0 .. 255 /\ f.first \in 0 .. 255
  /\ \A n, first \in 0 .. 255 : [ctl |-> "cts", n |-> n, first |-> first] \in Frames
  /\ \A c \in {"eom", "abort", "other"} : [ctl |-> c] \in Frames
  BY DEF Frames

-----------------------------------------------------------------------------
(* Types *)

LEMMA TpInit == Init => TpInv
<1>1. <<>> \in Seq(Frames) /\ Len(<<>>) = 0
  BY EmptySeq
<1>2. Init => TypeOK
  <2>1. Init => sent \in 0 .. 2 * Total /\ allowed \in 0 .. 255 /\ seq \in 0 .. 255
    BY Sizes DEF Init
  <2>2. Init => waited \in 0 .. MaxWait /\ elapsed \in 0 .. Horizon /\ sleep \in 0 .. Gap
    BY Sizes DEF Init
  <2>3. Init => owed \in 0 .. NoAnswer /\ drops \in 0 .. MaxDrops
                /\ lost \in 0 .. MaxDrops - drops
    BY Sizes DEF Init
  <2>4. Init => ring \in Seq(Frames) /\ Len(ring) <= RingCap
    BY <1>1, Sizes DEF Init
  <2>. QED  BY <2>1, <2>2, <2>3, <2>4 DEF Init, TypeOK
<1>. QED
  BY <1>2 DEF Init, TpInv, StepInv

\* The sender's steps: those that pop a frame ...
LEMMA PopTypes ==
  ASSUME TpInv, PopCts \/ PopEom
  PROVE  TpInv'
<1>. USE DEF TpInv, TypeOK, StepInv, Rest, charger
<1>1. CASE PopCts
  <2>. DEFINE f == Head(ring)
  <2>0. ring' \in Seq(Frames) /\ Len(ring') <= RingCap /\ f \in Frames
    BY <1>1, RingPop DEF PopCts
  <2>1. CtsWait(f) \/ CtsFrame(f) \/ EndFrame(f) \/ Swallow
    BY <1>1 DEF PopCts
  <2>. HIDE DEF f
  <2>a. f.ctl = "cts" => f.n \in 0 .. 255 /\ f.first \in 0 .. 255
    BY <2>0, FrameFields
  <2>2. sent < Total /\ waited' \in 0 .. MaxWait
    BY <1>1, <2>1, Sizes DEF PopCts, Awake, CtsWait, CtsFrame, EndFrame, Swallow,
       Outer, OverallCheck, Finish
  <2>3. CASE CtsWait(f)
    BY <1>1, <2>0, <2>a, <2>2, <2>3, Sizes DEF PopCts, CtsWait, OverallCheck, Outer, Finish
  <2>4. CASE CtsFrame(f)
    <3>1. allowed' \in 0 .. 255 /\ seq' \in 0 .. 255 /\ pc' = "Send"
      BY <2>a, <2>4 DEF CtsFrame
    <3>2. sent' = sent /\ sent \in Nat
      BY <1>1 DEF PopCts
    <3>3. sent + 1 <= Total + seq'
      <4>1. sent < Total /\ seq' \in Nat
        BY <2>2, <3>1
      <4>2. \A a, b, c \in Nat : a < b => a + 1 <= b + c
        OBVIOUS
      <4>. QED  BY <3>2, <4>1, <4>2, Sizes
    <3>. QED
      BY <1>1, <2>0, <2>2, <2>4, <3>1, <3>2, <3>3
         DEF PopCts, CtsFrame
  <2>5. CASE EndFrame(f)
    BY <1>1, <2>0, <2>a, <2>2, <2>5, Sizes DEF PopCts, EndFrame, Finish
  <2>6. CASE Swallow
    BY <1>1, <2>0, <2>a, <2>2, <2>6, Sizes DEF PopCts, Awake, Swallow
  <2>. QED  BY <2>1, <2>3, <2>4, <2>5, <2>6
<1>2. CASE PopEom
  <2>1. ring' \in Seq(Frames) /\ Len(ring') <= RingCap
    BY <1>2, RingPop DEF PopEom
  <2>. DEFINE f == Head(ring)
  <2>2. EndFrame(f) \/ Swallow
    BY <1>2 DEF PopEom
  <2>. HIDE DEF f
  <2>3. /\ UNCHANGED <<sent, elapsed, sleep, dts, allowed, seq, waited>>
        /\ pc' \in {"Eom", "Idle"} /\ result' \in {"none", "ok", "failed"}
    BY <1>2, <2>2 DEF PopEom, Awake, EndFrame, Finish, Swallow
  <2>4. UNCHANGED <<kind, window, have, granted, owed, heard, drops, lost>>
    BY <1>2 DEF PopEom
  <2>. QED
    BY <2>1, <2>3, <2>4
<1>. QED  BY <1>1, <1>2

\* ... that send a data frame ...
LEMMA SendTypes ==
  ASSUME TpInv, SendDt
  PROVE  TpInv'
<1>. USE DEF TpInv, TypeOK, StepInv
<1>1. /\ have' \subseteq Packets /\ granted' \subseteq Packets
      /\ owed' \in 0 .. NoAnswer /\ heard' \in BOOLEAN /\ drops' \in 0 .. MaxDrops
      /\ lost' \in 0 .. MaxDrops - drops'
  BY Sizes DEF SendDt, Arrives, Lost, charger
<1>2. sent' \in 0 .. 2 * Total /\ sent' <= Total + seq' /\ seq' <= Total /\ allowed' > 0
  BY Sizes DEF SendDt, Awake
<1>3. dts' \subseteq 0 .. Total /\ sleep' \in 0 .. Gap
  BY Sizes DEF SendDt
<1>. QED
  BY <1>1, <1>2, <1>3, Sizes DEF SendDt

\* ... and the others.
LEMMA OtherTypes ==
  ASSUME TpInv,
         WaitSleep \/ WaitOver \/ GapOver \/ PollPop \/ PollDone \/ WindowDone
  PROVE  TpInv'
<1>. USE DEF TpInv, TypeOK, StepInv, Rest, charger, sender, Awake
<1>1. CASE WaitSleep
  BY <1>1, Sizes DEF WaitSleep
<1>2. CASE WaitOver
  BY <1>2, Sizes DEF WaitOver, Finish
<1>3. CASE GapOver
  BY <1>3, Sizes DEF GapOver
<1>4. CASE PollPop
  <2>1. ring' \in Seq(Frames) /\ Len(ring') <= RingCap
    BY <1>4, RingPop DEF PollPop
  <2>. QED  BY <1>4, <2>1, Sizes DEF PollPop
<1>5. CASE PollDone
  BY <1>5, Sizes DEF PollDone
<1>6. CASE WindowDone
  BY <1>6, Sizes DEF WindowDone, OverallCheck, Outer, Finish
<1>. QED  BY <1>1, <1>2, <1>3, <1>4, <1>5, <1>6

\* The next CTS: the first packet that is missing, and how many from there.
LEMMA CtsWindow ==
  ASSUME TpInv, Packets \ have # {}
  PROVE  LET first == Min(Packets \ have)
             n == IF first + window - 1 <= Total THEN window ELSE Total - first + 1
         IN  /\ first \in 1 .. Total /\ first \notin have
             /\ \A p \in Packets \ have : first <= p
             /\ n \in 1 .. 255 /\ first + n - 1 <= Total /\ n <= window
             /\ [ctl |-> "cts", n |-> n, first |-> first] \in Frames
<1>. DEFINE S == Packets \ have
            first == Min(S)
            n == IF first + window - 1 <= Total THEN window ELSE Total - first + 1
<1>1. first \in S /\ \A p \in S : first <= p
  BY MinOfInterval, Sizes DEF Packets
<1>. HIDE DEF S, first
<1>2. first \in 1 .. Total /\ first \notin have /\ window \in Nat /\ window > 0
  BY <1>1, Sizes DEF S, Packets, TpInv, StepInv
<1>3. n \in 1 .. 255 /\ first + n - 1 <= Total /\ n <= window
  BY <1>2, Sizes
<1>4. [ctl |-> "cts", n |-> n, first |-> first] \in Frames
  <2>. HIDE DEF n
  <2>1. n \in 0 .. 255 /\ first \in 0 .. 255
    BY <1>2, <1>3, Sizes
  <2>. QED  BY <2>1, FrameFields
<1>. QED
  BY <1>1, <1>2, <1>3, <1>4, Zenon DEF S, first

\* The charger and the clock.
LEMMA WorldTypes ==
  ASSUME TpInv, Rts \/ AnyAnswer \/ Cts \/ EomAck \/ OtherFrame \/ Drain \/ Tick
  PROVE  TpInv'
<1>. USE DEF TpInv, TypeOK, StepInv, Rest, charger, sender
<1>1. CASE Rts
  BY <1>1, Sizes DEF Rts
<1>2. CASE AnyAnswer
  <2>1. PICK f \in AnyFrames : Receive(f)
    BY <1>2 DEF AnyAnswer
  <2>2. f \in Frames
    BY TpAssumption DEF AnyFrames, Frames
  <2>3. ring' \in Seq(Frames) /\ Len(ring') <= RingCap
    BY <2>1, <2>2, RingPut
  <2>. QED  BY <1>2, <2>3, Sizes DEF AnyAnswer
<1>3. CASE Cts
  <2>. DEFINE first == Min(Packets \ have)
              n == IF first + window - 1 <= Total THEN window ELSE Total - first + 1
              f == [ctl |-> "cts", n |-> n, first |-> first]
  <2>1. /\ first \in 1 .. Total /\ n \in 1 .. 255 /\ first + n - 1 <= Total
        /\ f \in Frames /\ Receive(f) /\ granted' = first .. first + n - 1
    BY <1>3, CtsWindow DEF Cts
  <2>2. granted' \subseteq Packets
    <3>. HIDE DEF first, n
    <3>. QED  BY <2>1, Sizes DEF Packets
  <2>3. ring' \in Seq(Frames) /\ Len(ring') <= RingCap
    BY <2>1, RingPut
  <2>4. /\ UNCHANGED <<sender, waited, sleep, kind, window, have, heard, drops, lost>>
        /\ owed' = NoAnswer
    BY <1>3 DEF Cts
  <2>. QED  BY <2>2, <2>3, <2>4, Sizes
<1>4. CASE EomAck
  <2>1. ring' \in Seq(Frames) /\ Len(ring') <= RingCap
    BY <1>4, RingPut, FrameFields DEF EomAck
  <2>. QED  BY <1>4, <2>1, Sizes DEF EomAck
<1>5. CASE OtherFrame
  <2>1. ring' \in Seq(Frames) /\ Len(ring') <= RingCap
    BY <1>5, RingPut, FrameFields DEF OtherFrame
  <2>. QED  BY <1>5, <2>1, Sizes DEF OtherFrame
<1>6. CASE Drain
  <2>1. ring' \in Seq(Frames) /\ Len(ring') <= RingCap
    BY <1>6, RingPop DEF Drain
  <2>. QED  BY <1>6, <2>1, Sizes DEF Drain
<1>7. CASE Tick
  <2>1. /\ waited' \in 0 .. MaxWait /\ elapsed' \in 0 .. Horizon
        /\ sleep' \in 0 .. Gap
    BY <1>7, Sizes DEF Tick
  <2>2. owed' \in 0 .. NoAnswer
    BY <1>7, Sizes DEF Tick
  <2>. QED  BY <1>7, <2>1, <2>2 DEF Tick
<1>. QED  BY <1>1, <1>2, <1>3, <1>4, <1>5, <1>6, <1>7

LEMMA TpNext == TpInv /\ [Next]_vars => TpInv'
<1>1. TpInv /\ UNCHANGED vars => TpInv'
  BY DEF TpInv, TypeOK, StepInv, vars, sender, charger
<1>. QED
  BY <1>1, PopTypes, SendTypes, OtherTypes, WorldTypes DEF Next, TpSendRtsCts

LEMMA TpInvHolds == Spec => []TpInv
  BY TpInit, TpNext, PTL DEF Spec

\* The variables of a session keep their types: no packet number beyond the
\* message is sent, and packets_sent does not pass 2 * Total (tp_send_rts_cts).
THEOREM TpTypes == Spec => []TypeOK
<1>1. TpInv => TypeOK
  BY DEF TpInv
<1>. QED
  BY <1>1, TpInvHolds, PTL

-----------------------------------------------------------------------------
(* Success *)

LEMMA AckInit == Init => AckInv
<1>1. Len(<<>>) = 0
  BY EmptySeq
<1>. QED
  BY <1>1 DEF Init, AckInv

\* What was on its way stays genuine when frames are only taken from the ring.
LEMMA AckPops ==
  ASSUME TpInv, AckInv, kind # "any", ring # <<>>, ring' = Tail(ring), have' = have
  PROVE  /\ \A k \in 1 .. Len(ring') : ring'[k].ctl = "eom" => have' = Packets
         /\ Head(ring).ctl = "eom" => have' = Packets
<1>1. ring \in Seq(Frames) /\ Len(ring) <= RingCap
  BY DEF TpInv, TypeOK
<1>2. /\ Len(ring) \in Nat /\ Len(ring') \in Nat /\ Len(ring') = Len(ring) - 1
      /\ Len(ring) > 0 /\ Head(ring) = ring[1]
      /\ \A k \in 1 .. Len(ring') : ring'[k] = ring[k + 1]
  BY <1>1, RingPop, LenProperties
<1>3. \A k \in 1 .. Len(ring') : k + 1 \in 1 .. Len(ring)
  BY <1>2
<1>. QED
  BY <1>2, <1>3 DEF AckInv

\* Or put into it by the charger, which acknowledges a whole message only.
LEMMA AckPuts ==
  ASSUME TpInv, AckInv, kind # "any", NEW f \in Frames, Receive(f), have' = have,
         f.ctl = "eom" => have = Packets
  PROVE  \A k \in 1 .. Len(ring') : ring'[k].ctl = "eom" => have' = Packets
<1>1. ring \in Seq(Frames) /\ Len(ring) \in Nat
  BY LenProperties DEF TpInv, TypeOK
<1>2. /\ Len(ring') = Len(ring) + 1
      /\ \A k \in 1 .. Len(ring) : ring'[k] = ring[k]
      /\ ring'[Len(ring) + 1] = f
  BY <1>1, RingPut
<1>. QED
  BY <1>1, <1>2 DEF AckInv

LEMMA AckNext == TpInv /\ TpInv' /\ AckInv /\ [Next]_vars => AckInv'
<1> SUFFICES ASSUME TpInv, TpInv', AckInv, [Next]_vars, kind' # "any"
             PROVE  AckInv'
  BY DEF AckInv
<1>. USE DEF Rest, charger, sender
<1>0. kind # "any"
  BY DEF Next, TpSendRtsCts, Rts, PopCts, PopEom, WaitSleep, WaitOver, SendDt,
     GapOver, PollPop, PollDone, WindowDone, AnyAnswer, Cts, EomAck, OtherFrame,
     Drain, Tick, vars
<1>1. CASE PopCts \/ PopEom \/ PollPop \/ Drain
  <2>1. ring # <<>> /\ ring' = Tail(ring) /\ have' = have
    BY <1>1 DEF PopCts, PopEom, PollPop, Drain
  <2>. DEFINE f == Head(ring)
  <2>2. result' = "ok" => result = "ok" \/ f.ctl = "eom"
    BY <1>1 DEF PopCts, PopEom, PollPop, Drain, CtsWait, CtsFrame, EndFrame,
       Swallow, OverallCheck, Outer, Finish
  <2>. QED  BY <1>0, <2>1, <2>2, AckPops DEF AckInv
<1>2. CASE SendDt
  <2>1. ring' = ring /\ result' = result /\ have \subseteq have'
    BY <1>2 DEF SendDt, Arrives, Lost
  <2>2. have' \subseteq Packets
    BY DEF TpInv, TypeOK
  <2>. QED  BY <1>0, <2>1, <2>2 DEF AckInv
<1>3. CASE WaitSleep \/ WaitOver \/ GapOver \/ PollDone \/ WindowDone \/ Tick
             \/ UNCHANGED vars
  <2>1. /\ ring' = ring /\ have' = have
        /\ result' = "ok" => result = "ok"
    BY <1>3 DEF WaitSleep, WaitOver, GapOver, PollDone, WindowDone, Tick, vars,
       OverallCheck, Outer, Finish
  <2>. QED  BY <1>0, <2>1 DEF AckInv
<1>4. CASE Rts
  <2>1. ring' = <<>> /\ result' = "none"
    BY <1>4 DEF Rts
  <2>2. Len(<<>>) = 0
    BY EmptySeq
  <2>. QED  BY <2>1, <2>2 DEF AckInv
<1>5. CASE Cts
  <2>. DEFINE first == Min(Packets \ have)
              n == IF first + window - 1 <= Total THEN window ELSE Total - first + 1
              f == [ctl |-> "cts", n |-> n, first |-> first]
  <2>1. f \in Frames /\ Receive(f) /\ have' = have /\ result' = result
    BY <1>5, CtsWindow DEF Cts
  <2>2. f.ctl # "eom"
    OBVIOUS
  <2>. HIDE DEF f
  <2>. QED  BY <1>0, <2>1, <2>2, AckPuts DEF AckInv
<1>6. CASE EomAck
  <2>1. /\ Receive([ctl |-> "eom"]) /\ have = Packets /\ have' = have
        /\ result' = result
    BY <1>6 DEF EomAck
  <2>. QED  BY <1>0, <2>1, FrameFields, AckPuts DEF AckInv
<1>7. CASE OtherFrame
  <2>1. Receive([ctl |-> "other"]) /\ have' = have /\ result' = result
    BY <1>7 DEF OtherFrame
  <2>2. [ctl |-> "other"] \in Frames
    BY FrameFields
  <2>. QED  BY <1>0, <2>1, <2>2, AckPuts DEF AckInv
<1>8. ~AnyAnswer
  BY <1>0 DEF AnyAnswer
<1>. QED
  BY <1>1, <1>2, <1>3, <1>4, <1>5, <1>6, <1>7, <1>8 DEF Next, TpSendRtsCts

\* A session reports success only for a message that the charger has whole,
\* whatever data frames are lost and windows repeated (tp_send_rts_cts).
THEOREM SuccessHolds == Spec => []SuccessIsReal
<1>1. AckInv => SuccessIsReal
  BY DEF AckInv, SuccessIsReal
<1>. QED
  BY <1>1, AckInit, AckNext, TpInvHolds, PTL DEF Spec

-----------------------------------------------------------------------------
(* Everything is sent before the last wait *)

LEMMA OrderInit == Init => OrderInv
<1>1. Len(<<>>) = 0
  BY EmptySeq
<1>. QED
  BY <1>1 DEF Init, OrderInv, Owing, OneCts, NoCts

\* The ring when a frame is taken from it ...
LEMMA CtsPops ==
  ASSUME TpInv, OneCts, ring # <<>>, ring' = Tail(ring)
  PROVE  /\ OneCts' /\ (NoCts => NoCts')
         /\ Head(ring) = ring[1] /\ 1 \in 1 .. Len(ring)
         /\ Head(ring).ctl = "cts" => NoCts'
         /\ \A k \in 1 .. Len(ring') : ring'[k] = ring[k + 1] /\ k + 1 \in 1 .. Len(ring)
<1>1. ring \in Seq(Frames) /\ Len(ring) <= RingCap
  BY DEF TpInv, TypeOK
<1>2. /\ Len(ring) \in Nat /\ Len(ring') \in Nat /\ Len(ring') = Len(ring) - 1
      /\ Len(ring) > 0 /\ Head(ring) = ring[1]
      /\ \A k \in 1 .. Len(ring') : ring'[k] = ring[k + 1]
  BY <1>1, RingPop, LenProperties
<1>3. /\ 1 \in 1 .. Len(ring)
      /\ \A k \in 1 .. Len(ring') : k + 1 \in 1 .. Len(ring) /\ k \in Nat /\ k + 1 # 1
  BY <1>2
<1>4. OneCts'
  <2> SUFFICES ASSUME NEW j \in 1 .. Len(ring'), NEW k \in 1 .. Len(ring'),
                      ring'[j].ctl = "cts", ring'[k].ctl = "cts"
               PROVE  j = k
    BY DEF OneCts, IsCts
  <2>1. j + 1 = k + 1
    BY <1>2, <1>3 DEF OneCts, IsCts
  <2>. QED  BY <1>3, <2>1
<1>5. (NoCts => NoCts') /\ (Head(ring).ctl = "cts" => NoCts')
  BY <1>2, <1>3 DEF OneCts, NoCts, IsCts
<1>. QED
  BY <1>2, <1>3, <1>4, <1>5

\* ... and put into it.
LEMMA CtsPuts ==
  ASSUME TpInv, OneCts, NEW f \in Frames, Receive(f)
  PROVE  /\ f.ctl # "cts" =>
              /\ OneCts' /\ (NoCts => NoCts')
              /\ \A k \in 1 .. Len(ring') : IsCts(k)' =>
                   ring'[k] = ring[k] /\ k \in 1 .. Len(ring)
         /\ NoCts => OneCts' /\ \A k \in 1 .. Len(ring') : IsCts(k)' => ring'[k] = f
<1>1. ring \in Seq(Frames) /\ Len(ring) \in Nat
  BY LenProperties DEF TpInv, TypeOK
<1>2. /\ Len(ring') = Len(ring) + 1
      /\ \A k \in 1 .. Len(ring) : ring'[k] = ring[k]
      /\ ring'[Len(ring) + 1] = f
  BY <1>1, RingPut
<1>3. \A k \in 1 .. Len(ring') : k \in 1 .. Len(ring) \/ k = Len(ring) + 1
  BY <1>1, <1>2
<1>. QED
  BY <1>2, <1>3 DEF OneCts, NoCts, IsCts

\* The numbers of packets sent and had.
LEMMA Counts ==
  ASSUME TpInv, have \subseteq dts
  PROVE  /\ Hi \in Nat /\ Got \in Nat /\ Got <= Hi
         /\ IsFiniteSet(dts) /\ IsFiniteSet(have)
         /\ Got = Hi => have = dts
         /\ sent \in Nat /\ window \in Nat /\ window > 0 /\ lost \in Nat
         /\ seq \in Nat /\ allowed \in Nat /\ Total \in Nat
<1>1. sent \in Nat /\ window \in Nat /\ window > 0 /\ lost \in Nat
      /\ seq \in Nat /\ allowed \in Nat /\ Total \in Nat
  BY Sizes DEF TpInv, TypeOK, StepInv
<1>2. IsFiniteSet(0 .. Total)
  BY <1>1, FS_Interval
<1>5. dts \in SUBSET (0 .. Total) /\ have \in SUBSET dts
  BY DEF TpInv, TypeOK
<1>3. IsFiniteSet(dts)
  BY <1>2, <1>5, FS_Subset
<1>4. IsFiniteSet(have) /\ Got <= Hi /\ (Got = Hi => have = dts)
  BY <1>3, <1>5, FS_Subset DEF Hi, Got
<1>. QED
  BY <1>1, <1>3, <1>4, FS_CardinalityType DEF Hi, Got

\* The steps of the sender that leave the charger and the count alone: what they
\* have to keep.
LEMMA OrderKeeps ==
  ASSUME OrderInv, kind # "any", pc # "Idle",
         UNCHANGED <<sent, dts, have, granted, owed, window, lost>>,
         OneCts', NoCts => NoCts',
         \A k \in 1 .. Len(ring') :
           IsCts(k)' => \E j \in 1 .. Len(ring) : ring'[k] = ring[j],
         pc' \in {"Cts", "Eom"} => Ahead(0),
         pc' = "Eom" => Total <= sent,
         pc' = "Send" => Sending(seq, allowed)',
         pc' \in {"Gap", "Poll"} => pc \in {"Gap", "Poll"} /\ UNCHANGED <<seq, allowed>>
  PROVE  OrderInv'
<1>0. Hi' = Hi /\ Got' = Got
  BY DEF Hi, Got
<1>1. Owing' /\ Agree' /\ Owing
  BY <1>0 DEF OrderInv, Owing, InSession, Agree
<1>2. CtsFits'
  BY <1>0 DEF OrderInv, InSession, CtsFits, IsCts, Fits
<1>3. pc' \in {"Gap", "Poll"} => Sending(seq + 1, allowed - 1)'
  BY <1>0 DEF OrderInv, InSession, Sending, Ahead, Repeats
<1>4. pc' \in {"Cts", "Eom"} => Ahead(0)'
  BY <1>0 DEF Ahead
<1>. QED
  BY <1>1, <1>2, <1>3, <1>4 DEF OrderInv, InSession

LEMMA OrderOuter ==
  ASSUME TpInv, OverallCheck
  PROVE  pc' \in {"Cts", "Eom", "Idle"} /\ (pc' = "Eom" => Total <= sent)
<1>1. sent \in Nat
  BY Sizes DEF TpInv, TypeOK
<1>. QED
  BY <1>1, Sizes DEF OverallCheck, Outer, Finish

\* A window begins at the first packet missing.
LEMMA OrderPopCts ==
  ASSUME TpInv, OrderInv, kind # "any", PopCts
  PROVE  OrderInv'
<1>0. PICK f : f = Head(ring)
  OBVIOUS
<1>1. /\ pc = "Cts" /\ ring # <<>> /\ ring' = Tail(ring)
      /\ UNCHANGED <<sent, dts, have, granted, owed, window, lost>>
      /\ CtsWait(f) \/ CtsFrame(f) \/ EndFrame(f) \/ Swallow
  BY <1>0 DEF PopCts, Awake, Rest, charger
<1>2. OneCts /\ Owing /\ InSession /\ Ahead(0)
  BY <1>1 DEF OrderInv, InSession
<1>3. /\ OneCts' /\ (NoCts => NoCts') /\ (f.ctl = "cts" => NoCts')
      /\ f = ring[1] /\ 1 \in 1 .. Len(ring)
      /\ \A k \in 1 .. Len(ring') : IsCts(k)' => \E j \in 1 .. Len(ring) : ring'[k] = ring[j]
  BY <1>0, <1>1, <1>2, CtsPops
<1>4. CASE CtsWait(f)
  <2>1. pc' \in {"Cts", "Eom", "Idle"} /\ (pc' = "Eom" => Total <= sent)
    BY <1>4, OrderOuter DEF CtsWait
  <2>. QED  BY <1>1, <1>2, <1>3, <2>1, OrderKeeps
<1>5. CASE CtsFrame(f)
  <2>1. f.ctl = "cts" /\ pc' = "Send" /\ allowed' = f.n /\ seq' = f.first
    BY <1>5 DEF CtsFrame
  <2>0. f.first \in Nat
    <3>1. f \in Frames
      BY <1>0, <1>1, RingPop DEF TpInv, TypeOK
    <3>2. f.first \in 0 .. 255
      BY <2>1, <3>1, FrameFields
    <3>. QED  BY <3>2
  <2>2. Fits(f.first, f.n) /\ IsCts(1)
    BY <1>2, <1>3, <2>1 DEF InSession, CtsFits, IsCts
  <2>3. f.first \in 1 .. f.first
    BY <2>0, <2>2 DEF Fits
  <2>4. NoCts' /\ owed' = NoAnswer
    BY <1>1, <1>2, <1>3, <2>1, <2>2 DEF Owing, NoCts
  <2>5. Hi' = Hi /\ Got' = Got
    BY <1>1 DEF Hi, Got
  <2>6. Sending(f.first, f.n)'
    BY <1>1, <1>2, <2>2, <2>3, <2>4, <2>5 DEF Sending, Fits, Ahead
  <2>7. Sending(seq, allowed)'
    BY <2>1, <2>6 DEF Sending, Ahead, Repeats
  <2>. QED  BY <1>1, <1>3, <2>1, <2>7, OrderKeeps
<1>6. CASE EndFrame(f)
  BY <1>1, <1>3, <1>6, OrderKeeps DEF EndFrame, Finish
<1>7. CASE Swallow
  BY <1>1, <1>2, <1>3, <1>7, OrderKeeps DEF Swallow
<1>. QED  BY <1>1, <1>4, <1>5, <1>6, <1>7

LEMMA OrderPops ==
  ASSUME TpInv, OrderInv, kind # "any", PopEom \/ PollPop
  PROVE  OrderInv'
<1>1. /\ pc \in {"Eom", "Poll"} /\ ring # <<>> /\ ring' = Tail(ring)
      /\ UNCHANGED <<sent, dts, have, granted, owed, allowed, seq, window, lost>>
      /\ pc' \in {pc, "Idle"}
  BY DEF PopEom, PollPop, EndFrame, Finish, Swallow, Awake, Rest, charger, sender
<1>2. OneCts /\ InSession
  BY <1>1 DEF OrderInv
<1>3. /\ OneCts' /\ (NoCts => NoCts')
      /\ \A k \in 1 .. Len(ring') : IsCts(k)' => \E j \in 1 .. Len(ring) : ring'[k] = ring[j]
  BY <1>1, <1>2, CtsPops
<1>. QED
  BY <1>1, <1>2, <1>3, OrderKeeps DEF InSession

LEMMA OrderWaits ==
  ASSUME TpInv, OrderInv, kind # "any",
         WaitSleep \/ WaitOver \/ GapOver \/ PollDone \/ WindowDone
  PROVE  OrderInv'
<1>. USE DEF Rest, charger, sender, Awake
<1>1. UNCHANGED <<sent, dts, have, granted, owed, ring, window, lost>> /\ pc # "Idle"
  BY DEF WaitSleep, WaitOver, GapOver, PollDone, WindowDone
<1>2. OneCts /\ InSession
  BY <1>1 DEF OrderInv
<1>3. /\ OneCts' /\ (NoCts => NoCts')
      /\ \A k \in 1 .. Len(ring') : \E j \in 1 .. Len(ring) : ring'[k] = ring[j]
  BY <1>1, <1>2 DEF OneCts, NoCts, IsCts
<1>4. CASE WaitSleep
  <2>1. UNCHANGED <<pc, seq, allowed>> /\ pc \in {"Cts", "Eom"}
    BY <1>4 DEF WaitSleep
  <2>. QED  BY <1>1, <1>2, <1>3, <2>1, OrderKeeps DEF InSession
<1>5. CASE WaitOver
  <2>1. pc' = "Idle"
    BY <1>5 DEF WaitOver, Finish
  <2>. QED  BY <1>1, <1>3, <2>1, OrderKeeps
<1>6. CASE GapOver
  <2>1. pc = "Gap" /\ pc' = "Poll" /\ UNCHANGED <<seq, allowed>>
    BY <1>6 DEF GapOver
  <2>. QED  BY <1>1, <1>3, <2>1, OrderKeeps
<1>7. CASE PollDone
  <2>1. pc = "Poll" /\ pc' = "Send" /\ seq' = seq + 1 /\ allowed' = allowed - 1
    BY <1>7 DEF PollDone
  <2>2. Sending(seq, allowed)'
    BY <1>1, <1>2, <1>3, <2>1 DEF InSession, Sending, Ahead, Repeats, Hi, Got
  <2>. QED  BY <1>1, <1>3, <2>1, <2>2, OrderKeeps
<1>8. CASE WindowDone
  <2>1. pc' \in {"Cts", "Eom", "Idle"} /\ (pc' = "Eom" => Total <= sent)
    BY <1>8, OrderOuter DEF WindowDone
  <2>2. Agree /\ Sending(seq, allowed) /\ (allowed = 0 \/ seq > Total)
    BY <1>2, <1>8 DEF InSession, WindowDone
  <2>3. Hi \in Nat /\ seq \in Nat /\ allowed \in Nat /\ Total \in Nat
    BY <2>2, Counts DEF Agree
  <2>4. allowed = 0
    BY <2>2, <2>3 DEF Sending
  <2>5. Ahead(0)
    BY <2>2, <2>3, <2>4 DEF Sending, Repeats
  <2>. QED  BY <1>1, <1>3, <2>1, <2>5, OrderKeeps
<1>. QED  BY <1>4, <1>5, <1>6, <1>7, <1>8

\* A data frame of the window is sent, and arrives or is lost; the last one that
\* arrives gives the turn to the charger.
LEMMA OrderSend ==
  ASSUME TpInv, OrderInv, kind # "any", SendDt
  PROVE  OrderInv'
<1>1. /\ pc = "Send" /\ allowed > 0 /\ seq <= Total /\ pc' = "Gap"
      /\ sent' = sent + 1 /\ dts' = dts \cup {seq}
      /\ UNCHANGED <<ring, allowed, seq, window>> /\ (Arrives(seq) \/ Lost)
  BY DEF SendDt, Awake
<1>2. OneCts /\ Agree /\ Sending(seq, allowed)
  BY <1>1 DEF OrderInv, InSession
<1>3. /\ Hi \in Nat /\ Got \in Nat /\ Got <= Hi /\ IsFiniteSet(dts) /\ IsFiniteSet(have)
      /\ sent \in Nat /\ window \in Nat /\ lost \in Nat /\ Total \in Nat
      /\ seq \in Nat /\ allowed \in Nat
  BY <1>2, Counts DEF Agree
<1>4. /\ NoCts /\ owed = NoAnswer /\ seq > 0 /\ seq <= Hi + 1
      /\ seq + allowed <= Total + 1 /\ dts = 1 .. Hi /\ have \subseteq dts /\ Hi <= Total
  BY <1>1, <1>2, <1>3 DEF Sending, Agree
<1>5. PICK g \in 1 .. seq : granted = g .. seq + allowed - 1
  BY <1>1, <1>2 DEF Sending
<1>6. seq \in granted /\ Max(granted) = seq + allowed - 1 /\ granted # {}
  BY <1>1, <1>3, <1>5, MaxOfInterval
<1>7. Hi' = (IF seq <= Hi THEN Hi ELSE seq) /\ dts' = 1 .. Hi'
  <2>1. CASE seq <= Hi
    <3>1. dts' = dts
      BY <1>1, <1>3, <1>4, <2>1
    <3>2. Hi' = Hi
      BY <3>1 DEF Hi
    <3>. QED  BY <1>4, <2>1, <3>1, <3>2
  <2>2. CASE seq > Hi
    <3>1. seq = Hi + 1 /\ seq \notin dts
      BY <1>3, <1>4, <2>2
    <3>2. Hi' = Hi + 1
      BY <1>1, <1>3, <3>1, FS_AddElement DEF Hi
    <3>3. dts' = 1 .. Hi + 1
      BY <1>1, <1>3, <1>4, <3>1
    <3>. QED  BY <1>3, <2>2, <3>1, <3>2, <3>3
  <2>. QED  BY <1>3, <2>1, <2>2
<1>8. \/ Arrives(seq) /\ have' = have \cup {seq} /\ lost' = lost
      \/ have' = have /\ lost' = lost + 1 /\ UNCHANGED <<granted, owed>>
  BY <1>1, <1>6 DEF Arrives, Lost, charger
<1>9. Agree'
  BY <1>1, <1>3, <1>4, <1>7, <1>8 DEF Agree
<1>10. Ahead(Repeats(seq + 1, allowed - 1))'
  <2>1. Ahead(Repeats(seq, allowed)) \/ (seq \notin have /\ allowed <= window /\ Ahead(0))
    BY <1>2 DEF Sending
  <2>2. \/ Got' = Got + 1 /\ lost' = lost
        \/ Got' = Got /\ lost' = lost + 1
        \/ Got' = Got /\ lost' = lost /\ seq \in have
    BY <1>3, <1>8, FS_AddElement DEF Got
  <2>3. seq \in have => seq <= Hi
    BY <1>3, <1>4
  <2>. DEFINE r == IF seq + allowed <= Hi + 1 THEN allowed ELSE Hi + 1 - seq
              q == IF seq + allowed <= Hi' + 1 THEN allowed - 1 ELSE Hi' - seq
  <2>4. Repeats(seq, allowed) = r
    BY DEF Repeats
  <2>5. \/ allowed <= window /\ sent + window * (Hi - Got) <= Hi + window * lost
        \/ sent + r + window * (Hi - Got) <= Hi + window * lost
    BY <1>3, <2>1, <2>4 DEF Ahead
  <2>6. seq \in have => sent + r + window * (Hi - Got) <= Hi + window * lost
    BY <2>1, <2>4 DEF Ahead
  <2>7. sent + 1 + q + window * (Hi' - Got') <= Hi' + window * lost'
    <3>1. Got' = Got + 1 \/ Got' = Got
      BY <2>2
    <3>. HIDE DEF r
    <3>2. \/ Got' = Got + 1 /\ lost' = lost
          \/ Got' = Got /\ lost' = lost + 1
          \/ Got' = Got /\ lost' = lost /\ seq <= Hi
               /\ sent + r + window * (Hi - Got) <= Hi + window * lost
      BY <2>2, <2>3, <2>6
    <3>3. seq <= Hi => r <= allowed /\ q = r - 1 /\ r > 0 /\ Hi' = Hi
      BY <1>1, <1>3, <1>7 DEF r
    <3>4. ~(seq <= Hi) => Hi' = Hi + 1 /\ q = 0 /\ r = 0
      BY <1>1, <1>3, <1>4, <1>7 DEF r
    <3>. DEFINE x == window * (Hi - Got)
                y == window * lost
    <3>5. /\ x \in Int /\ y \in Int /\ r \in Int
          /\ window * (Hi - (Got + 1)) = x - window
          /\ window * (Hi + 1 - Got) = x + window
          /\ window * (Hi + 1 - (Got + 1)) = x
          /\ window * (lost + 1) = y + window
      BY <1>3 DEF r
    <3>. HIDE DEF q, x, y
    <3>6. \/ allowed <= window /\ sent + x <= Hi + y
          \/ sent + r + x <= Hi + y
      BY <2>5 DEF x, y
    <3>7. \/ Got' = Got + 1 /\ lost' = lost
          \/ Got' = Got /\ lost' = lost + 1
          \/ Got' = Got /\ lost' = lost /\ seq <= Hi /\ sent + r + x <= Hi + y
      BY <3>2 DEF x, y
    <3>8. CASE Got' = Got + 1 /\ lost' = lost
      <4>1. CASE seq <= Hi
        BY <1>3, <3>3, <3>5, <3>6, <3>8, <4>1 DEF y
      <4>2. CASE ~(seq <= Hi)
        BY <1>3, <3>4, <3>5, <3>6, <3>8, <4>2 DEF y
      <4>. QED  BY <4>1, <4>2
    <3>9. CASE Got' = Got /\ lost' = lost + 1
      <4>1. CASE seq <= Hi
        BY <1>3, <3>3, <3>5, <3>6, <3>9, <4>1 DEF x
      <4>2. CASE ~(seq <= Hi)
        BY <1>3, <3>4, <3>5, <3>6, <3>9, <4>2
      <4>. QED  BY <4>1, <4>2
    <3>10. CASE /\ Got' = Got /\ lost' = lost /\ seq <= Hi
                /\ sent + r + x <= Hi + y
      BY <1>3, <3>3, <3>5, <3>10 DEF x, y
    <3>. QED  BY <3>7, <3>8, <3>9, <3>10
  <2>8. Repeats(seq + 1, allowed - 1)' = q
    <3>1. Hi' \in Nat
      BY <1>3, <1>7
    <3>2. /\ seq + 1 + (allowed - 1) = seq + allowed
          /\ Hi' + 1 - (seq + 1) = Hi' - seq
      BY <1>3, <3>1
    <3>. QED  BY <1>1, <3>2 DEF Repeats
  <2>. HIDE DEF q
  <2>. QED  BY <1>1, <2>7, <2>8 DEF Ahead
<1>11. NoCts' /\ OneCts' /\ CtsFits'
  BY <1>1, <1>2, <1>4 DEF NoCts, OneCts, CtsFits, IsCts
<1>12. /\ owed' # NoAnswer => granted' = {}
       /\ allowed > 1 => owed' = NoAnswer /\ granted' = granted
  BY <1>1, <1>3, <1>4, <1>6, <1>8 DEF Arrives
<1>13. Sending(seq + 1, allowed - 1)'
  <2>1. seq + 1 > 0 /\ seq + 1 <= Hi' + 1
    BY <1>3, <1>4, <1>7
  <2>2. /\ g \in 1 .. seq + 1 /\ seq + 1 + (allowed - 1) = seq + allowed
        /\ (seq + 1) + (allowed - 1) - 1 = seq + allowed - 1
        /\ allowed - 1 > 0 => allowed > 1
    BY <1>3
  <2>. QED
    BY <1>1, <1>4, <1>5, <1>10, <1>11, <1>12, <2>1, <2>2 DEF Sending
<1>. QED
  BY <1>1, <1>9, <1>11, <1>12, <1>13 DEF OrderInv, InSession, Owing

LEMMA OrderRts ==
  ASSUME TpInv, Rts
  PROVE  OrderInv'
<1>1. Len(<<>>) = 0 /\ Cardinality({}) = 0
  BY EmptySeq, FS_EmptySet
<1>2. Hi' = 0 /\ Got' = 0 /\ sent' = 0 /\ lost' = 0 /\ window' \in Nat /\ dts' = {}
  BY <1>1, Sizes DEF Rts, Hi, Got, TpInv, StepInv
<1>3. Ahead(0)'
  <2>1. \A w \in Nat : 0 + 0 + w * (0 - 0) <= 0 + w * 0
    OBVIOUS
  <2>. QED  BY <1>2, <2>1 DEF Ahead
<1>4. dts' = 1 .. Hi'
  BY <1>2
<1>. QED
  BY <1>1, <1>2, <1>3, <1>4, Sizes
     DEF Rts, OrderInv, Owing, OneCts, NoCts, InSession, Agree, CtsFits

\* The charger grants a window from the first packet missing, once.
LEMMA OrderCts ==
  ASSUME TpInv, OrderInv, kind # "any", Cts
  PROVE  OrderInv'
<1>0. PICK first, n, f :
        /\ first = Min(Packets \ have)
        /\ n = IF first + window - 1 <= Total THEN window ELSE Total - first + 1
        /\ f = [ctl |-> "cts", n |-> n, first |-> first]
  OBVIOUS
<1>1. /\ owed # NoAnswer /\ owed' = NoAnswer /\ Receive(f)
      /\ granted' = first .. first + n - 1
      /\ UNCHANGED <<sender, have, window, lost>>
  BY <1>0 DEF Cts, MayAnswer
<1>2. /\ first \in 1 .. Total /\ first \notin have
      /\ \A p \in Packets \ have : first <= p
      /\ n \in 1 .. 255 /\ first + n - 1 <= Total /\ n <= window /\ f \in Frames
  BY <1>0, CtsWindow DEF Cts
<1>3. f.ctl = "cts" /\ f.n = n /\ f.first = first
  BY <1>0
<1>4. NoCts /\ OneCts /\ granted = {}
  BY <1>1 DEF OrderInv, Owing
<1>5. OneCts' /\ \A k \in 1 .. Len(ring') : IsCts(k)' => ring'[k] = f
  BY <1>1, <1>2, <1>4, CtsPuts
<1>6. Owing' /\ Hi' = Hi /\ Got' = Got
  BY <1>1 DEF Owing, Hi, Got, sender
<1>7. ASSUME pc # "Idle"
      PROVE  InSession'
  <2>1. InSession /\ Agree /\ Hi \in Nat /\ Total \in Nat
    BY <1>7, Counts DEF OrderInv, InSession, Agree
  <2>2. first <= Hi + 1
    <3>1. CASE Hi + 1 <= Total
      <4>1. Hi + 1 \in Packets \ have
        BY <2>1, <3>1 DEF Agree, Packets
      <4>. QED  BY <1>2, <4>1
    <3>2. CASE ~(Hi + 1 <= Total)
      BY <1>2, <2>1, <3>2
    <3>. QED  BY <3>1, <3>2
  <2>3. Fits(first, n)'
    BY <1>1, <1>2, <1>6, <2>1, <2>2 DEF Fits
  <2>4. CtsFits'
    BY <1>3, <1>5, <2>3 DEF CtsFits, Fits
  <2>5. /\ pc = "Send" => ~(allowed > 0)
        /\ pc \in {"Gap", "Poll"} => ~(allowed - 1 > 0)
    BY <1>1, <2>1 DEF InSession, Sending
  <2>. QED
    BY <1>1, <1>6, <2>1, <2>4, <2>5
       DEF InSession, Agree, Sending, Ahead, Repeats, sender
<1>. QED
  BY <1>1, <1>5, <1>6, <1>7 DEF OrderInv, sender

\* Its other frames, and the end of the session with what is left in the ring.
LEMMA OrderPuts ==
  ASSUME TpInv, OrderInv, kind # "any", EomAck \/ OtherFrame
  PROVE  OrderInv'
<1>1. PICK f \in Frames : Receive(f) /\ f.ctl # "cts"
  <2>1. CASE EomAck
    BY <2>1, FrameFields DEF EomAck
  <2>2. CASE OtherFrame
    BY <2>2, FrameFields DEF OtherFrame
  <2>. QED  BY <2>1, <2>2
<1>2. UNCHANGED <<sender, have, granted, window, lost>> /\ owed' \in {owed, NoAnswer}
  BY DEF EomAck, OtherFrame
<1>3. /\ OneCts' /\ (NoCts => NoCts')
      /\ \A k \in 1 .. Len(ring') : IsCts(k)' => ring'[k] = ring[k] /\ k \in 1 .. Len(ring)
  BY <1>1, CtsPuts DEF OrderInv
<1>4. Hi' = Hi /\ Got' = Got
  BY <1>2 DEF Hi, Got, sender
<1>5. Owing' /\ (CtsFits => CtsFits')
  BY <1>2, <1>3, <1>4 DEF OrderInv, Owing, CtsFits, Fits, IsCts, sender
<1>6. /\ Ahead(0) => Ahead(0)'
      /\ pc = "Send" /\ Sending(seq, allowed) => Sending(seq, allowed)'
      /\ pc \in {"Gap", "Poll"} /\ Sending(seq + 1, allowed - 1)
           => Sending(seq + 1, allowed - 1)'
  BY <1>2, <1>3, <1>4 DEF Sending, Ahead, Repeats, sender
<1>. QED
  BY <1>2, <1>3, <1>4, <1>5, <1>6 DEF OrderInv, InSession, Agree, sender

LEMMA OrderDrain ==
  ASSUME TpInv, OrderInv, kind # "any", Drain
  PROVE  OrderInv'
<1>1. pc = "Idle" /\ ring # <<>> /\ ring' = Tail(ring) /\ UNCHANGED <<pc, owed, granted>>
  BY DEF Drain, Rest, sender, charger
<1>2. OneCts' /\ (NoCts => NoCts')
  BY <1>1, CtsPops DEF OrderInv
<1>. QED
  BY <1>1, <1>2 DEF OrderInv, Owing

LEMMA OrderTick ==
  ASSUME TpInv, OrderInv, kind # "any", Tick \/ UNCHANGED vars
  PROVE  OrderInv'
<1>1. /\ UNCHANGED <<pc, sent, allowed, seq, dts, ring, have, granted, window, lost>>
      /\ owed = NoAnswer => owed' = NoAnswer
  BY DEF Tick, vars, sender, charger
<1>2. Hi' = Hi /\ Got' = Got
  BY <1>1 DEF Hi, Got
<1>. QED
  BY <1>1, <1>2
     DEF OrderInv, Owing, OneCts, NoCts, IsCts, InSession, Agree, CtsFits, Fits,
         Sending, Ahead, Repeats

LEMMA OrderNext == TpInv /\ OrderInv /\ [Next]_vars => OrderInv'
<1> SUFFICES ASSUME TpInv, OrderInv, [Next]_vars, kind' # "any"
             PROVE  OrderInv'
  BY DEF OrderInv
<1>1. kind # "any"
  BY DEF Next, TpSendRtsCts, Rts, PopCts, PopEom, WaitSleep, WaitOver, SendDt,
     GapOver, PollPop, PollDone, WindowDone, AnyAnswer, Cts, EomAck, OtherFrame,
     Drain, Tick, Rest, vars
<1>2. ~AnyAnswer
  BY <1>1 DEF AnyAnswer
<1>. QED
  BY <1>1, <1>2, OrderRts, OrderPopCts, OrderPops, OrderWaits, OrderSend,
     OrderCts, OrderPuts, OrderDrain, OrderTick
     DEF Next, TpSendRtsCts

\* When the session turns to wait for the acknowledgment, the packets that have
\* not been sent are at most a window for each data frame lost in it, for any
\* number of lost frames and any windows; so with none lost everything has been
\* sent, although packets_sent counts frames (tp_send_rts_cts).
THEOREM UnsentHolds == Spec => []UnsentPaidByLoss
<1>1. TpInv /\ OrderInv => UnsentPaidByLoss
  <2> SUFFICES ASSUME TpInv, OrderInv, kind # "any", pc = "Eom"
               PROVE  Cardinality(Packets \ dts) <= window * lost
    BY DEF UnsentPaidByLoss
  <2>1. Agree /\ Ahead(0) /\ Total <= sent
    BY DEF OrderInv, InSession
  <2>2. /\ Hi \in Nat /\ Got \in Nat /\ Got <= Hi /\ sent \in Nat /\ Total \in Nat
        /\ window \in Nat /\ lost \in Nat
    BY <2>1, Counts DEF Agree
  <2>3. Cardinality(Packets \ dts) = Total - Hi
    <3>1. Packets \ dts = Hi + 1 .. Total
      BY <2>1, <2>2 DEF Agree, Packets
    <3>2. Cardinality(Hi + 1 .. Total) = IF Hi + 1 > Total THEN 0
                                         ELSE Total - (Hi + 1) + 1
      BY <2>2, FS_Interval
    <3>3. Hi <= Total
      BY <2>1 DEF Agree
    <3>4. Cardinality(Hi + 1 .. Total) = Total - Hi
      BY <2>2, <3>2, <3>3
    <3>. QED  BY <3>1, <3>4
  <2>4. window * (Hi - Got) >= 0 /\ window * (Hi - Got) \in Int /\ window * lost \in Int
    BY <2>2
  <2>5. Total + window * (Hi - Got) <= Hi + window * lost
    BY <2>1, <2>2, <2>4 DEF Ahead
  <2>. QED  BY <2>2, <2>3, <2>4, <2>5
<1>. QED
  BY <1>1, OrderInit, OrderNext, TpInvHolds, PTL DEF Spec

=============================================================================
