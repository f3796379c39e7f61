------------------------------ MODULE CanRing ------------------------------
(***************************************************************************)
(* The CAN receive ring (Core/Src/can_buffer.c).  CanRingBufferPush runs   *)
(* inside the CAN receive interrupt, to completion; CanRingBufferPop runs  *)
(* in the main loop and can be interrupted between any two of its copies.  *)
(* On Linux the same Push is called by CanRxPump, i.e. only where Pop      *)
(* stands at its first line: those behaviours are among the ones here.     *)
(*                                                                         *)
(* A frame is known by the number of its reception.  Its identifier, its   *)
(* length and the two halves of its payload are stored by separate copies  *)
(* and are modelled separately, each as the number of the frame it came    *)
(* from.  A short frame has no second half: Push leaves what was there.    *)
(***************************************************************************)
EXTENDS Naturals

CONSTANTS
  Size,     \* CAN_RING_SIZE; the positions are uint8_t and wrap at 256
  MaxFrames \* bound: frames received in one behaviour

ASSUME RingAssumption == Size \in Nat \ {0, 1} /\ MaxFrames \in Nat

Slots  == 0 .. Size - 1
Stamps == 1 .. MaxFrames
Source == 0 .. MaxFrames   \* 0: never written

\* A copied frame: id, length (is it full?), first and second half.
Copies == [id : Source, len : Source, full : BOOLEAN, head : Source, tail : Source]

VARIABLES
  idAt, lenAt, fullAt, headAt, tailAt, \* ring_buffer, slot by slot
  recvPos,  \* RecvPos
  sendPos,  \* SendPos
  popPc,    \* where CanRingBufferPop is
  got,      \* the caller's id, len and buf
  received, \* history: frames pushed so far
  last,     \* history: the frame handed to the caller last
  overrun,  \* history: Size frames or more were unread at once
  broken    \* history: a Push has hit the slot that a Pop was reading

slots == <<idAt, lenAt, fullAt, headAt, tailAt>>
vars  == <<slots, recvPos, sendPos, popPc, got, received, last,
           overrun, broken>>

NoFrame == [id |-> 0, len |-> 0, full |-> FALSE, head |-> 0, tail |-> 0]

TypeOK ==
  /\ idAt \in [Slots -> Source] /\ lenAt \in [Slots -> Source]
  /\ fullAt \in [Slots -> BOOLEAN]
  /\ headAt \in [Slots -> Source] /\ tailAt \in [Slots -> Source]
  /\ recvPos \in Slots /\ sendPos \in Slots
  /\ popPc \in {"Idle", "Id", "Len", "Data", "Advance"}
  /\ got \in Copies /\ last \in Copies
  /\ received \in Source
  /\ overrun \in BOOLEAN /\ broken \in BOOLEAN

Init ==
  /\ idAt = [s \in Slots |-> 0] /\ lenAt = [s \in Slots |-> 0]
  /\ fullAt = [s \in Slots |-> FALSE]
  /\ headAt = [s \in Slots |-> 0] /\ tailAt = [s \in Slots |-> 0]
  /\ recvPos = 0 /\ sendPos = 0 /\ popPc = "Idle"
  /\ got = NoFrame /\ last = NoFrame /\ received = 0
  /\ overrun = FALSE /\ broken = FALSE

\* Variant with a fault: the positions run one slot too far.
After_TooFar(pos) == IF pos = Size THEN 0 ELSE pos + 1

\* RecvPos++ and SendPos++.
After(pos) == IF pos + 1 = Size THEN 0 ELSE pos + 1

-----------------------------------------------------------------------------

\* The memcpys of a Push into slot RecvPos.
Store(n, full) ==
  /\ idAt' = [idAt EXCEPT ![recvPos] = n]
  /\ lenAt' = [lenAt EXCEPT ![recvPos] = n]
  /\ fullAt' = [fullAt EXCEPT ![recvPos] = full]
  /\ headAt' = [headAt EXCEPT ![recvPos] = n]
  /\ tailAt' = IF full THEN [tailAt EXCEPT ![recvPos] = n] ELSE tailAt

\* HAL_CAN_RxFifo0MsgPendingCallback: one received frame.  Push never tests
\* for a full ring: in a ring of Size - 1 frames the position it leaves says
\* "empty", and a Pop that has passed its test may have its slot overwritten.
CanRingBufferPush(full) ==
  LET wraps == After(recvPos) = sendPos
      hits  == recvPos = sendPos /\ popPc # "Idle"
  IN
  /\ received < MaxFrames
  /\ received' = received + 1
  /\ Store(received + 1, full)
  /\ recvPos' = After(recvPos)
  /\ overrun' = (overrun \/ wraps)
  /\ broken' = (broken \/ hits)
  /\ UNCHANGED <<sendPos, popPc, got, last>>

\* Variant with a fault: no test.
PopEmpty_Never ==
  /\ popPc = "Idle" /\ received > 0 /\ popPc' = "Id"
  /\ UNCHANGED <<slots, recvPos, sendPos, got, received, last, overrun, broken>>

\* The test for an empty ring: Pop returns 0 or goes on.
PopEmpty ==
  /\ popPc = "Idle"
  /\ IF sendPos = recvPos THEN UNCHANGED popPc ELSE popPc' = "Id"
  /\ UNCHANGED <<slots, recvPos, sendPos, got, received, last, overrun, broken>>

PopId ==
  /\ popPc = "Id" /\ popPc' = "Len"
  /\ got' = [got EXCEPT !.id = idAt[sendPos]]
  /\ UNCHANGED <<slots, recvPos, sendPos, received, last, overrun, broken>>

\* Variant with a fault: the slot is given back before the payload is copied.
PopLen_Early ==
  /\ popPc = "Len" /\ popPc' = "Data"
  /\ got' = [got EXCEPT !.len = lenAt[sendPos], !.full = fullAt[sendPos]]
  /\ sendPos' = After(sendPos)
  /\ UNCHANGED <<slots, recvPos, received, last, overrun, broken>>

PopLen ==
  /\ popPc = "Len" /\ popPc' = "Data"
  /\ got' = [got EXCEPT !.len = lenAt[sendPos], !.full = fullAt[sendPos]]
  /\ UNCHANGED <<slots, recvPos, sendPos, received, last, overrun, broken>>

PopData ==
  /\ popPc = "Data" /\ popPc' = "Advance"
  /\ got' = [got EXCEPT !.head = headAt[sendPos], !.tail = tailAt[sendPos]]
  /\ UNCHANGED <<slots, recvPos, sendPos, received, last, overrun, broken>>

\* Variant with a fault: the ring is emptied at once.
PopAdvance_Skip ==
  /\ popPc = "Advance" /\ popPc' = "Idle"
  /\ sendPos' = recvPos
  /\ last' = got
  /\ UNCHANGED <<slots, recvPos, got, received, overrun, broken>>

\* SendPos++, and the frame is the caller's.
PopAdvance ==
  /\ popPc = "Advance" /\ popPc' = "Idle"
  /\ sendPos' = After(sendPos)
  /\ last' = got
  /\ UNCHANGED <<slots, recvPos, got, received, overrun, broken>>

CanRingBufferPop == PopEmpty \/ PopId \/ PopLen \/ PopData \/ PopAdvance

Push == \E full \in BOOLEAN : CanRingBufferPush(full)

Next == Push \/ CanRingBufferPop

Spec == Init /\ [][Next]_vars

\* LoopCharge and the waits of tp_send_rts_cts call Pop again and again.
FairSpec == Spec /\ WF_vars(CanRingBufferPop)

-----------------------------------------------------------------------------

Whole(f) == f.len = f.id /\ f.head = f.id /\ (f.full => f.tail = f.id)

\* A frame handed to the engine is one frame of the bus: identifier, length
\* and payload were received together, unless Size + 1 frames were in the ring
\* while Pop was copying.
FramesWhole == broken \/ Whole(last)

\* The frames waiting in the ring, oldest first.  Equal positions mean "empty"
\* to the test of Pop, and a full ring once Pop has passed it.
Outstanding ==
  CASE recvPos > sendPos -> recvPos - sendPos
    [] recvPos < sendPos -> recvPos + Size - sendPos
    [] recvPos = sendPos -> IF popPc = "Idle" THEN 0 ELSE Size

SlotOf(k) == IF sendPos + k - 1 < Size THEN sendPos + k - 1
                                       ELSE sendPos + k - 1 - Size

Waiting == [k \in 1 .. Outstanding |-> idAt[SlotOf(k)]]

Abstract == INSTANCE RxQueue
              WITH Capacity <- Size - 1, queue <- Waiting, last <- last.id

\* The frames between the positions are the queue of RxQueue: they leave in the
\* order of their reception, each one once, and are lost only all together,
\* when Size of them are unread.
ImplementsRxQueue == Abstract!Spec

\* A frame received is a frame handled: if the ring never runs full, the engine
\* gets to the last frame of the bus.
AllDelivered == <>[](~overrun /\ received > 0) => <>[](last.id = received)
=============================================================================
