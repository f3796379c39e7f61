--------------------------- MODULE CanRingProofs ---------------------------
(***************************************************************************)
(* Proofs about the receive ring, for every size of the ring: its frames   *)
(* stay whole, and it implements the queue of RxQueue.                     *)
(***************************************************************************)
EXTENDS CanRing, SequenceTheorems, TLAPS

LEMMA SizeFits == Size \in Nat /\ Size > 1 /\ 0 \in Slots /\ MaxFrames \in Nat
  BY RingAssumption DEF Slots

LEMMA AfterInSlots == \A p \in Slots : After(p) \in Slots
  BY SizeFits DEF After, Slots

-----------------------------------------------------------------------------
(* Types *)

LEMMA TypesInit == Init => TypeOK
<1>1. NoFrame \in Copies /\ 0 \in Source
  BY SizeFits DEF Source, Copies, NoFrame
<1>. QED
  BY <1>1, SizeFits DEF Init, TypeOK

LEMMA PushTypes ==
  ASSUME TypeOK, NEW full \in BOOLEAN, CanRingBufferPush(full)
  PROVE  TypeOK'
<1>1. received + 1 \in Source /\ recvPos \in Slots
  BY SizeFits DEF TypeOK, Source, CanRingBufferPush
<1>2. /\ idAt' \in [Slots -> Source] /\ lenAt' \in [Slots -> Source]
      /\ fullAt' \in [Slots -> BOOLEAN]
      /\ headAt' \in [Slots -> Source] /\ tailAt' \in [Slots -> Source]
  BY <1>1 DEF TypeOK, CanRingBufferPush, Store
<1>3. recvPos' \in Slots /\ overrun' \in BOOLEAN /\ broken' \in BOOLEAN
  BY <1>1, AfterInSlots DEF TypeOK, CanRingBufferPush
<1>. QED
  BY <1>1, <1>2, <1>3 DEF TypeOK, CanRingBufferPush

LEMMA PopTypes ==
  ASSUME TypeOK, CanRingBufferPop
  PROVE  TypeOK'
<1>1. CASE PopEmpty
  BY <1>1 DEF TypeOK, PopEmpty, slots
<1>2. CASE PopId
  BY <1>2 DEF TypeOK, PopId, slots, Copies
<1>3. CASE PopLen
  BY <1>3 DEF TypeOK, PopLen, slots, Copies
<1>4. CASE PopData
  BY <1>4 DEF TypeOK, PopData, slots, Copies
<1>5. CASE PopAdvance
  BY <1>5, AfterInSlots DEF TypeOK, PopAdvance, slots
<1>. QED
  BY <1>1, <1>2, <1>3, <1>4, <1>5 DEF CanRingBufferPop

LEMMA TypesNext == TypeOK /\ [Next]_vars => TypeOK'
  BY PushTypes, PopTypes DEF Next, Push, vars, slots, TypeOK

\* The positions stay in the ring and every copy is a frame's (Push and Pop).
THEOREM RingTypes == Spec => []TypeOK
  BY TypesInit, TypesNext, PTL DEF Spec

-----------------------------------------------------------------------------
(* Whole frames *)

\* What a slot holds came from one frame.
SlotWhole(s) ==
  /\ lenAt[s] = idAt[s] /\ headAt[s] = idAt[s]
  /\ fullAt[s] => tailAt[s] = idAt[s]

\* Pop works on one slot, which no Push touches until the ring holds more
\* frames than it has slots: what it has copied so far is still in the slot.
CopyInv ==
  /\ popPc \in {"Len", "Data", "Advance"} => got.id = idAt[sendPos]
  /\ popPc \in {"Data", "Advance"} =>
       got.len = lenAt[sendPos] /\ got.full = fullAt[sendPos]
  /\ popPc = "Advance" =>
       got.head = headAt[sendPos] /\ got.tail = tailAt[sendPos]

WholeInv ==
  /\ \A s \in Slots : SlotWhole(s)
  /\ broken \/ (CopyInv /\ Whole(last))

LEMMA WholeInit == Init => WholeInv
  BY DEF Init, WholeInv, SlotWhole, CopyInv, Whole, NoFrame

LEMMA PushWhole ==
  ASSUME TypeOK, WholeInv, NEW full \in BOOLEAN, CanRingBufferPush(full)
  PROVE  WholeInv'
<1>1. \A s \in Slots : SlotWhole(s)'
  <2> SUFFICES ASSUME NEW s \in Slots PROVE SlotWhole(s)'
    OBVIOUS
  <2>1. CASE s = recvPos
    BY <2>1 DEF TypeOK, CanRingBufferPush, Store, SlotWhole
  <2>2. CASE s # recvPos
    BY <2>2 DEF TypeOK, CanRingBufferPush, Store, SlotWhole, WholeInv
  <2>. QED
    BY <2>1, <2>2
<1>2. ASSUME ~broken'
      PROVE  CopyInv' /\ Whole(last)'
  <2>1. ~broken /\ ~(recvPos = sendPos /\ popPc # "Idle")
    BY <1>2 DEF CanRingBufferPush
  <2>2. Whole(last)' /\ CopyInv
    BY <2>1 DEF CanRingBufferPush, WholeInv, Whole
  <2>3. CASE popPc = "Idle"
    BY <2>2, <2>3 DEF CanRingBufferPush, CopyInv
  <2>4. CASE recvPos # sendPos
    <3>1. /\ idAt'[sendPos] = idAt[sendPos] /\ lenAt'[sendPos] = lenAt[sendPos]
          /\ fullAt'[sendPos] = fullAt[sendPos]
          /\ headAt'[sendPos] = headAt[sendPos]
          /\ tailAt'[sendPos] = tailAt[sendPos]
      BY <2>4 DEF TypeOK, CanRingBufferPush, Store
    <3>. QED
      BY <2>2, <3>1 DEF CanRingBufferPush, CopyInv
  <2>. QED
    BY <2>1, <2>2, <2>3, <2>4
<1>. QED
  BY <1>1, <1>2 DEF WholeInv

LEMMA PopWhole ==
  ASSUME TypeOK, WholeInv, CanRingBufferPop
  PROVE  WholeInv'
<1>0. (\A s \in Slots : SlotWhole(s)') /\ broken' = broken
  BY DEF CanRingBufferPop, PopEmpty, PopId, PopLen, PopData, PopAdvance, slots,
         WholeInv, SlotWhole
<1>1. CASE broken
  BY <1>0, <1>1 DEF WholeInv
<1>2. CASE ~broken
  <2>0. CopyInv /\ Whole(last) /\ got \in Copies
    BY <1>2 DEF WholeInv, TypeOK
  <2>1. CASE PopEmpty
    BY <1>0, <2>0, <2>1 DEF PopEmpty, slots, WholeInv, CopyInv, Whole
  <2>2. CASE PopId
    BY <1>0, <2>0, <2>2 DEF PopId, slots, WholeInv, CopyInv, Whole, Copies
  <2>3. CASE PopLen
    BY <1>0, <2>0, <2>3 DEF PopLen, slots, WholeInv, CopyInv, Whole, Copies
  <2>4. CASE PopData
    BY <1>0, <2>0, <2>4 DEF PopData, slots, WholeInv, CopyInv, Whole, Copies
  <2>5. CASE PopAdvance
    <3>1. SlotWhole(sendPos)
      BY DEF WholeInv, TypeOK
    <3>2. Whole(got)
      BY <2>0, <2>5, <3>1 DEF PopAdvance, CopyInv, SlotWhole, Whole
    <3>. QED
      BY <1>0, <2>5, <3>2 DEF PopAdvance, WholeInv, CopyInv, Whole
  <2>. QED
    BY <2>1, <2>2, <2>3, <2>4, <2>5 DEF CanRingBufferPop
<1>. QED
  BY <1>1, <1>2

LEMMA WholeNext == TypeOK /\ WholeInv /\ [Next]_vars => WholeInv'
<1>1. WholeInv /\ UNCHANGED vars => WholeInv'
  BY DEF vars, slots, WholeInv, SlotWhole, CopyInv, Whole
<1>. QED
  BY <1>1, PushWhole, PopWhole DEF Next, Push

\* A frame handed to the engine is one frame of the bus, for every ring size
\* and every interleaving of the interrupt with the copies of Pop, unless the
\* ring held one frame more than it has slots during the copies.
THEOREM FramesStayWhole == Spec => []FramesWhole
<1>1. WholeInv => FramesWhole
  BY DEF WholeInv, FramesWhole
<1>. QED
  BY <1>1, WholeInit, WholeNext, RingTypes, PTL DEF Spec

-----------------------------------------------------------------------------
(* The queue *)

LEMMA SlotOfInSlots ==
  TypeOK => /\ Outstanding \in 0 .. Size
            /\ \A k \in 1 .. Outstanding : SlotOf(k) \in Slots
<1> SUFFICES ASSUME TypeOK
             PROVE  /\ Outstanding \in 0 .. Size
                    /\ \A k \in 1 .. Outstanding : SlotOf(k) \in Slots
  OBVIOUS
<1>1. recvPos \in 0 .. Size - 1 /\ sendPos \in 0 .. Size - 1
  BY DEF TypeOK, Slots
<1>2. Outstanding \in 0 .. Size
  BY <1>1, SizeFits DEF Outstanding
<1>3. \A k \in 1 .. Outstanding : SlotOf(k) \in Slots
  BY <1>1, <1>2, SizeFits DEF SlotOf, Slots
<1>. QED
  BY <1>2, <1>3

\* The refinement mapping yields a sequence.
LEMMA WaitingSeq ==
  TypeOK => /\ Waiting \in Seq(Source) /\ Len(Waiting) = Outstanding
            /\ \A k \in 1 .. Outstanding : Waiting[k] = idAt[SlotOf(k)]
<1> SUFFICES ASSUME TypeOK
             PROVE  /\ Waiting \in Seq(Source) /\ Len(Waiting) = Outstanding
                    /\ \A k \in 1 .. Outstanding : Waiting[k] = idAt[SlotOf(k)]
  OBVIOUS
<1>1. Outstanding \in Nat /\ \A k \in 1 .. Outstanding : idAt[SlotOf(k)] \in Source
  BY SlotOfInSlots, SizeFits DEF TypeOK
<1>2. Waiting \in [1 .. Outstanding -> Source]
  BY <1>1 DEF Waiting
<1>3. Waiting \in Seq(Source)
  BY <1>1, <1>2
<1>4. Len(Waiting) = Outstanding
  BY <1>1, <1>2, <1>3, LenProperties
<1>. QED
  BY <1>3, <1>4 DEF Waiting

LEMMA WaitingSeqNext ==
  TypeOK' => /\ Waiting' \in Seq(Source) /\ Len(Waiting') = Outstanding'
             /\ Outstanding' \in 0 .. Size
             /\ \A k \in 1 .. Outstanding' : Waiting'[k] = idAt'[SlotOf(k)']
<1>1. (TypeOK => /\ Waiting \in Seq(Source) /\ Len(Waiting) = Outstanding
                 /\ Outstanding \in 0 .. Size
                 /\ \A k \in 1 .. Outstanding : Waiting[k] = idAt[SlotOf(k)])'
  BY WaitingSeq, SlotOfInSlots, PTL
<1>. QED
  BY <1>1

\* A received frame goes to the end, or takes all of them with it.
LEMMA PushPuts ==
  ASSUME TypeOK, TypeOK', NEW full \in BOOLEAN, CanRingBufferPush(full), ~broken'
  PROVE  Abstract!Put(received + 1)
<1> DEFINE n == received + 1
<1>1. ~broken /\ ~(recvPos = sendPos /\ popPc # "Idle")
  BY DEF CanRingBufferPush
<1>2. /\ recvPos \in 0 .. Size - 1 /\ sendPos \in 0 .. Size - 1 /\ n \in Source
      /\ recvPos' = After(recvPos) /\ sendPos' = sendPos /\ popPc' = popPc
      /\ idAt' = [idAt EXCEPT ![recvPos] = n] /\ idAt \in [Slots -> Source]
      /\ recvPos \in Slots
  BY SizeFits DEF TypeOK, CanRingBufferPush, Store, Slots, Source
<1>3. Outstanding \in 0 .. Size - 1 /\ SlotOf(Outstanding + 1) = recvPos
  BY <1>1, <1>2, SizeFits DEF Outstanding, SlotOf
<1>4. \A k \in 1 .. Outstanding : SlotOf(k) # recvPos /\ SlotOf(k) \in Slots
  BY <1>1, <1>2, SizeFits DEF Outstanding, SlotOf, Slots
<1>5. \A k : SlotOf(k)' = SlotOf(k)
  BY <1>2 DEF SlotOf
<1>8. broken' = broken /\ last' = last
  BY <1>1 DEF TypeOK, CanRingBufferPush
<1>6. CASE After(recvPos) = sendPos /\ popPc = "Idle"
  <2>1. Outstanding = Size - 1 /\ Outstanding' = 0
    BY <1>2, <1>6, SizeFits DEF Outstanding, After
  <2>2. Waiting' = <<>> /\ Len(Waiting) = Size - 1
    BY <2>1, WaitingSeq, WaitingSeqNext, EmptySeq
  <2>. QED
    BY <1>1, <1>8, <2>2 DEF Abstract!Put
<1>7. CASE ~(After(recvPos) = sendPos /\ popPc = "Idle")
  <2>1. Outstanding' = Outstanding + 1
    BY <1>1, <1>2, <1>7, SizeFits DEF Outstanding, After
  <2>2. \A k \in 1 .. Outstanding : Waiting'[k] = Waiting[k]
    BY <1>2, <1>4, <1>5, <1>3, <2>1, WaitingSeq, WaitingSeqNext
  <2>3. Waiting'[Outstanding + 1] = n
    BY <1>2, <1>3, <1>5, <2>1, WaitingSeqNext
  <2>4. /\ Append(Waiting, n) \in Seq(Source)
        /\ Len(Append(Waiting, n)) = Outstanding + 1
        /\ \A k \in 1 .. Outstanding : Append(Waiting, n)[k] = Waiting[k]
        /\ Append(Waiting, n)[Outstanding + 1] = n
    BY <1>2, <1>3, WaitingSeq
  <2>5. \A k \in 1 .. Outstanding + 1 : Waiting'[k] = Append(Waiting, n)[k]
    BY <1>3, <2>2, <2>3, <2>4
  <2>6. Waiting' = Append(Waiting, n)
    BY <2>1, <2>4, <2>5, WaitingSeqNext, SeqEqual
  <2>7. Len(Waiting) <= Size - 1
    BY <1>3, WaitingSeq, SizeFits
  <2>. QED
    BY <1>1, <1>8, <2>6, <2>7 DEF Abstract!Put
<1>. QED
  BY <1>6, <1>7

\* SendPos++ takes the oldest frame, the one Pop has copied.
LEMMA AdvanceGets ==
  ASSUME TypeOK, TypeOK', WholeInv, ~broken, PopAdvance
  PROVE  Abstract!Get
<1>1. /\ recvPos \in 0 .. Size - 1 /\ sendPos \in 0 .. Size - 1
      /\ recvPos' = recvPos /\ sendPos' = After(sendPos)
      /\ popPc = "Advance" /\ popPc' = "Idle" /\ idAt' = idAt
      /\ last' = got /\ broken' = broken
  BY DEF TypeOK, Slots, PopAdvance, slots
<1>2. Outstanding \in 1 .. Size /\ Outstanding' = Outstanding - 1
  <2>1. CASE recvPos > sendPos
    BY <1>1, <2>1, SizeFits DEF Outstanding, After
  <2>2. CASE recvPos < sendPos
    <3>1. Outstanding = recvPos + Size - sendPos
      BY <1>1, <2>2, SizeFits DEF Outstanding
    <3>2. CASE sendPos + 1 = Size
      <4>1. sendPos' = 0 /\ Outstanding = recvPos + 1
        BY <1>1, <3>1, <3>2, SizeFits DEF After
      <4>2. Outstanding' = recvPos
        BY <1>1, <4>1 DEF Outstanding
      <4>. QED
        BY <1>1, <4>1, <4>2, SizeFits
    <3>3. CASE sendPos + 1 # Size
      <4>1. sendPos' = sendPos + 1 /\ recvPos' < sendPos'
        BY <1>1, <2>2, <3>3, SizeFits DEF After
      <4>2. Outstanding' = recvPos + Size - (sendPos + 1)
        BY <1>1, <4>1, SizeFits DEF Outstanding
      <4>. QED
        BY <1>1, <2>2, <3>1, <4>2, SizeFits
    <3>. QED
      BY <3>2, <3>3
  <2>3. CASE recvPos = sendPos
    BY <1>1, <2>3, SizeFits DEF Outstanding, After
  <2>. QED
    BY <1>1, <2>1, <2>2, <2>3
<1>3. \A k \in 1 .. Outstanding' : SlotOf(k)' = SlotOf(k + 1)
  BY <1>1, <1>2, SizeFits DEF SlotOf, After
<1>4. SlotOf(1) = sendPos
  BY <1>1, SizeFits DEF SlotOf
<1>5. Waiting \in Seq(Source) /\ Len(Waiting) = Outstanding /\ Waiting # <<>>
  BY <1>2, WaitingSeq, EmptySeq
<1>6. Head(Waiting) = last'.id
  <2>1. Head(Waiting) = Waiting[1]
    BY <1>5
  <2>2. Waiting[1] = idAt[sendPos]
    BY <1>2, <1>4, WaitingSeq
  <2>. QED
    BY <1>1, <2>1, <2>2 DEF WholeInv, CopyInv
<1>7. Tail(Waiting) = Waiting'
  <2>1. /\ Tail(Waiting) \in Seq(Source) /\ Len(Tail(Waiting)) = Outstanding - 1
        /\ \A k \in 1 .. Outstanding - 1 : Tail(Waiting)[k] = Waiting[k + 1]
    BY <1>2, <1>5, HeadTailProperties
  <2>2. \A k \in 1 .. Outstanding - 1 : Waiting'[k] = Waiting[k + 1]
    BY <1>1, <1>2, <1>3, WaitingSeq, WaitingSeqNext
  <2>. QED
    BY <1>2, <2>1, <2>2, WaitingSeqNext, SeqEqual
<1>. QED
  BY <1>1, <1>5, <1>6, <1>7 DEF Abstract!Get

\* The other steps of Pop leave the queue as it is.
LEMMA CopyStutters ==
  ASSUME TypeOK, PopEmpty \/ PopId \/ PopLen \/ PopData \/ UNCHANGED vars
  PROVE  UNCHANGED <<Waiting, last.id, broken>>
<1>1. UNCHANGED <<idAt, recvPos, sendPos, last, broken>>
  BY DEF PopEmpty, PopId, PopLen, PopData, slots, vars
<1>2. recvPos = sendPos => (popPc = "Idle" <=> popPc' = "Idle")
  BY DEF PopEmpty, PopId, PopLen, PopData, vars
<1>3. Outstanding' = Outstanding
  BY <1>1, <1>2 DEF Outstanding
<1>4. \A k : SlotOf(k)' = SlotOf(k)
  BY <1>1 DEF SlotOf
<1>5. Waiting' = Waiting
  BY <1>1, <1>3, <1>4 DEF Waiting
<1>. QED
  BY <1>1, <1>5

\* The ring implements the queue of RxQueue, whatever its size: frames leave it
\* in the order of their reception, each one once, and get lost only all
\* together when Size of them are unread (CanRingBufferPush, CanRingBufferPop).
THEOREM RingImplementsQueue == Spec => ImplementsRxQueue
<1>1. Init => Abstract!Init
  <2> SUFFICES ASSUME Init PROVE Abstract!Init
    OBVIOUS
  <2>1. TypeOK
    BY TypesInit
  <2>2. Outstanding = 0
    BY DEF Init, Outstanding
  <2>3. Waiting = <<>>
    BY <2>1, <2>2, WaitingSeq, EmptySeq
  <2>. QED
    BY <2>3 DEF Init, NoFrame, Abstract!Init
<1>2. TypeOK /\ TypeOK' /\ WholeInv /\ [Next]_vars
        => [Abstract!Next]_(Abstract!qvars)
  <2> SUFFICES ASSUME TypeOK, TypeOK', WholeInv, [Next]_vars
               PROVE  Abstract!Next \/ UNCHANGED Abstract!qvars
    OBVIOUS
  <2>1. CASE broken
    <3>1. broken'
      BY <2>1 DEF Next, Push, CanRingBufferPush, CanRingBufferPop, PopEmpty, PopId,
           PopLen, PopData, PopAdvance, vars
    <3>. QED
      BY <2>1, <3>1 DEF Abstract!Next, Abstract!Anything
  <2>2. CASE ~broken /\ broken'
    <3>1. broken' = TRUE
      BY <2>2 DEF TypeOK
    <3>. QED
      BY <2>2, <3>1 DEF Abstract!Next, Abstract!Break
  <2>3. ASSUME ~broken, ~broken', NEW full \in BOOLEAN, CanRingBufferPush(full)
        PROVE  Abstract!Next
    <3>1. received + 1 \in Stamps
      BY <2>3, SizeFits DEF TypeOK, Source, Stamps, CanRingBufferPush
    <3>. QED
      BY <2>3, <3>1, PushPuts DEF Abstract!Next
  <2>4. CASE ~broken /\ PopAdvance
    BY <2>4, AdvanceGets DEF Abstract!Next
  <2>5. CASE PopEmpty \/ PopId \/ PopLen \/ PopData \/ UNCHANGED vars
    BY <2>5, CopyStutters DEF Abstract!qvars
  <2>. QED
    BY <2>1, <2>2, <2>3, <2>4, <2>5 DEF Next, Push, CanRingBufferPop
<1>. QED
  BY <1>1, <1>2, RingTypes, WholeInit, WholeNext, PTL
     DEF Spec, ImplementsRxQueue, Abstract!Spec

=============================================================================
