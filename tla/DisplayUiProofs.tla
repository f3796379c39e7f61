-------------------------- MODULE DisplayUiProofs --------------------------
(***************************************************************************)
(* Proofs about the display, for every size of the button queue, every     *)
(* menu and every time-out: its variables keep their types, and the ring   *)
(* with its unprotected flush is the queue of ButtonQueue.                 *)
(***************************************************************************)
EXTENDS DisplayUi, SequenceTheorems, TLAPS

LEMMA Sizes == /\ Size \in Nat /\ Size > 1 /\ 0 \in Slots
               /\ Rows \in Nat /\ Fields \in Nat /\ Fields > 0
               /\ Grace \in Nat /\ Grace > 0 /\ Timeout \in Nat
               /\ Keys \subseteq Buttons
               /\ Len(Items) \in Nat /\ Len(Items) > 0
<1>1. Len(Items) \in Nat /\ Len(Items) > 0
  BY UiAssumption, EmptySeq, LenProperties
<1>. QED
  BY <1>1, UiAssumption DEF Slots

LEMMA AfterInSlots == \A p \in Slots : After(p) \in Slots
  BY Sizes DEF After, Slots

LEMMA Modulo == \A a \in Nat, n \in Nat \ {0} : a % n \in 0 .. n - 1
  OBVIOUS

-----------------------------------------------------------------------------
(* Types *)

\* A job is begun on a screen that the popup can return to, and a press is in
\* hand only while it is handled.
ScreenInv ==
  /\ pc = "Job" => screen # "notif"
  /\ inHand # "none" <=> pc = "Handle"

UiInv == TypeOK /\ ScreenInv

LEMMA UiInit == Init => UiInv
<1>. SUFFICES ASSUME Init PROVE UiInv
  OBVIOUS
<1>1. slot \in [Slots -> Buttons] /\ head \in Slots /\ tail \in Slots /\ flushTo \in Slots
  BY Sizes DEF Init, Buttons
<1>2. /\ shown \in 0 .. Timeout /\ mainRow \in 0 .. Rows
      /\ paramRow \in 0 .. Fields - 1 /\ flashRow \in 0 .. Len(Items) - 1
  BY Sizes DEF Init
<1>3. screen \in Screens /\ returnTo \in Screens \ {"notif"}
  BY DEF Init, Screens
<1>4. /\ pc = "Pop" /\ inHand = "none" /\ effect = "none"
      /\ confirm \in Jobs \cup {"none"} /\ job \in Jobs \cup {"none"}
      /\ edit \in BOOLEAN /\ manual \in BOOLEAN /\ ticked \in BOOLEAN /\ banner \in BOOLEAN
  BY DEF Init
<1>. QED
  BY <1>1, <1>2, <1>3, <1>4 DEF UiInv, TypeOK, ScreenInv

LEMMA PressTypes ==
  ASSUME UiInv, NEW b \in Keys, PressInterrupt(b)
  PROVE  UiInv'
<1>1. slot' \in [Slots -> Buttons] /\ head' \in Slots /\ tail' \in Slots
  BY Sizes, AfterInSlots DEF UiInv, TypeOK, PressInterrupt
<1>. QED
  BY <1>1 DEF UiInv, TypeOK, ScreenInv, PressInterrupt, popup, rows

LEMMA RingTypes ==
  ASSUME UiInv, Pop \/ FlushLoad \/ FlushStore
  PROVE  UiInv'
<1>. USE DEF UiInv, TypeOK, ScreenInv, ring, popup, rows
<1>1. CASE Pop
  <2>1. slot[tail] \in Buttons /\ slot[tail] # "none"
    BY DEF Buttons
  <2>2. CASE head = tail
    BY <1>1, <2>2 DEF Pop
  <2>3. CASE head # tail
    <3>1. /\ pc' = "Handle" /\ inHand' = slot[tail] /\ tail' \in Slots
      BY <1>1, <2>3, AfterInSlots DEF Pop
    <3>. QED  BY <1>1, <2>1, <3>1 DEF Pop
  <2>. QED  BY <2>2, <2>3
<1>2. CASE FlushLoad
  BY <1>2 DEF FlushLoad
<1>3. CASE FlushStore
  BY <1>3, Sizes DEF FlushStore
<1>. QED  BY <1>1, <1>2, <1>3

\* What the handlers share.
LEMMA HandlerTypes ==
  ASSUME UiInv, Elsewhere, pc' \in {"Timers", "FlushLoad"}, screen' \in Screens,
         mainRow' \in 0 .. Rows, paramRow' \in 0 .. Fields - 1,
         flashRow' \in 0 .. Len(Items) - 1, edit' \in BOOLEAN, manual' \in BOOLEAN,
         confirm' \in Jobs \cup {"none"}, banner' \in BOOLEAN,
         effect' \in {"none", "stop", "advance", "change", "log", "erase"} \cup {effect}
  PROVE  UiInv'
  BY DEF UiInv, TypeOK, ScreenInv, Elsewhere, ring, popup

LEMMA RowsTurn ==
  ASSUME UiInv
  PROVE  /\ (mainRow + 1) % (Rows + 1) \in 0 .. Rows
         /\ (paramRow + Fields - 1) % Fields \in 0 .. Fields - 1
         /\ (paramRow + 1) % Fields \in 0 .. Fields - 1
         /\ (flashRow + Len(Items) - 1) % Len(Items) \in 0 .. Len(Items) - 1
         /\ (flashRow + 1) % Len(Items) \in 0 .. Len(Items) - 1
         /\ 0 \in 0 .. Len(Items) - 1 /\ 0 \in 0 .. Rows
<1>1. /\ mainRow + 1 \in Nat /\ Rows + 1 \in Nat \ {0} /\ (Rows + 1) - 1 = Rows
      /\ paramRow + Fields - 1 \in Nat /\ paramRow + 1 \in Nat /\ Fields \in Nat \ {0}
      /\ flashRow + Len(Items) - 1 \in Nat /\ flashRow + 1 \in Nat
      /\ Len(Items) \in Nat \ {0}
  BY Sizes DEF UiInv, TypeOK
<1>2. (mainRow + 1) % (Rows + 1) \in 0 .. (Rows + 1) - 1
  BY <1>1, Modulo
<1>3. /\ (paramRow + Fields - 1) % Fields \in 0 .. Fields - 1
      /\ (paramRow + 1) % Fields \in 0 .. Fields - 1
  BY <1>1, Modulo
<1>4. /\ (flashRow + Len(Items) - 1) % Len(Items) \in 0 .. Len(Items) - 1
      /\ (flashRow + 1) % Len(Items) \in 0 .. Len(Items) - 1
  BY <1>1, Modulo
<1>. QED  BY <1>1, <1>2, <1>3, <1>4, Sizes

LEMMA HandleTypes ==
  ASSUME UiInv, Handle
  PROVE  UiInv'
<1>0. /\ screen \in Screens /\ returnTo \in Screens /\ confirm \in Jobs \cup {"none"}
      /\ mainRow \in 0 .. Rows /\ paramRow \in 0 .. Fields - 1
      /\ flashRow \in 0 .. Len(Items) - 1
      /\ edit \in BOOLEAN /\ manual \in BOOLEAN /\ banner \in BOOLEAN
      /\ {"main", "params", "flash"} \subseteq Screens /\ pc = "Handle"
  BY DEF UiInv, TypeOK, Screens, Handle
<1>1. CASE HandleNotif
  BY <1>0, <1>1, HandlerTypes DEF HandleNotif, rows
<1>2. CASE HandleMain(inHand)
  <2>1. mainRow' \in {mainRow, (mainRow + 1) % (Rows + 1)}
        /\ UNCHANGED <<paramRow, flashRow, manual, confirm>> /\ edit' \in BOOLEAN
    BY <1>0, <1>2 DEF HandleMain, Plain, rows
  <2>2. /\ effect' \in {"stop", "advance", "change", effect}
        /\ banner' = FALSE /\ pc' = "Timers" /\ screen' \in {"main", "params"}
        /\ Elsewhere
    <3>1. manual \/ ~manual
      OBVIOUS
    <3>2. mainRow < Rows \/ mainRow = Rows
      BY <1>0, Sizes
    <3>. QED  BY <1>2, <3>1, <3>2 DEF HandleMain, Plain
  <2>. QED  BY <1>0, <2>1, <2>2, RowsTurn, HandlerTypes
<1>3. CASE HandleParams(inHand)
  <2>1. /\ paramRow' \in {paramRow, (paramRow + Fields - 1) % Fields,
                          (paramRow + 1) % Fields}
        /\ flashRow' \in {flashRow, 0} /\ edit' \in BOOLEAN
        /\ UNCHANGED <<mainRow, manual, confirm>>
    BY <1>0, <1>3 DEF HandleParams, Plain, rows
  <2>2. /\ effect' \in {"change", effect} /\ banner' = FALSE /\ pc' = "Timers"
        /\ screen' \in {"flash", "params"} /\ Elsewhere
    BY <1>3 DEF HandleParams, Plain
  <2>. QED  BY <1>0, <2>1, <2>2, RowsTurn, HandlerTypes
<1>4. CASE HandleFlashMove(inHand)
  <2>1. /\ flashRow' \in {flashRow, (flashRow + Len(Items) - 1) % Len(Items),
                          (flashRow + 1) % Len(Items)}
        /\ mainRow' \in {mainRow, 0} /\ confirm' \in {confirm, "none"}
        /\ UNCHANGED <<paramRow, edit, manual, effect>>
    BY <1>4 DEF HandleFlashMove, Plain
  <2>2. /\ banner' = FALSE /\ pc' = "Timers" /\ screen' \in {"main", screen}
        /\ Elsewhere
    BY <1>4 DEF HandleFlashMove, Plain
  <2>. QED  BY <1>0, <2>1, <2>2, RowsTurn, HandlerTypes
<1>5. CASE HandleFlashSelect
  <2>1. /\ manual' \in BOOLEAN /\ banner' \in BOOLEAN
        /\ confirm' \in Jobs \cup {"none"} /\ effect' \in {"none", "log", "erase"}
    BY <1>0, <1>5 DEF HandleFlashSelect
  <2>2. /\ UNCHANGED <<screen, mainRow, paramRow, flashRow, edit>> /\ Elsewhere
        /\ pc' = "Timers"
    BY <1>5 DEF HandleFlashSelect
  <2>. QED  BY <1>0, <2>1, <2>2, HandlerTypes
<1>6. CASE HandleFlashConfirm
  <2>1. confirm \in Jobs /\ pc' = "Job" /\ screen' = screen /\ screen # "notif"
    BY <1>0, <1>6 DEF HandleFlashConfirm
  <2>. QED
    BY <1>6, <2>1
       DEF HandleFlashConfirm, UiInv, TypeOK, ScreenInv, ring, popup, rows, Jobs
<1>. QED  BY <1>1, <1>2, <1>3, <1>4, <1>5, <1>6 DEF Handle

LEMMA TimeTypes ==
  ASSUME UiInv, JobDone \/ Tick \/ \E connecting \in BOOLEAN : Timers(connecting)
  PROVE  UiInv'
<1>. USE DEF UiInv, TypeOK, ScreenInv, ring, popup, rows
<1>1. CASE JobDone
  BY <1>1, Sizes DEF JobDone, Screens
<1>2. CASE Tick
  BY <1>2, Sizes DEF Tick
<1>3. ASSUME NEW connecting \in BOOLEAN, Timers(connecting)
      PROVE  UiInv'
  <2>1. Dismissed \in Screens
    BY DEF Dismissed, Screens
  <2>2. screen' \in Screens
    <3>1. connecting \/ ~connecting
      OBVIOUS
    <3>. QED  BY <1>3, <2>1, <3>1 DEF Timers, Screens
  <2>. QED  BY <1>3, <2>2 DEF Timers
<1>. QED  BY <1>1, <1>2, <1>3

LEMMA UiNext == UiInv /\ [Next]_vars => UiInv'
<1>1. UiInv /\ UNCHANGED vars => UiInv'
  BY DEF UiInv, TypeOK, ScreenInv, vars, ring, popup, rows
<1>. QED
  BY <1>1, PressTypes, RingTypes, HandleTypes, TimeTypes DEF Next, Press, UI_Loop

LEMMA UiInvHolds == Spec => []UiInv
  BY UiInit, UiNext, PTL DEF Spec

\* Rows stay in their menus, the positions in the ring, and the popup always
\* has a screen to go back to (display_ui.c).
THEOREM UiTypes == Spec => []TypeOK
<1>1. UiInv => TypeOK
  BY DEF UiInv
<1>. QED
  BY <1>1, UiInvHolds, PTL

-----------------------------------------------------------------------------
(* The queue *)

\* The mapping yields a sequence of presses.
LEMMA WaitingSeq ==
  UiInv => /\ Count \in 0 .. Size - 1
           /\ Waiting \in Seq(Buttons) /\ Len(Waiting) = Count
           /\ \A k \in 1 .. Count : SlotOf(k) \in Slots /\ Waiting[k] = slot[SlotOf(k)]
<1> SUFFICES ASSUME UiInv
             PROVE  /\ Count \in 0 .. Size - 1
                    /\ Waiting \in Seq(Buttons) /\ Len(Waiting) = Count
                    /\ \A k \in 1 .. Count :
                         SlotOf(k) \in Slots /\ Waiting[k] = slot[SlotOf(k)]
  OBVIOUS
<1>1. head \in 0 .. Size - 1 /\ tail \in 0 .. Size - 1 /\ slot \in [Slots -> Buttons]
  BY DEF UiInv, TypeOK, Slots
<1>2. Count \in 0 .. Size - 1
  BY <1>1, Sizes DEF Count
<1>3. \A k \in 1 .. Count : SlotOf(k) \in Slots
  BY <1>1, <1>2, Sizes DEF Count, SlotOf, Slots
<1>4. Waiting \in [1 .. Count -> Buttons]
  BY <1>1, <1>3 DEF Waiting
<1>5. Waiting \in Seq(Buttons) /\ Len(Waiting) = Count
  <2>1. Count \in Nat
    BY <1>2
  <2>2. Waiting \in Seq(Buttons)
    BY <1>4, <2>1
  <2>. QED  BY <1>4, <2>1, <2>2, LenProperties
<1>. QED
  BY <1>2, <1>3, <1>5 DEF Waiting

LEMMA WaitingSeqNext ==
  UiInv' => /\ Count' \in 0 .. Size - 1
            /\ Waiting' \in Seq(Buttons) /\ Len(Waiting') = Count'
            /\ \A k \in 1 .. Count' : Waiting'[k] = slot'[SlotOf(k)']
<1>1. (UiInv => /\ Count \in 0 .. Size - 1
                /\ Waiting \in Seq(Buttons) /\ Len(Waiting) = Count
                /\ \A k \in 1 .. Count :
                     SlotOf(k) \in Slots /\ Waiting[k] = slot[SlotOf(k)])'
  BY WaitingSeq, PTL
<1>. QED
  BY <1>1

\* What a press does to a queue with room.
LEMMA PressWithRoom ==
  ASSUME UiInv, UiInv', NEW b \in Keys, PressInterrupt(b), After(head) # tail
  PROVE  Abstract!Put(b)
<1>1. /\ head \in 0 .. Size - 1 /\ tail \in 0 .. Size - 1 /\ head \in Slots
      /\ slot \in [Slots -> Buttons] /\ b \in Buttons
      /\ slot' = [slot EXCEPT ![head] = b]
      /\ head' = After(head) /\ tail' = tail
      /\ UNCHANGED <<pc, inHand, flushTo>>
  BY Sizes DEF UiInv, TypeOK, Slots, PressInterrupt
<1>2. /\ Count \in 0 .. Size - 2 /\ Count' = Count + 1
      /\ SlotOf(Count + 1) = head
  BY <1>1, Sizes DEF Count, After, SlotOf
<1>3. \A k \in 1 .. Count : SlotOf(k) # head /\ SlotOf(k) \in Slots
  BY <1>1, <1>2, Sizes DEF Count, SlotOf, Slots
<1>4. \A k : SlotOf(k)' = SlotOf(k)
  BY <1>1 DEF SlotOf
<1>5. \A k \in 1 .. Count : Waiting'[k] = Waiting[k]
  BY <1>1, <1>2, <1>3, <1>4, WaitingSeq, WaitingSeqNext
<1>6. Waiting'[Count + 1] = b
  BY <1>1, <1>2, <1>4, WaitingSeqNext
<1>7. /\ Append(Waiting, b) \in Seq(Buttons)
      /\ Len(Append(Waiting, b)) = Count + 1
      /\ \A k \in 1 .. Count : Append(Waiting, b)[k] = Waiting[k]
      /\ Append(Waiting, b)[Count + 1] = b
  BY <1>1, <1>2, WaitingSeq
<1>8. \A k \in 1 .. Count + 1 : Waiting'[k] = Append(Waiting, b)[k]
  BY <1>2, <1>5, <1>6, <1>7
<1>9. Waiting' = Append(Waiting, b)
  BY <1>2, <1>7, <1>8, WaitingSeqNext, SeqEqual
<1>10. Len(Waiting) < Size - 1
  BY <1>2, WaitingSeq, Sizes
<1>11. Flushing' = Flushing /\ inHand' = inHand
  BY <1>1 DEF Flushing
<1>. QED
  BY <1>9, <1>10, <1>11 DEF Abstract!Put, Abstract!Room

\* And to a full one.
LEMMA PressWhenFull ==
  ASSUME UiInv, UiInv', NEW b \in Keys, PressInterrupt(b), After(head) = tail
  PROVE  Abstract!Put(b)
<1>1. /\ head \in 0 .. Size - 1 /\ tail \in 0 .. Size - 1 /\ head \in Slots
      /\ slot \in [Slots -> Buttons] /\ b \in Buttons
      /\ slot' = [slot EXCEPT ![head] = b]
      /\ head' = tail /\ tail' = After(tail)
      /\ UNCHANGED <<pc, inHand, flushTo>>
  BY Sizes DEF UiInv, TypeOK, Slots, PressInterrupt
<1>2. Count = Size - 1 /\ Count' = Size - 1 /\ SlotOf(Size) = head
  BY <1>1, Sizes DEF Count, After, SlotOf
<1>3. \A k \in 1 .. Size - 1 : SlotOf(k)' = SlotOf(k + 1)
  BY <1>1, Sizes DEF SlotOf, After
<1>4. \A k \in 1 .. Size - 1 : SlotOf(k) # head /\ SlotOf(k) \in Slots
  BY <1>1, <1>2, Sizes DEF Count, SlotOf, Slots
<1>5. /\ Waiting \in Seq(Buttons) /\ Len(Waiting) = Size - 1 /\ Waiting # <<>>
      /\ Waiting' \in Seq(Buttons) /\ Len(Waiting') = Size - 1
  BY <1>2, WaitingSeq, WaitingSeqNext, EmptySeq, Sizes
<1>6. /\ Tail(Waiting) \in Seq(Buttons) /\ Len(Tail(Waiting)) = Size - 2
      /\ \A k \in 1 .. Size - 2 : Tail(Waiting)[k] = Waiting[k + 1]
  BY <1>5, HeadTailProperties, Sizes
<1>7. /\ Append(Tail(Waiting), b) \in Seq(Buttons)
      /\ Len(Append(Tail(Waiting), b)) = Size - 1
      /\ \A k \in 1 .. Size - 2 : Append(Tail(Waiting), b)[k] = Tail(Waiting)[k]
      /\ Append(Tail(Waiting), b)[Size - 1] = b
  BY <1>1, <1>6, Sizes
<1>8. \A k \in 1 .. Size - 2 : Waiting'[k] = Waiting[k + 1]
  <2> SUFFICES ASSUME NEW k \in 1 .. Size - 2 PROVE Waiting'[k] = Waiting[k + 1]
    OBVIOUS
  <2>1. k \in 1 .. Count' /\ k + 1 \in 1 .. Count /\ k \in 1 .. Size - 1
        /\ k + 1 \in 1 .. Size - 1
    BY <1>2, Sizes
  <2>2. Waiting'[k] = slot'[SlotOf(k + 1)]
    BY <1>3, <2>1, WaitingSeqNext
  <2>3. SlotOf(k + 1) # head /\ SlotOf(k + 1) \in Slots
    BY <1>4, <2>1
  <2>4. Waiting[k + 1] = slot[SlotOf(k + 1)]
    BY <2>1, WaitingSeq
  <2>. QED  BY <1>1, <2>2, <2>3, <2>4
<1>9. Waiting'[Size - 1] = b
  <2>1. Size - 1 \in 1 .. Count' /\ Size - 1 \in 1 .. Size - 1 /\ (Size - 1) + 1 = Size
    BY <1>2, Sizes
  <2>2. Waiting'[Size - 1] = slot'[SlotOf(Size)]
    BY <1>3, <2>1, WaitingSeqNext
  <2>. QED  BY <1>1, <1>2, <2>2
<1>10. \A k \in 1 .. Size - 1 : Waiting'[k] = Append(Tail(Waiting), b)[k]
  <2> SUFFICES ASSUME NEW k \in 1 .. Size - 1
               PROVE  Waiting'[k] = Append(Tail(Waiting), b)[k]
    OBVIOUS
  <2>1. k \in 1 .. Size - 2 \/ k = Size - 1
    BY Sizes
  <2>. QED  BY <1>6, <1>7, <1>8, <1>9, <2>1
<1>11. Waiting' = Append(Tail(Waiting), b)
  BY <1>5, <1>7, <1>10, SeqEqual
<1>12. /\ ~(Len(Waiting) < Size - 1) /\ inHand' = inHand
       /\ IF Flushing = "none" THEN Flushing' = Flushing
                               ELSE Flushing' \in {"all", "newest"}
  <2>1. pc' = pc
    BY <1>1
  <2>. QED  BY <1>1, <1>5, <2>1, Sizes DEF Flushing
<1>. QED
  BY <1>11, <1>12 DEF Abstract!Put, Abstract!Room

\* UI_PopButtonEvent takes the oldest press, or finds none.
LEMMA PopGets ==
  ASSUME UiInv, UiInv', Pop
  PROVE  Abstract!Get \/ UNCHANGED Abstract!qvars
<1>1. /\ head \in 0 .. Size - 1 /\ tail \in 0 .. Size - 1
      /\ slot' = slot /\ head' = head
      /\ pc = "Pop" /\ inHand = "none" /\ pc' \in {"Timers", "Handle"}
  BY DEF UiInv, TypeOK, ScreenInv, Slots, Pop
<1>2. Flushing = "none" /\ Flushing' = "none"
  BY <1>1 DEF Flushing
<1>3. CASE head = tail
  <2>1. UNCHANGED <<slot, head, tail, inHand>>
    BY <1>3 DEF Pop
  <2>2. Count' = Count /\ \A k : SlotOf(k)' = SlotOf(k)
    BY <2>1 DEF Count, SlotOf
  <2>3. Waiting' = Waiting
    BY <2>1, <2>2 DEF Waiting
  <2>. QED  BY <1>2, <2>1, <2>3 DEF Abstract!qvars
<1>4. CASE head # tail
  <2>1. inHand' = slot[tail] /\ tail' = After(tail)
    BY <1>4 DEF Pop
  <2>2. Count \in 1 .. Size - 1 /\ Count' = Count - 1 /\ SlotOf(1) = tail
    BY <1>1, <1>4, <2>1, Sizes DEF Count, After, SlotOf
  <2>3. \A k \in 1 .. Count' : SlotOf(k)' = SlotOf(k + 1)
    BY <1>1, <2>1, <2>2, Sizes DEF SlotOf, After
  <2>4. Waiting \in Seq(Buttons) /\ Len(Waiting) = Count /\ Waiting # <<>>
    BY <2>2, WaitingSeq, EmptySeq
  <2>5. Head(Waiting) = inHand'
    <3>1. Head(Waiting) = Waiting[1]
      BY <2>4
    <3>2. Waiting[1] = slot[tail]
      BY <2>2, WaitingSeq
    <3>. QED  BY <2>1, <3>1, <3>2
  <2>6. Tail(Waiting) = Waiting'
    <3>1. /\ Tail(Waiting) \in Seq(Buttons) /\ Len(Tail(Waiting)) = Count - 1
          /\ \A k \in 1 .. Count - 1 : Tail(Waiting)[k] = Waiting[k + 1]
      BY <2>2, <2>4, HeadTailProperties
    <3>2. \A k \in 1 .. Count - 1 : Waiting'[k] = Waiting[k + 1]
      BY <1>1, <2>2, <2>3, WaitingSeq, WaitingSeqNext
    <3>. QED
      BY <2>2, <3>1, <3>2, WaitingSeqNext, SeqEqual
  <2>. QED
    BY <1>1, <1>2, <2>4, <2>5, <2>6 DEF Abstract!Get
<1>. QED  BY <1>3, <1>4

\* The tail is where the flush has read it, or interrupts have moved it since,
\* and the ring is full.
FlushInv == pc = "FlushStore" => tail = flushTo \/ After(head) = tail

LEMMA FlushInit == Init => FlushInv
  BY DEF Init, FlushInv

LEMMA FlushNext == UiInv /\ FlushInv /\ [Next]_vars => FlushInv'
<1> SUFFICES ASSUME UiInv, FlushInv, [Next]_vars
             PROVE  FlushInv'
  OBVIOUS
<1>1. ASSUME NEW b \in Keys, PressInterrupt(b)
      PROVE  FlushInv'
  BY <1>1 DEF FlushInv, PressInterrupt, After
<1>2. CASE FlushLoad
  BY <1>2 DEF FlushInv, FlushLoad, ring
<1>3. CASE Tick \/ UNCHANGED vars
  BY <1>3 DEF FlushInv, Tick, vars, ring, After
<1>4. CASE Pop \/ Handle \/ JobDone \/ FlushStore
             \/ \E connecting \in BOOLEAN : Timers(connecting)
  <2>1. pc' # "FlushStore"
    BY <1>4 DEF Pop, Handle, HandleNotif, HandleMain, HandleParams,
       HandleFlashMove, HandleFlashSelect, HandleFlashConfirm, Plain, JobDone,
       FlushStore, Timers
  <2>. QED  BY <2>1 DEF FlushInv
<1>. QED  BY <1>1, <1>2, <1>3, <1>4 DEF Next, Press, UI_Loop

\* head = tail gives up all presses, or the newest ones of a full ring.
LEMMA FlushEnds ==
  ASSUME UiInv, UiInv', FlushInv, FlushStore
  PROVE  Abstract!EndFlush
<1>1. /\ head \in 0 .. Size - 1 /\ tail \in 0 .. Size - 1 /\ flushTo \in 0 .. Size - 1
      /\ slot' = slot /\ head' = flushTo /\ tail' = tail /\ inHand' = inHand
      /\ pc = "FlushStore" /\ pc' = "Timers"
  BY DEF UiInv, TypeOK, Slots, FlushStore
<1>2. Flushing' = "none"
  BY <1>1 DEF Flushing
<1>3. CASE tail = flushTo
  <2>1. Count' = 0
    BY <1>1, <1>3, Sizes DEF Count
  <2>2. Waiting' = <<>>
    BY <2>1, WaitingSeqNext, EmptySeq
  <2>3. Flushing = "all"
    BY <1>1, <1>3 DEF Flushing
  <2>. QED  BY <1>1, <1>2, <2>2, <2>3 DEF Abstract!EndFlush
<1>4. CASE tail # flushTo
  <2>1. Flushing = "newest" /\ After(head) = tail
    BY <1>1, <1>4 DEF Flushing, FlushInv
  <2>2. Count = Size - 1 /\ Count' \in 0 .. Count
    <3>1. Count = Size - 1
      BY <1>1, <2>1, Sizes DEF Count, After
    <3>. QED  BY <3>1, WaitingSeqNext
  <2>3. \A k : SlotOf(k)' = SlotOf(k)
    BY <1>1 DEF SlotOf
  <2>4. \A k \in 1 .. Count' : Waiting'[k] = Waiting[k]
    BY <1>1, <2>2, <2>3, WaitingSeq, WaitingSeqNext
  <2>5. /\ SubSeq(Waiting, 1, Count') \in Seq(Buttons)
        /\ Len(SubSeq(Waiting, 1, Count')) = Count'
        /\ \A k \in 1 .. Count' : SubSeq(Waiting, 1, Count')[k] = Waiting[k]
    <3>1. Waiting \in Seq(Buttons) /\ Len(Waiting) = Count
      BY WaitingSeq
    <3>2. /\ Count' \in Int /\ Count' >= 0
          /\ \A k \in 1 .. Count' : k \in 1 .. Len(Waiting)
      BY <2>2, <3>1, Sizes
    <3>. QED  BY <3>1, <3>2, SubSeqProperties
  <2>6. Waiting' = SubSeq(Waiting, 1, Count')
    BY <2>2, <2>4, <2>5, WaitingSeqNext, SeqEqual
  <2>7. Count' \in 0 .. Len(Waiting)
    BY <2>2, WaitingSeq
  <2>. QED  BY <1>1, <1>2, <2>1, <2>6, <2>7 DEF Abstract!EndFlush
<1>. QED  BY <1>3, <1>4

\* The rest of UI_Loop does not touch the ring.
LEMMA RestKeepsQueue ==
  ASSUME UiInv,
         FlushLoad \/ Handle \/ JobDone \/ Tick \/ UNCHANGED vars
           \/ \E connecting \in BOOLEAN : Timers(connecting)
  PROVE  Abstract!BeginFlush \/ Abstract!Handled \/ UNCHANGED Abstract!qvars
<1>1. UNCHANGED <<slot, head, tail>>
  BY DEF FlushLoad, Handle, HandleNotif, HandleMain, HandleParams, HandleFlashMove,
     HandleFlashSelect, HandleFlashConfirm, Elsewhere, JobDone, Tick, Timers, vars,
     ring
<1>2. Count' = Count /\ \A k : SlotOf(k)' = SlotOf(k)
  BY <1>1 DEF Count, SlotOf
<1>3. Waiting' = Waiting
  BY <1>1, <1>2 DEF Waiting
<1>4. CASE FlushLoad
  BY <1>3, <1>4 DEF FlushLoad, ring, Flushing, Abstract!BeginFlush
<1>5. CASE Handle
  <2>1. inHand' = "none" /\ pc = "Handle" /\ pc' # "FlushStore"
    BY <1>5 DEF Handle, HandleNotif, HandleMain, HandleParams, HandleFlashMove,
       HandleFlashSelect, HandleFlashConfirm, Elsewhere, Plain
  <2>2. Flushing' = Flushing
    BY <2>1 DEF Flushing
  <2>. QED  BY <1>3, <2>1, <2>2 DEF Abstract!Handled
<1>6. CASE JobDone \/ \E connecting \in BOOLEAN : Timers(connecting)
  <2>1. inHand' = inHand /\ pc # "FlushStore" /\ pc' # "FlushStore"
    BY <1>6 DEF JobDone, Timers
  <2>2. Flushing' = Flushing
    BY <2>1 DEF Flushing
  <2>. QED  BY <1>3, <2>1, <2>2 DEF Abstract!qvars
<1>7. CASE Tick \/ UNCHANGED vars
  <2>1. UNCHANGED <<pc, tail, flushTo, inHand>>
    BY <1>7 DEF Tick, vars, ring
  <2>2. Flushing' = Flushing
    BY <2>1 DEF Flushing
  <2>. QED  BY <1>3, <2>1, <2>2 DEF Abstract!qvars
<1>. QED  BY <1>4, <1>5, <1>6, <1>7

\* The ring, with interrupts between any two steps of the main loop and a flush
\* that does not disable them, is the queue of ButtonQueue (UI_OnButtonInterrupt,
\* UI_PopButtonEvent, UI_FlushButtonEvents).
THEOREM RingIsButtonQueue == Spec => ImplementsButtonQueue
<1>1. Init => Abstract!Init
  <2> SUFFICES ASSUME Init PROVE Abstract!Init
    OBVIOUS
  <2>1. UiInv
    BY UiInit
  <2>2. Count = 0 /\ Flushing = "none" /\ inHand = "none"
    BY DEF Init, Count, Flushing
  <2>3. Waiting = <<>>
    BY <2>1, <2>2, WaitingSeq, EmptySeq
  <2>. QED  BY <2>2, <2>3 DEF Abstract!Init
<1>2. UiInv /\ UiInv' /\ FlushInv /\ [Next]_vars
        => [Abstract!Next]_(Abstract!qvars)
  <2> SUFFICES ASSUME UiInv, UiInv', FlushInv, [Next]_vars
               PROVE  Abstract!Next \/ UNCHANGED Abstract!qvars
    OBVIOUS
  <2>1. ASSUME NEW b \in Keys, PressInterrupt(b)
        PROVE  Abstract!Next
    <3>1. Abstract!Put(b)
      BY <2>1, PressWithRoom, PressWhenFull
    <3>. QED  BY <3>1, Sizes DEF Abstract!Next
  <2>2. CASE Pop
    BY <2>2, PopGets DEF Abstract!Next
  <2>3. CASE FlushStore
    BY <2>3, FlushEnds DEF Abstract!Next
  <2>4. CASE FlushLoad \/ Handle \/ JobDone \/ Tick \/ UNCHANGED vars
               \/ \E connecting \in BOOLEAN : Timers(connecting)
    BY <2>4, RestKeepsQueue DEF Abstract!Next
  <2>. QED  BY <2>1, <2>2, <2>3, <2>4 DEF Next, Press, UI_Loop
<1>. QED
  BY <1>1, <1>2, UiInvHolds, FlushInit, FlushNext, PTL
     DEF Spec, ImplementsButtonQueue, Abstract!Spec
=============================================================================
