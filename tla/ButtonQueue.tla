---------------------------- MODULE ButtonQueue ----------------------------
(***************************************************************************)
(* What the button queue of the display promises to UI_Loop: presses come  *)
(* out in the order they went in, each at most once.  A full queue gives   *)
(* up its oldest press for the newest one.  A flush gives up all of them,  *)
(* or only some of the newest, if presses overflow the queue meanwhile.    *)
(***************************************************************************)
EXTENDS Naturals, Sequences

CONSTANTS
  Buttons,
  Capacity \* presses the queue holds

VARIABLES
  queue,  \* presses that wait
  inHand, \* the press being handled, "none" if there is none
  flush   \* the flush under way: "none", "all" or "newest"

qvars == <<queue, inHand, flush>>

Init == queue = <<>> /\ inHand = "none" /\ flush = "none"

Room == Len(queue) < Capacity

Put(b) ==
  /\ \/ /\ Room
        /\ queue' = Append(queue, b) /\ UNCHANGED flush
     \/ /\ ~Room
        /\ queue' = Append(Tail(queue), b)
        /\ IF flush = "none" THEN UNCHANGED flush ELSE flush' \in {"all", "newest"}
  /\ UNCHANGED inHand

Get ==
  /\ queue # <<>> /\ inHand = "none" /\ flush = "none"
  /\ inHand' = Head(queue) /\ queue' = Tail(queue)
  /\ UNCHANGED flush

Handled == inHand' = "none" /\ UNCHANGED <<queue, flush>>

BeginFlush == flush = "none" /\ flush' = "all" /\ UNCHANGED <<queue, inHand>>

EndFlush ==
  /\ \/ flush = "all" /\ queue' = <<>>
     \/ flush = "newest" /\ \E n \in 0 .. Len(queue) : queue' = SubSeq(queue, 1, n)
  /\ flush' = "none" /\ UNCHANGED inHand

Next == (\E b \in Buttons : Put(b)) \/ Get \/ Handled \/ BeginFlush \/ EndFlush

Spec == Init /\ [][Next]_qvars
=============================================================================
