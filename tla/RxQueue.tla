------------------------------ MODULE RxQueue ------------------------------
(***************************************************************************)
(* What the CAN receive ring promises to the charge engine: a queue of     *)
(* whole frames, read in the order they were received.  The queue is sure  *)
(* to hold Capacity frames; the frame that is one more may take all of     *)
(* them with it.  When still another one comes in the middle of a read,    *)
(* nothing is promised any more (`broken`).                                *)
(***************************************************************************)
EXTENDS Naturals, Sequences

CONSTANTS
  Capacity, \* frames the queue is sure to hold
  Stamps    \* identities of frames

VARIABLES
  queue,  \* frames received and not read
  last,   \* the frame read last, 0 if none
  broken

qvars == <<queue, last, broken>>

Init == queue = <<>> /\ last = 0 /\ broken = FALSE

\* A frame arrives; the one beyond Capacity may empty the queue.
Put(f) ==
  /\ ~broken /\ Len(queue) <= Capacity
  /\ \/ queue' = Append(queue, f)
     \/ Len(queue) = Capacity /\ queue' = <<>>
  /\ UNCHANGED <<last, broken>>

\* The oldest frame is read.
Get ==
  /\ ~broken /\ queue # <<>>
  /\ last' = Head(queue) /\ queue' = Tail(queue)
  /\ UNCHANGED broken

\* A frame beyond that, in the middle of a read.
Break == ~broken /\ broken' = TRUE

Anything == broken /\ broken'

Next == (\E f \in Stamps : Put(f)) \/ Get \/ Break \/ Anything

Spec == Init /\ [][Next]_qvars

=============================================================================
