----------------------------- MODULE Socketcand -----------------------------
(***************************************************************************)
(* The CAN bus over a TCP stream (linux/can_socketcand.c): connecting,     *)
(* finding the messages in the stream, reconnecting.  A message is two     *)
(* pieces, the one that begins with '<' and the one that ends with '>';    *)
(* the stream is cut into chunks anywhere, so a chunk is any number of     *)
(* pieces.  The input buffer holds Room pieces.  Frames are numbered in    *)
(* the order of the bus.                                                   *)
(*                                                                         *)
(* The other end, its machine and the network are outside of the code:     *)
(* `server` and `peer` say what the client can notice of them.             *)
(***************************************************************************)
EXTENDS Naturals, Sequences, FiniteSetsExt

CONSTANTS
  Room,       \* sizeof(sc_in)
  ReplyTicks, \* SC_REPLY_TIMEOUT_MS
  RetryTicks  \* SC_RECONNECT_MS

SocketcandAssumption ==
  Room \in Nat \ {0, 1} /\ ReplyTicks \in Nat \ {0} /\ RetryTicks \in Nat \ {0}

VARIABLES
  fd,     \* "none", "opening" and "rawing" (sc_wait_reply), "up"
  sc_in,  \* the input buffer
  try,    \* ticks since sc_last_connect_try
  waited, \* ticks since sc_wait_reply began
  wire,   \* pieces that have been sent to the client and not yet received
  server, \* "up" or "down"
  peer,   \* the other end of the connection
  frame,  \* frames there have been on the bus
  given,  \* what was pushed to the receive ring
  missed  \* history: pieces were lost

client == <<fd, sc_in, try, waited>>
canvars == <<client, wire, server, peer, frame, given, missed>>

\* The other end has to answer "< open >" or "< rawmode >", has answered, is
\* closed, or is gone without a word.
Peers == {"none", "open", "opened", "raw", "streaming", "refused", "closed",
          "vanished"}

Kinds == {"ok", "error", "frame"}

\* The messages of the other end: < ok >, < error >, and frame n of the bus.
Message(k, n) == <<[kind |-> k, of |-> n, ends |-> FALSE],
                   [kind |-> k, of |-> n, ends |-> TRUE]>>

Ok      == Message("ok", 0)
Error   == Message("error", 0)
Frame(n) == Message("frame", n)

Pieces == [kind : Kinds, of : Nat, ends : BOOLEAN]

CanTypeOK ==
  /\ fd \in {"none", "opening", "rawing", "up"}
  /\ sc_in \in Seq(Pieces) /\ Len(sc_in) <= Room
  /\ try \in 0 .. RetryTicks /\ waited \in 0 .. ReplyTicks
  /\ wire \in Seq(Pieces) /\ server \in {"up", "down"} /\ peer \in Peers
  /\ frame \in Nat /\ given \in Seq(Seq(Pieces)) /\ missed \in BOOLEAN
  /\ fd = "none" <=> peer = "none"

Init ==
  /\ fd = "none" /\ sc_in = <<>> /\ try = RetryTicks /\ waited = 0
  /\ wire = <<>> /\ server = "up" /\ peer = "none"
  /\ frame = 0 /\ given = <<>> /\ missed = FALSE

-----------------------------------------------------------------------------
(* The stream *)

\* Variant with a fault: the room is tested without the chunk.
Feed_Overrun(chunk) == IF Len(sc_in) >= Room THEN <<>> ELSE sc_in \o chunk

\* Variant with a fault: a chunk that does not fit is dropped, what there is
\* stays.
Feed_KeepOld(chunk) == IF Len(sc_in) + Len(chunk) > Room THEN sc_in
                                                        ELSE sc_in \o chunk

\* sc_feed: both go if the chunk does not fit.
Feed(chunk) == IF Len(sc_in) + Len(chunk) > Room THEN <<>> ELSE sc_in \o chunk

Begun(s) == {i \in 1 .. Len(s) : ~s[i].ends}
Ended(s) == {i \in 1 .. Len(s) : s[i].ends}

\* sc_take_message: from the first '<' to the next '>', <<>> if there is none;
\* and what stays in the buffer.
FromBegin(s) == IF Begun(s) = {} THEN <<>> ELSE SubSeq(s, Min(Begun(s)), Len(s))

Taken(s) == IF Ended(FromBegin(s)) = {} THEN <<>>
            ELSE SubSeq(FromBegin(s), 1, Min(Ended(FromBegin(s))))

Kept(s) == IF Taken(s) = <<>> /\ Len(FromBegin(s)) = Room THEN <<>>
           ELSE SubSeq(FromBegin(s), Len(Taken(s)) + 1, Len(FromBegin(s)))

\* sc_disconnect.
Disconnect ==
  /\ fd' = "none" /\ sc_in' = <<>> /\ wire' = <<>> /\ peer' = "none"
  /\ missed' = (missed \/ sc_in # <<>> \/ wire # <<>>)
  /\ waited' = 0 /\ UNCHANGED <<try, server, frame, given>>

\* recv of n pieces.
Receive(n) ==
  /\ n <= Len(wire)
  /\ sc_in' = Feed(SubSeq(wire, 1, n)) /\ wire' = SubSeq(wire, n + 1, Len(wire))
  /\ missed' = (missed \/ Len(sc_in) + n > Room)
  /\ UNCHANGED <<fd, try, waited, server, peer, frame, given>>

-----------------------------------------------------------------------------
(* sc_connect: every wait blocks the program *)

\* sc_tcp_connect, and "< open >"; try' says whether sc_pump has called it.
Dial ==
  /\ fd = "none"
  /\ \/ /\ server = "up"
        /\ fd' = "opening" /\ peer' = "open" /\ sc_in' = <<>> /\ waited' = 0
     \/ /\ server = "down"
        /\ UNCHANGED <<fd, peer, sc_in, waited>>
  /\ UNCHANGED <<wire, server, frame, given, missed>>

Connecting == fd \in {"opening", "rawing"}

Reply == Taken(sc_in)

\* sc_wait_reply: a message that is no answer is skipped.
SkipMessage ==
  /\ Connecting /\ Reply # <<>>
  /\ Reply \notin {Ok, Error}
  /\ sc_in' = Kept(sc_in)
  /\ UNCHANGED <<fd, try, waited, wire, server, peer, frame, given, missed>>

\* Variant with a fault: the answer stays in the buffer.
ReplyOk_KeepReply ==
  /\ Connecting /\ Reply = Ok
  /\ waited' = 0
  /\ fd' = IF fd = "opening" THEN "rawing" ELSE "up"
  /\ peer' = IF peer = "opened" THEN "raw" ELSE peer
  /\ UNCHANGED <<sc_in, try, wire, server, frame, given, missed>>

\* < ok >: the next step of sc_connect.  "< rawmode >" may find the peer gone.
ReplyOk ==
  /\ Connecting /\ Reply = Ok
  /\ sc_in' = Kept(sc_in) /\ waited' = 0
  /\ fd' = IF fd = "opening" THEN "rawing" ELSE "up"
  /\ peer' = IF peer = "opened" THEN "raw" ELSE peer
  /\ UNCHANGED <<try, wire, server, frame, given, missed>>

Refusal == Connecting /\ Reply = Error /\ Disconnect

ReceiveReply ==
  /\ Connecting /\ Reply = <<>> /\ waited < ReplyTicks
  /\ \E n \in 1 .. Len(wire) : Receive(n)

\* Variant with a fault: the wait has no deadline.
NoReply_NoDeadline ==
  /\ Connecting /\ Reply = <<>>
  /\ wire = <<>> /\ peer = "closed"
  /\ Disconnect

\* The end of the stream, or of sc_wait_reply's patience.
NoReply ==
  /\ Connecting /\ Reply = <<>>
  /\ (wire = <<>> /\ peer = "closed") \/ waited = ReplyTicks
  /\ Disconnect

Connect == SkipMessage \/ ReplyOk \/ Refusal \/ ReceiveReply \/ NoReply

-----------------------------------------------------------------------------
(* sc_pump and sc_send_frame *)

Redial == try = RetryTicks /\ Dial /\ try' = 0

TooEarly == fd = "none" /\ try < RetryTicks /\ UNCHANGED canvars

PumpReceive == fd = "up" /\ \E n \in 1 .. Len(wire) : Receive(n)

PumpEmpty == fd = "up" /\ wire = <<>> /\ peer # "closed" /\ UNCHANGED canvars

\* What was received and not drained is lost.
PumpClosed == fd = "up" /\ wire = <<>> /\ peer = "closed" /\ Disconnect

\* sc_drain_rx: one message; those that are not frames are skipped.
Drain ==
  /\ Reply # <<>>
  /\ sc_in' = Kept(sc_in)
  /\ given' = IF Reply \in {Ok, Error} THEN given
              ELSE Append(given, Reply)
  /\ UNCHANGED <<fd, try, waited, wire, server, peer, frame, missed>>

DrainDone ==
  /\ Reply = <<>>
  /\ sc_in' = Kept(sc_in)
  /\ UNCHANGED <<fd, try, waited, wire, server, peer, frame, given, missed>>

\* sc_send_frame: a live peer takes the frame.  One that is closed may take one
\* and answers with a reset; one that is gone takes it until its machine is
\* back.
Send ==
  \/ /\ fd # "up" \/ peer \notin {"closed", "vanished"}
        \/ (peer = "vanished" /\ server = "down")
     /\ UNCHANGED canvars
  \/ /\ fd = "up" /\ peer = "vanished" /\ server = "up"
     /\ peer' = "closed"
     /\ UNCHANGED <<client, wire, server, frame, given, missed>>
  \/ /\ fd = "up" /\ peer = "closed"
     /\ Disconnect

-----------------------------------------------------------------------------
(* The bus, the server, the clock *)

Cutoff(end) ==
  /\ peer' = IF peer = "none" THEN "none" ELSE end
  /\ \E n \in 0 .. Len(wire) : wire' = SubSeq(wire, 1, n)
  /\ missed' = (missed \/ wire' # wire)
  /\ UNCHANGED <<client, frame, given>>

\* socketcand stops: the connection is closed; or its machine does.
ServerStops == server = "up" /\ server' = "down" /\ Cutoff("closed")

ServerVanishes == server = "up" /\ server' = "down" /\ Cutoff("vanished")

ServerStarts ==
  /\ server = "down" /\ server' = "up"
  /\ UNCHANGED <<client, wire, peer, frame, given, missed>>

Owes == peer \in {"open", "raw"}

ServerAnswers(reply) ==
  /\ Owes
  /\ wire' = wire \o reply
  /\ peer' = IF reply = Error THEN "refused"
             ELSE IF peer = "open" THEN "opened" ELSE "streaming"
  /\ UNCHANGED <<client, server, frame, given, missed>>

\* A frame on the bus.
BusFrame ==
  /\ peer = "streaming"
  /\ frame' = frame + 1 /\ wire' = wire \o Frame(frame + 1)
  /\ UNCHANGED <<client, server, peer, given, missed>>

Tick ==
  /\ try' = Min({try + 1, RetryTicks})
  /\ waited' = IF Connecting THEN Min({waited + 1, ReplyTicks}) ELSE 0
  /\ UNCHANGED <<fd, sc_in, wire, server, peer, frame, given, missed>>

Killed ==
  /\ fd' = "none" /\ sc_in' = <<>> /\ wire' = <<>> /\ peer' = "none"
  /\ try' = RetryTicks /\ waited' = 0
  /\ missed' = (missed \/ sc_in # <<>> \/ wire # <<>>)
  /\ UNCHANGED <<server, frame, given>>

-----------------------------------------------------------------------------

Connected == fd = "up" /\ peer = "streaming"

\* A connection is taken as up only after the other end has agreed to the raw
\* mode on it; it may have gone since.
UpIsRaw == fd = "up" => peer \in {"streaming", "closed", "vanished"}

\* What has been sent to the client, and of it the beginnings of frames.
Coming == sc_in \o wire

FramesBegun == {i \in Begun(Coming) : Coming[i].kind = "frame"}

\* Frames are pushed whole, in the order of the bus and none twice, and those
\* on their way come after them; all of them are pushed or on their way, unless
\* the buffer overflowed or a connection ended.
Faithful ==
  /\ \A i \in DOMAIN given : \E n \in 1 .. frame : given[i] = Frame(n)
  /\ \A i, j \in DOMAIN given : i < j => given[i][1].of < given[j][1].of
  /\ \A i \in DOMAIN given, j \in FramesBegun : given[i][1].of < Coming[j].of
  /\ \A i, j \in FramesBegun : i < j => Coming[i].of < Coming[j].of
  /\ ~missed =>
       \A n \in 1 .. frame :
         \/ \E i \in DOMAIN given : given[i] = Frame(n)
         \/ \E i \in 1 .. Len(Coming) - 1 : SubSeq(Coming, i, i + 1) = Frame(n)
=============================================================================
