-------------------------- MODULE LinuxHostProofs --------------------------
(***************************************************************************)
(* The Linux program as a whole, for any settings, any buffer of at least  *)
(* two pieces, any delays and any number of disturbances.                  *)
(*                                                                         *)
(* The settings: the program saves only through SettingsFile, one save at  *)
(* a time, and only blobs, which it has set, loaded or started with.  So   *)
(* the page is never torn, and a start reads the last blob that was saved. *)
(*                                                                         *)
(* The stream of socketcand: from the first piece in the input buffer to   *)
(* the last on the wire it is whole messages but for its ends, with frames *)
(* in the order of the bus and later than all that were pushed; and while  *)
(* sc_wait_reply runs no frame is ahead of the answer, unless something    *)
(* was missed.  So frames are pushed whole, in order and once.             *)
(***************************************************************************)
EXTENDS LinuxHost, SequenceTheorems, WellFoundedInduction, TLAPS

Saves == INSTANCE SettingsFileProofs

-----------------------------------------------------------------------------
(* The settings *)

\* The program holds a blob, and what it loads is one.
HostInv ==
  /\ runtime \in Blobs
  /\ file \in Blobs \cup {Absent}
  /\ Saves!WriteInv

\* What leaves the settings and the files alone.
LEMMA OthersKeep ==
  ASSUME Start \/ CanInit \/ Awake \/ Connect \/ Pump \/ Drain \/ Engine \/ Redial
           \/ Publish \/ Tick \/ CanWorld \/ MqttWorld
  PROVE  UNCHANGED <<runtime, store>>
  BY DEF Start, CanInit, Awake, Connect, Pump, Drain, Engine, Redial, Publish,
         Tick, CanWorld, MqttWorld, main, store

\* Every step of the program is one of SettingsFile, or none of its business.
LEMMA StepsOfStore ==
  ASSUME HostInv, [Next]_vars
  PROVE  [Store!Next]_store /\ HostInv'
<1>. USE DEF Store!Next, Store!Write, store
<1>a. Store!FileAssumption /\ Defaults \in Blobs
  BY HostAssumption
<1>1. CASE Start \/ CanInit \/ Awake \/ Connect \/ Pump \/ Drain \/ Engine
             \/ Redial \/ Publish \/ Tick \/ CanWorld \/ MqttWorld
  <2>1. UNCHANGED <<runtime, store>>  BY <1>1, OthersKeep
  <2>. QED  BY <2>1 DEF HostInv, Saves!WriteInv
<1>2. CASE Load
  BY <1>2, <1>a DEF Load, HostInv, Saves!WriteInv
<1>3. CASE Read
  <2>1. CASE UNCHANGED <<runtime, store>>
    BY <2>1 DEF HostInv, Saves!WriteInv
  <2>2. CASE runtime' \in Blobs /\ UNCHANGED store
    BY <2>2 DEF HostInv, Saves!WriteInv
  <2>3. CASE Store!Save(runtime) /\ UNCHANGED runtime
    BY <2>3, <1>a DEF HostInv, Saves!WriteInv, Store!Save, Store!FileAssumption, Saves!Steps
  <2>. QED  BY <1>3, <2>1, <2>2, <2>3 DEF Read, Command
<1>4. CASE Save
  <2>1. UNCHANGED runtime  BY <1>4 DEF Save
  <2>2. CASE Store!Write
    BY <1>a, <2>1, <2>2
       DEF HostInv, Saves!WriteInv, Store!Fopen, Store!Fwrite, Store!Fclose,
           Store!Rename, Store!FileAssumption, Saves!Steps
  <2>3. CASE Store!Report
    BY <1>a, <2>1, <2>3
       DEF HostInv, Saves!WriteInv, Store!Report, Store!FileAssumption, Saves!Steps
  <2>. QED  BY <1>4, <2>2, <2>3 DEF Save
<1>5. CASE Kill
  BY <1>5, <1>a
     DEF Kill, HostInv, Saves!WriteInv, Store!Kill, Store!FileAssumption, Saves!Steps
<1>6. CASE UNCHANGED vars
  BY <1>6 DEF vars, main, HostInv, Saves!WriteInv
<1>. QED
  BY <1>1, <1>2, <1>3, <1>4, <1>5, <1>6 DEF Next, Program

LEMMA InitOfStore == Init => Store!Init /\ HostInv
  BY HostAssumption
     DEF Init, Store!Init, HostInv, Saves!WriteInv, Store!FileAssumption, Saves!Steps

\* A save is all or nothing and reports the truth, whatever fails and whenever
\* the process is killed.
THEOREM SettingsAtomic == Spec => ImplementsNvStore
<1>1. Store!FileAssumption => Saves!FileAssumption
  BY DEF Store!FileAssumption, Saves!FileAssumption, Store!Part, Saves!Part
<1>2. Saves!FileAssumption
  BY <1>1, HostAssumption
<1>3. Spec => Store!Spec
  BY InitOfStore, StepsOfStore, PTL DEF Spec, Store!Spec, store, Store!fvars
<1>4. Store!Init => Saves!Init
  BY DEF Store!Init, Saves!Init
<1>5. [Store!Next]_(Store!fvars) => [Saves!Next]_(Saves!fvars)
  BY DEF Store!Next, Store!fvars, Store!Save, Store!Write, Store!Fopen,
         Store!Fwrite, Store!Fclose, Store!Rename, Store!Report, Store!Kill, Store!Part,
         Saves!Next, Saves!fvars, Saves!Save, Saves!Write, Saves!Fopen,
         Saves!Fwrite, Saves!Fclose, Saves!Rename, Saves!Report, Saves!Kill, Saves!Part
<1>6. Saves!Nv!Init => Store!Nv!Init
  BY DEF Store!Nv!Init, Saves!Nv!Init
<1>7. [Saves!Nv!Next]_(Saves!Nv!nvars) => [Store!Nv!Next]_(Store!Nv!nvars)
  BY DEF Store!Nv!Next, Store!Nv!nvars, Store!Nv!Begin, Store!Nv!Replace,
         Store!Nv!Success, Store!Nv!Failure, Store!Nv!CutOff, Store!Nv!End,
         Saves!Nv!Next, Saves!Nv!nvars, Saves!Nv!Begin, Saves!Nv!Replace,
         Saves!Nv!Success, Saves!Nv!Failure, Saves!Nv!CutOff, Saves!Nv!End
<1>8. Store!Spec => Saves!Spec
  BY <1>4, <1>5, PTL DEF Store!Spec, Saves!Spec
<1>9. Saves!ImplementsNvStore => ImplementsNvStore
  BY <1>6, <1>7, PTL
     DEF ImplementsNvStore, Store!ImplementsNvStore, Saves!ImplementsNvStore,
         Store!Nv!Spec, Saves!Nv!Spec
<1>10. Saves!Spec => Saves!ImplementsNvStore
  BY <1>2, Saves!FileImplementsStore
<1>. QED
  BY <1>3, <1>8, <1>9, <1>10
\* Pieces of messages: an end follows its beginning, a beginning follows an
\* end.
Whole(s) ==
  \A i \in 1 .. Len(s) - 1 :
    /\ s[i].ends => ~s[i + 1].ends
    /\ ~s[i].ends => /\ s[i + 1].ends
                     /\ s[i + 1].kind = s[i].kind /\ s[i + 1].of = s[i].of

\* Only frames have numbers, those of the n frames there were.
Numbered(s, n) ==
  \A i \in 1 .. Len(s) : IF s[i].kind = "frame" THEN s[i].of \in 1 .. n
                                                ELSE s[i].of = 0

\* A frame that begins is later than all before it.
Ordered(s) ==
  \A i, j \in 1 .. Len(s) :
    i < j /\ s[i].kind = "frame" /\ s[j].kind = "frame" /\ ~s[j].ends
      => s[i].of < s[j].of

\* The frames of s are later than those of g.
Later(s, g) ==
  \A i \in 1 .. Len(g), j \in 1 .. Len(s) :
    s[j].kind = "frame" => g[i][1].of < s[j].of

\* What may be on its way after n frames, of which g were pushed.
Passage(s, n, g) == Whole(s) /\ Numbered(s, n) /\ Ordered(s) /\ Later(s, g)

\* What was pushed.
Pushed(g, n) ==
  /\ \A i \in 1 .. Len(g) : \E m \in 1 .. n : g[i] = Can!Frame(m)
  /\ \A i, j \in 1 .. Len(g) : i < j => g[i][1].of < g[j][1].of

\* Nothing is lost: frame m was pushed, or is on its way.
Reached(m, s, g) ==
  \/ \E i \in 1 .. Len(g) : g[i] = Can!Frame(m)
  \/ \E i \in 1 .. Len(s) - 1 : s[i] = Can!Frame(m)[1] /\ s[i + 1] = Can!Frame(m)[2]

Open == peer \notin {"none", "closed", "vanished"}

\* While the client waits for an answer, no frame is ahead of it.
Answers(s) ==
  /\ fd = "opening" => /\ peer \notin {"raw", "streaming"} /\ Len(s) <= 2
                       /\ peer = "open" => s = <<>>
                       /\ \A i \in 1 .. Len(s) : s[i].kind # "frame"
  /\ fd = "rawing"  => /\ peer \notin {"open", "opened"}
                       /\ ~missed => /\ peer = "raw" => s = <<>>
                                     /\ peer = "streaming" => s # <<>>
                                     /\ s # <<>> => s[1].kind # "frame"

Draining == pc = "Drain" => fd = "up"

StreamInv ==
  /\ fd = "none" => sc_in = <<>> /\ wire = <<>>
  /\ Passage(Can!Coming, frame, given)
  /\ Pushed(given, frame)
  /\ Open /\ Can!Coming # <<>> => Can!Coming[Len(Can!Coming)].ends
  /\ Answers(Can!Coming)
  /\ ~missed => /\ Can!Coming # <<>> => ~Can!Coming[1].ends
                /\ \A m \in 1 .. frame : Reached(m, Can!Coming, given)

-----------------------------------------------------------------------------
(* What the program is built from *)

LEMMA LeastExists ==
  ASSUME NEW S \in SUBSET Nat, S # {}
  PROVE  \E x \in S : \A y \in S : x <= y
<1>1. IsWellFoundedOn(OpToRel(<, Nat), Nat)
  BY NatLessThanWellFounded
<1>2. PICK x \in S : \A y \in S : <<y, x>> \notin OpToRel(<, Nat)
  BY <1>1, WFMin
<1>3. ASSUME NEW y \in S PROVE x <= y
  <2>1. <<y, x>> \in Nat \X Nat /\ <<y, x>>[1] = y /\ <<y, x>>[2] = x
    OBVIOUS
  <2>2. ~(y < x)
    BY <1>2, <2>1 DEF OpToRel
  <2>. QED  BY <2>2
<1>. QED
  BY <1>3

LEMMA Least ==
  ASSUME NEW S \in SUBSET Nat, S # {}
  PROVE  /\ Can!Min(S) \in S /\ \A y \in S : Can!Min(S) <= y
         /\ Mqtt!Min(S) \in S /\ \A y \in S : Mqtt!Min(S) <= y
  BY LeastExists DEF Can!Min, Mqtt!Min

LEMMA Capped ==
  ASSUME NEW n \in Nat, NEW m \in Nat
  PROVE  Can!Min({n + 1, m}) \in 0 .. m /\ Mqtt!Min({n + 1, m}) \in 0 .. m
<1>1. {n + 1, m} \in SUBSET Nat /\ {n + 1, m} # {} /\ m \in {n + 1, m}
  OBVIOUS
<1>. QED
  BY <1>1, Least

\* The end of s from place k + 1 on, and its beginning.
LEMMA Dropped ==
  ASSUME NEW S, NEW s \in Seq(S), NEW k \in 0 .. Len(s)
  PROVE  /\ SubSeq(s, k + 1, Len(s)) \in Seq(S)
         /\ Len(SubSeq(s, k + 1, Len(s))) = Len(s) - k
         /\ \A i \in 1 .. Len(s) - k : SubSeq(s, k + 1, Len(s))[i] = s[k + i]
  BY SubSeqProperties

LEMMA Cut ==
  ASSUME NEW S, NEW s \in Seq(S), NEW k \in 0 .. Len(s)
  PROVE  /\ SubSeq(s, 1, k) \in Seq(S)
         /\ Len(SubSeq(s, 1, k)) = k
         /\ \A i \in 1 .. k : SubSeq(s, 1, k)[i] = s[i]
  BY SubSeqProperties

\* Two sequences, one behind the other.
LEMMA Joined ==
  ASSUME NEW s \in Seq(Can!Pieces), NEW t \in Seq(Can!Pieces)
  PROVE  /\ s \o t \in Seq(Can!Pieces) /\ Len(s \o t) = Len(s) + Len(t)
         /\ \A i \in 1 .. Len(s) : (s \o t)[i] = s[i]
         /\ \A i \in 1 .. Len(t) : (s \o t)[Len(s) + i] = t[i]
  OBVIOUS

LEMMA Associates ==
  ASSUME NEW s \in Seq(Can!Pieces), NEW t \in Seq(Can!Pieces), NEW u \in Seq(Can!Pieces)
  PROVE  (s \o t) \o u = s \o (t \o u)
  BY ConcatAssociative

LEMMA NotEmpty ==
  ASSUME NEW s \in Seq(Can!Pieces), s # <<>>
  PROVE  Len(s) \in Nat \ {0} /\ 1 \in 1 .. Len(s)
  BY EmptySeq

\* A message is two pieces.
LEMMA MessagePieces ==
  ASSUME NEW k \in Can!Kinds, NEW n \in Nat
  PROVE  /\ Can!Message(k, n) \in Seq(Can!Pieces)
         /\ Len(Can!Message(k, n)) = 2
         /\ Can!Message(k, n)[1] = [kind |-> k, of |-> n, ends |-> FALSE]
         /\ Can!Message(k, n)[2] = [kind |-> k, of |-> n, ends |-> TRUE]
<1>1. /\ [kind |-> k, of |-> n, ends |-> FALSE] \in Can!Pieces
      /\ [kind |-> k, of |-> n, ends |-> TRUE] \in Can!Pieces
  BY DEF Can!Pieces
<1>. QED
  BY <1>1 DEF Can!Message

LEMMA FramePieces ==
  ASSUME NEW n \in Nat
  PROVE  /\ Can!Frame(n) \in Seq(Can!Pieces) /\ Len(Can!Frame(n)) = 2
         /\ Can!Frame(n)[1] = [kind |-> "frame", of |-> n, ends |-> FALSE]
         /\ Can!Frame(n)[2] = [kind |-> "frame", of |-> n, ends |-> TRUE]
         /\ Can!Frame(n)[1].of = n
<1>1. "frame" \in Can!Kinds
  BY DEF Can!Kinds
<1>. QED
  BY <1>1, MessagePieces DEF Can!Frame

\* sc_take_message: what it takes from a buffer, and what it leaves.
LEMMA TakenKept ==
  ASSUME NEW s \in Seq(Can!Pieces)
  PROVE  \E b \in 1 .. Len(s) + 1 :
           /\ \A i \in 1 .. b - 1 : s[i].ends
           /\ b <= Len(s) => ~s[b].ends
           /\ \/ /\ Can!Taken(s) = <<>>
                 /\ \A i \in b .. Len(s) : ~s[i].ends
                 /\ Can!Kept(s) = IF Len(s) - b + 1 = Room THEN <<>>
                                  ELSE SubSeq(s, b, Len(s))
              \/ \E e \in b + 1 .. Len(s) :
                   /\ s[e].ends /\ \A i \in b .. e - 1 : ~s[i].ends
                   /\ Can!Taken(s) = SubSeq(s, b, e)
                   /\ Can!Kept(s) = SubSeq(s, e + 1, Len(s))
<1> DEFINE L == Len(s)
           F == Can!FromBegin(s)
<1>0. L \in Nat /\ \A i \in 1 .. L : s[i].ends \in BOOLEAN
  <2>1. L \in Nat /\ \A i \in 1 .. L : s[i] \in Can!Pieces
    BY LenProperties, ElementOfSeq
  <2>. QED  BY <2>1 DEF Can!Pieces
<1>1. PICK b \in 1 .. L + 1 :
        /\ \A i \in 1 .. b - 1 : s[i].ends
        /\ b <= L => ~s[b].ends
        /\ F = SubSeq(s, b, L)
  <2>1. CASE Can!Begun(s) = {}
    <3>1. \A i \in 1 .. L : s[i].ends
      BY <2>1 DEF Can!Begun
    <3>2. F = <<>>
      BY <2>1 DEF Can!FromBegin
    <3>3. SubSeq(s, L + 1, L) = <<>>
      BY <1>0, SubSeqEmpty
    <3>. QED  BY <1>0, <3>1, <3>2, <3>3
  <2>2. CASE Can!Begun(s) # {}
    <3> DEFINE b == Can!Min(Can!Begun(s))
    <3>1. Can!Begun(s) \in SUBSET Nat
      BY <1>0 DEF Can!Begun
    <3>2. b \in Can!Begun(s) /\ \A y \in Can!Begun(s) : b <= y
      BY <2>2, <3>1, Least
    <3>3. F = SubSeq(s, b, L)
      BY <2>2 DEF Can!FromBegin
    <3>. HIDE DEF b
    <3>4. b \in 1 .. L /\ ~s[b].ends
      BY <3>2 DEF Can!Begun
    <3>5. ASSUME NEW i \in 1 .. b - 1 PROVE s[i].ends
      <4>1. i \in 1 .. L /\ ~(b <= i)
        BY <1>0, <3>4
      <4>. QED  BY <3>2, <4>1 DEF Can!Begun
    <3>. QED  BY <1>0, <3>3, <3>4, <3>5
  <2>. QED  BY <2>1, <2>2
<1>. DEFINE k == b - 1
<1>2. k \in 0 .. L /\ b = k + 1
  BY <1>0, <1>1
<1>3. /\ F \in Seq(Can!Pieces) /\ Len(F) = L - k
      /\ \A i \in 1 .. L - k : F[i] = s[k + i]
  BY <1>1, <1>2, Dropped
<1>. HIDE DEF F, k
<1>4. CASE Can!Ended(F) = {}
  <2>1. Can!Taken(s) = <<>>
    BY <1>4 DEF Can!Taken, F
  <2>2. ASSUME NEW i \in b .. L PROVE ~s[i].ends
    <3>1. i - k \in 1 .. L - k /\ F[i - k] = s[k + (i - k)] /\ k + (i - k) = i
      BY <1>0, <1>2, <1>3
    <3>2. i - k \in 1 .. Len(F) /\ ~F[i - k].ends
      BY <1>3, <1>4, <3>1 DEF Can!Ended
    <3>. QED  BY <3>1, <3>2
  <2>3. Can!Kept(s) = IF Len(F) = Room THEN <<>> ELSE SubSeq(F, 1, Len(F))
    <3>1. Len(<<>>) + 1 = 1
      OBVIOUS
    <3>. QED  BY <2>1, <3>1 DEF Can!Kept, F
  <2>4. SubSeq(F, 1, Len(F)) = F
    BY <1>3, SubSeqFull
  <2>5. Len(F) = L - b + 1
    BY <1>0, <1>2, <1>3
  <2>6. Can!Kept(s) = IF L - b + 1 = Room THEN <<>> ELSE SubSeq(s, b, L)
    BY <1>1, <2>3, <2>4, <2>5
  <2>. QED  BY <1>1, <2>1, <2>2, <2>6
<1>5. CASE Can!Ended(F) # {}
  <2> DEFINE m == Can!Min(Can!Ended(F))
             e == k + m
  <2>1. Can!Ended(F) \in SUBSET Nat
    BY DEF Can!Ended
  <2>2. m \in Can!Ended(F) /\ \A y \in Can!Ended(F) : m <= y
    BY <1>5, <2>1, Least
  <2>3. Can!Taken(s) = SubSeq(F, 1, m)
    BY <1>5 DEF Can!Taken, F
  <2>. HIDE DEF m
  <2>4. m \in 1 .. L - k /\ F[m].ends
    BY <1>3, <2>2 DEF Can!Ended
  <2>5. m # 1
    <3>1. k + 1 \in 1 .. L
      BY <1>0, <1>2, <2>4
    <3>. QED  BY <1>0, <1>1, <1>2, <1>3, <2>4, <3>1
  <2>6. e \in b + 1 .. L
    BY <1>0, <1>2, <2>4, <2>5
  <2>7. s[e].ends
    BY <1>3, <2>4
  <2>8. ASSUME NEW i \in b .. e - 1 PROVE ~s[i].ends
    <3>1. /\ i - k \in 1 .. L - k /\ F[i - k] = s[k + (i - k)] /\ k + (i - k) = i
          /\ ~(m <= i - k)
      BY <1>0, <1>2, <1>3, <2>4
    <3>2. i - k \in 1 .. Len(F) /\ i - k \notin Can!Ended(F)
      BY <1>3, <2>2, <3>1
    <3>. QED  BY <3>1, <3>2 DEF Can!Ended
  <2>9. Len(SubSeq(F, 1, m)) = m
    BY <1>3, <2>4, Cut
  <2>10. SubSeq(F, 1, m) # <<>>
    <3>1. Len(<<>>) = 0 /\ m # 0
      BY <2>4
    <3>. QED  BY <2>9, <3>1
  <2>11. Can!Kept(s) = SubSeq(F, m + 1, Len(F))
    BY <2>3, <2>9, <2>10 DEF Can!Kept, F
  <2>12. SubSeq(F, m + 1, Len(F)) = SubSeq(s, e + 1, L)
    <3>1. /\ SubSeq(F, m + 1, Len(F)) \in Seq(Can!Pieces)
          /\ Len(SubSeq(F, m + 1, Len(F))) = Len(F) - m
          /\ \A i \in 1 .. Len(F) - m : SubSeq(F, m + 1, Len(F))[i] = F[m + i]
      BY <1>3, <2>4, Dropped
    <3>2. /\ SubSeq(s, e + 1, L) \in Seq(Can!Pieces)
          /\ Len(SubSeq(s, e + 1, L)) = L - e
          /\ \A i \in 1 .. L - e : SubSeq(s, e + 1, L)[i] = s[e + i]
      <4>1. e \in 0 .. L
        BY <1>0, <1>2, <2>6
      <4>. HIDE DEF e
      <4>. QED  BY <4>1, Dropped
    <3>3. Len(F) - m = L - e
      BY <1>0, <1>2, <1>3, <2>4
    <3>4. ASSUME NEW i \in 1 .. L - e PROVE F[m + i] = s[e + i]
      <4>1. m + i \in 1 .. L - k /\ k + (m + i) = e + i
        BY <1>0, <1>2, <1>3, <2>4
      <4>. QED  BY <1>3, <4>1
    <3>. HIDE DEF e
    <3>. QED  BY <3>1, <3>2, <3>3, <3>4, SeqEqual
  <2>13. SubSeq(F, 1, m) = SubSeq(s, b, e)
    <3>1. /\ SubSeq(F, 1, m) \in Seq(Can!Pieces) /\ Len(SubSeq(F, 1, m)) = m
          /\ \A i \in 1 .. m : SubSeq(F, 1, m)[i] = F[i]
      BY <1>3, <2>4, Cut
    <3>2. /\ SubSeq(s, b, e) \in Seq(Can!Pieces)
          /\ Len(SubSeq(s, b, e)) = m
          /\ \A i \in 1 .. m : SubSeq(s, b, e)[i] = s[k + i]
      <4>1. \A i \in b .. e : s[i] \in Can!Pieces
        BY <1>0, <1>2, <2>6, ElementOfSeq
      <4>2. b \in Int /\ e \in Int /\ b <= e /\ e - b + 1 = m
        BY <1>0, <1>2, <2>4, <2>6
      <4>3. \A i \in 1 .. m : b + i - 1 = k + i
        BY <1>2, <2>4
      <4>. HIDE DEF e
      <4>. QED  BY <4>1, <4>2, <4>3, SubSeqProperties
    <3>. QED  BY <1>3, <2>4, <3>1, <3>2, SeqEqual
  <2>. HIDE DEF e
  <2>. QED  BY <1>1, <2>3, <2>6, <2>7, <2>8, <2>11, <2>12, <2>13
<1>. QED
  BY <1>4, <1>5

-----------------------------------------------------------------------------
(* What may be on its way *)

\* What is received, dropped or cut off leaves pieces that may be on their way.
LEMMA PassageDrop ==
  ASSUME NEW s \in Seq(Can!Pieces), NEW n \in Nat, NEW g \in Seq(Seq(Can!Pieces)),
         Passage(s, n, g), NEW k \in 0 .. Len(s)
  PROVE  Passage(SubSeq(s, k + 1, Len(s)), n, g)
<1> DEFINE t == SubSeq(s, k + 1, Len(s))
<1>1. Len(s) \in Nat /\ Len(g) \in Nat
  OBVIOUS
<1>2. Len(t) = Len(s) - k /\ \A i \in 1 .. Len(s) - k : t[i] = s[k + i]
  BY Dropped
<1>. HIDE DEF t
<1>3. \A i \in 1 .. Len(t) : k + i \in 1 .. Len(s) /\ t[i] = s[k + i]
  BY <1>1, <1>2
<1>4. Whole(t)
  <2>1. \A i \in 1 .. Len(t) - 1 :
          k + i \in 1 .. Len(s) - 1 /\ k + (i + 1) = (k + i) + 1
          /\ i \in 1 .. Len(t) /\ i + 1 \in 1 .. Len(t)
    BY <1>1, <1>2
  <2>. SUFFICES ASSUME NEW i \in 1 .. Len(t) - 1
                PROVE  /\ t[i].ends => ~t[i + 1].ends
                       /\ ~t[i].ends => /\ t[i + 1].ends
                                        /\ t[i + 1].kind = t[i].kind
                                        /\ t[i + 1].of = t[i].of
    BY DEF Whole
  <2>2. t[i] = s[k + i] /\ t[i + 1] = s[k + (i + 1)]
    BY <1>3, <2>1
  <2>3. t[i + 1] = s[(k + i) + 1]
    BY <2>1, <2>2
  <2>4. k + i \in 1 .. Len(s) - 1
    BY <2>1
  <2>. QED  BY <2>2, <2>3, <2>4 DEF Passage, Whole
<1>5. Numbered(t, n) /\ Later(t, g)
  BY <1>3 DEF Passage, Numbered, Later
<1>6. Ordered(t)
  <2>1. \A i, j \in 1 .. Len(t) : i < j => k + i < k + j
    BY <1>1, <1>2
  <2>. QED  BY <1>3, <2>1 DEF Passage, Ordered
<1>. QED
  BY <1>4, <1>5, <1>6 DEF Passage, t

LEMMA PassageCut ==
  ASSUME NEW s \in Seq(Can!Pieces), NEW n \in Nat, NEW g \in Seq(Seq(Can!Pieces)),
         Passage(s, n, g), NEW k \in 0 .. Len(s)
  PROVE  Passage(SubSeq(s, 1, k), n, g)
<1> DEFINE t == SubSeq(s, 1, k)
<1>1. Len(s) \in Nat
  OBVIOUS
<1>2. Len(t) = k /\ \A i \in 1 .. k : t[i] = s[i]
  BY Cut
<1>. HIDE DEF t
<1>3. \A i \in 1 .. Len(t) : i \in 1 .. Len(s) /\ t[i] = s[i]
  BY <1>1, <1>2
<1>4. \A i \in 1 .. Len(t) - 1 :
        i \in 1 .. Len(s) - 1 /\ t[i] = s[i] /\ t[i + 1] = s[i + 1]
  BY <1>1, <1>2
<1>. QED
  BY <1>3, <1>4 DEF Passage, Whole, Numbered, Ordered, Later, t

\* A message is sent.
LEMMA Sent ==
  ASSUME NEW s \in Seq(Can!Pieces), NEW kind \in Can!Kinds, NEW of \in Nat
  PROVE  LET t == s \o Can!Message(kind, of)
         IN  /\ t \in Seq(Can!Pieces) /\ Len(t) = Len(s) + 2
             /\ \A i \in 1 .. Len(s) : t[i] = s[i]
             /\ t[Len(s) + 1] = [kind |-> kind, of |-> of, ends |-> FALSE]
             /\ t[Len(s) + 2] = [kind |-> kind, of |-> of, ends |-> TRUE]
<1> DEFINE L == Len(s)
           m == Can!Message(kind, of)
<1>0. ASSUME NEW u \in Seq(Can!Pieces)
      PROVE  /\ s \o u \in Seq(Can!Pieces) /\ Len(s \o u) = L + Len(u)
             /\ \A i \in 1 .. L : (s \o u)[i] = s[i]
             /\ \A i \in 1 .. Len(u) : (s \o u)[L + i] = u[i]
  BY Joined
<1>1. /\ m \in Seq(Can!Pieces) /\ Len(m) = 2
      /\ m[1] = [kind |-> kind, of |-> of, ends |-> FALSE]
      /\ m[2] = [kind |-> kind, of |-> of, ends |-> TRUE]
  BY MessagePieces
<1>. HIDE DEF m
<1>2. /\ s \o m \in Seq(Can!Pieces) /\ Len(s \o m) = L + Len(m)
      /\ \A i \in 1 .. L : (s \o m)[i] = s[i]
      /\ \A i \in 1 .. Len(m) : (s \o m)[L + i] = m[i]
  BY <1>0, <1>1
<1>3. (s \o m)[L + 1] = m[1] /\ (s \o m)[L + 2] = m[2]
  <2>1. 1 \in 1 .. Len(m) /\ 2 \in 1 .. Len(m)
    BY <1>1
  <2>. QED  BY <1>2, <2>1
<1>. QED
  BY <1>1, <1>2, <1>3 DEF m

\* It may be on its way, if it is an answer or the next frame.
LEMMA PassageSend ==
  ASSUME NEW s \in Seq(Can!Pieces), NEW n \in Nat, NEW g \in Seq(Seq(Can!Pieces)),
         Passage(s, n, g), Pushed(g, n), s # <<>> => s[Len(s)].ends,
         NEW kind \in Can!Kinds, NEW of \in Nat, NEW l \in {n, n + 1},
         kind = "frame" => of = n + 1 /\ l = n + 1, kind # "frame" => of = 0,
         NEW t, t = s \o Can!Message(kind, of)
  PROVE  Passage(t, l, g)
<1> DEFINE L == Len(s)
           first == [kind |-> kind, of |-> of, ends |-> FALSE]
           second == [kind |-> kind, of |-> of, ends |-> TRUE]
<1>1. L \in Nat /\ Len(g) \in Nat /\ l \in Nat
  OBVIOUS
<1>2. /\ t \in Seq(Can!Pieces) /\ Len(t) = L + 2
      /\ \A i \in 1 .. L : t[i] = s[i]
      /\ t[L + 1] = first /\ t[L + 2] = second
  <2> DEFINE u == s \o Can!Message(kind, of)
  <2>1. /\ u \in Seq(Can!Pieces) /\ Len(u) = L + 2
        /\ \A i \in 1 .. L : u[i] = s[i]
        /\ u[L + 1] = first /\ u[L + 2] = second
    BY Sent
  <2>2. t = u
    OBVIOUS
  <2>. HIDE DEF u, first, second
  <2>. QED  BY <2>1, <2>2
<1>3. /\ first.kind = kind /\ first.of = of /\ ~first.ends
      /\ second.kind = kind /\ second.of = of /\ second.ends
  OBVIOUS
<1>. HIDE DEF first, second
<1>4. \A i \in 1 .. L + 2 : i \in 1 .. L \/ i = L + 1 \/ i = L + 2
  BY <1>1
<1>5. Whole(t)
  <2>. SUFFICES ASSUME NEW i \in 1 .. L + 1
                PROVE  /\ t[i].ends => ~t[i + 1].ends
                       /\ ~t[i].ends => /\ t[i + 1].ends
                                        /\ t[i + 1].kind = t[i].kind
                                        /\ t[i + 1].of = t[i].of
    BY <1>1, <1>2 DEF Whole
  <2>1. CASE i \in 1 .. L - 1
    <3>1. i \in 1 .. L /\ i + 1 \in 1 .. L
      BY <1>1, <2>1
    <3>. QED  BY <1>2, <2>1, <3>1 DEF Passage, Whole
  <2>2. CASE i = L /\ L # 0
    <3>1. s # <<>> /\ L \in 1 .. L
      BY <1>1, <2>2
    <3>2. s[L].ends
      BY <3>1
    <3>3. t[i].ends /\ ~t[i + 1].ends
      BY <1>2, <1>3, <2>2, <3>1, <3>2
    <3>. QED  BY <3>3
  <2>3. CASE i = L + 1
    <3>1. i + 1 = L + 2
      BY <1>1, <2>3
    <3>. QED  BY <1>2, <1>3, <2>3, <3>1
  <2>4. (i \in 1 .. L - 1) \/ (i = L /\ L # 0) \/ i = L + 1
    BY <1>1
  <2>. QED  BY <2>1, <2>2, <2>3, <2>4
<1>6. Numbered(t, l)
  <2>. SUFFICES ASSUME NEW i \in 1 .. L + 2
                PROVE  IF t[i].kind = "frame" THEN t[i].of \in 1 .. l ELSE t[i].of = 0
    BY <1>2 DEF Numbered
  <2>1. CASE i \in 1 .. L
    <3>1. IF s[i].kind = "frame" THEN s[i].of \in 1 .. n ELSE s[i].of = 0
      BY <2>1 DEF Passage, Numbered
    <3>. QED  BY <1>2, <2>1, <3>1
  <2>2. CASE i \in {L + 1, L + 2}
    BY <1>2, <1>3, <2>2
  <2>. QED  BY <1>4, <2>1, <2>2
<1>7. \A i \in 1 .. L : s[i].kind = "frame" => s[i].of \in 1 .. n
  BY DEF Passage, Numbered
<1>8. Ordered(t)
  <2>. SUFFICES ASSUME NEW i \in 1 .. L + 2, NEW j \in 1 .. L + 2, i < j,
                       t[i].kind = "frame", t[j].kind = "frame", ~t[j].ends
                PROVE  t[i].of < t[j].of
    BY <1>2 DEF Ordered
  <2>1. j # L + 2
    BY <1>2, <1>3
  <2>2. i \in 1 .. L
    BY <1>1, <2>1
  <2>3. CASE j \in 1 .. L
    BY <1>2, <2>2, <2>3 DEF Passage, Ordered
  <2>4. CASE j = L + 1
    <3>1. t[j].of = n + 1
      BY <1>2, <1>3, <2>4
    <3>2. t[i].of \in 1 .. n
      BY <1>2, <1>7, <2>2
    <3>3. \A a \in 1 .. n : a < n + 1
      OBVIOUS
    <3>. QED  BY <3>1, <3>2, <3>3
  <2>. QED  BY <1>4, <2>1, <2>3, <2>4
<1>9. Later(t, g)
  <2>. SUFFICES ASSUME NEW i \in 1 .. Len(g), NEW j \in 1 .. L + 2, t[j].kind = "frame"
                PROVE  g[i][1].of < t[j].of
    BY <1>2 DEF Later
  <2>1. CASE j \in 1 .. L
    BY <1>2, <2>1 DEF Passage, Later
  <2>2. CASE j \in {L + 1, L + 2}
    <3>1. PICK m \in 1 .. n : g[i] = Can!Frame(m)
      BY DEF Pushed
    <3>2. g[i][1].of = m
      BY <3>1, m \in Nat, FramePieces
    <3>3. t[j].of = n + 1
      BY <1>2, <1>3, <2>2
    <3>. QED  BY <3>2, <3>3
  <2>. QED  BY <1>4, <2>1, <2>2
<1>. QED
  BY <1>2, <1>5, <1>6, <1>8, <1>9 DEF Passage, first, second

\* A message that is taken is an answer or one of the frames.
LEMMA MessageTaken ==
  ASSUME NEW s \in Seq(Can!Pieces), NEW n \in Nat, NEW g \in Seq(Seq(Can!Pieces)),
         Passage(s, n, g), NEW e \in 2 .. Len(s), ~s[e - 1].ends
  PROVE  LET r == SubSeq(s, e - 1, e)
         IN  /\ r \in Seq(Can!Pieces) /\ r # <<>> /\ s[e].ends
             /\ r[1] = s[e - 1] /\ r[2] = s[e]
             /\ \/ s[e - 1].kind # "frame" /\ r \in {Can!Ok, Can!Error}
                \/ /\ s[e - 1].kind = "frame" /\ r \notin {Can!Ok, Can!Error}
                   /\ s[e - 1].of \in 1 .. n /\ r = Can!Frame(s[e - 1].of)
<1> DEFINE r == SubSeq(s, e - 1, e)
           b == e - 1
<1>1. Len(s) \in Nat /\ b \in 1 .. Len(s) - 1 /\ e = b + 1 /\ b \in Int /\ e \in Int
  OBVIOUS
<1>2. s[b] \in Can!Pieces /\ s[e] \in Can!Pieces
  BY <1>1, ElementOfSeq
<1>3. /\ r \in Seq(Can!Pieces) /\ Len(r) = 2 /\ r[1] = s[b] /\ r[2] = s[e]
  <2>1. \A i \in b .. e : s[i] \in Can!Pieces
    BY <1>1, ElementOfSeq
  <2>2. /\ SubSeq(s, b, e) \in Seq(Can!Pieces)
        /\ Len(SubSeq(s, b, e)) = 2
        /\ \A i \in 1 .. 2 : SubSeq(s, b, e)[i] = s[b + i - 1]
    BY <1>1, <2>1, SubSeqProperties
  <2>3. b + 1 - 1 = b /\ b + 2 - 1 = e /\ 1 \in 1 .. 2 /\ 2 \in 1 .. 2
    BY <1>1
  <2>. QED  BY <2>2, <2>3
<1>4. ~s[b].ends /\ s[e].ends /\ s[e].kind = s[b].kind /\ s[e].of = s[b].of
  BY <1>1 DEF Passage, Whole
<1>5. r # <<>>
  BY <1>3
<1>. DEFINE k == s[b].kind
            m == s[b].of
<1>6. k \in Can!Kinds /\ m \in Nat
  BY <1>2 DEF Can!Pieces
<1>7. r = Can!Message(k, m)
  <2>1. /\ s[b] = [kind |-> k, of |-> m, ends |-> FALSE]
        /\ s[e] = [kind |-> k, of |-> m, ends |-> TRUE]
    BY <1>2, <1>4 DEF Can!Pieces
  <2>. HIDE DEF r, k, m
  <2>2. /\ Can!Message(k, m) \in Seq(Can!Pieces)
        /\ Len(Can!Message(k, m)) = 2
        /\ Can!Message(k, m)[1] = r[1] /\ Can!Message(k, m)[2] = r[2]
    BY <1>3, <1>6, <2>1, MessagePieces
  <2>3. \A i \in 1 .. 2 : i = 1 \/ i = 2
    OBVIOUS
  <2>. QED  BY <1>3, <2>2, <2>3, SeqEqual
<1>8. IF k = "frame" THEN m \in 1 .. n ELSE m = 0
  BY <1>1 DEF Passage, Numbered
<1>9. r \in {Can!Ok, Can!Error} => k # "frame"
  <2>1. Can!Ok[1].kind = "ok" /\ Can!Error[1].kind = "error"
    BY MessagePieces DEF Can!Ok, Can!Error, Can!Message
  <2>. QED  BY <1>3, <2>1
<1>. QED
  BY <1>3, <1>4, <1>5, <1>6, <1>7, <1>8, <1>9 DEF Can!Kinds, Can!Ok, Can!Error, Can!Frame

\* A frame is pushed: those behind it are later.
LEMMA PassagePush ==
  ASSUME NEW s \in Seq(Can!Pieces), NEW n \in Nat, NEW g \in Seq(Seq(Can!Pieces)),
         Passage(s, n, g), Pushed(g, n),
         NEW e \in 2 .. Len(s), ~s[e - 1].ends, s[e - 1].kind = "frame"
  PROVE  LET h == Append(g, SubSeq(s, e - 1, e))
         IN  /\ h \in Seq(Seq(Can!Pieces))
             /\ Pushed(h, n) /\ Passage(SubSeq(s, e + 1, Len(s)), n, h)
<1> DEFINE r == SubSeq(s, e - 1, e)
           h == Append(g, r)
           t == SubSeq(s, e + 1, Len(s))
           b == e - 1
           G == Len(g)
<1>1. /\ Len(s) \in Nat /\ G \in Nat /\ b \in 1 .. Len(s) - 1 /\ e = b + 1
      /\ e \in 0 .. Len(s) /\ b \in 1 .. Len(s)
  OBVIOUS
<1>2. /\ r \in Seq(Can!Pieces) /\ s[e].ends /\ s[b].of \in 1 .. n
      /\ r = Can!Frame(s[b].of)
  BY MessageTaken
<1>3. r[1].of = s[b].of
  <2>1. s[b].of \in Nat
    BY <1>2
  <2>. QED  BY <1>2, <2>1, FramePieces
<1>. HIDE DEF r
<1>4. /\ h \in Seq(Seq(Can!Pieces)) /\ Len(h) = G + 1
      /\ \A i \in 1 .. G : h[i] = g[i]
      /\ h[G + 1] = r
  BY <1>2, AppendProperties
<1>5. /\ Passage(t, n, g) /\ Len(t) = Len(s) - e
      /\ \A j \in 1 .. Len(s) - e : t[j] = s[e + j]
  BY <1>1, PassageDrop, Dropped
<1>. HIDE DEF h, t
<1>6. \A i \in 1 .. Len(h) : i \in 1 .. G \/ i = G + 1
  BY <1>1, <1>4
<1>7. \A i \in 1 .. G : g[i][1].of < r[1].of
  BY <1>1, <1>3 DEF Passage, Later
<1>8. Pushed(h, n)
  <2>1. ASSUME NEW i \in 1 .. Len(h) PROVE \E m \in 1 .. n : h[i] = Can!Frame(m)
    <3>1. CASE i \in 1 .. G
      BY <1>4, <3>1 DEF Pushed
    <3>2. CASE i = G + 1
      BY <1>2, <1>4, <3>2
    <3>. QED  BY <1>6, <3>1, <3>2
  <2>2. ASSUME NEW i \in 1 .. Len(h), NEW j \in 1 .. Len(h), i < j
        PROVE  h[i][1].of < h[j][1].of
    <3>1. i \in 1 .. G
      BY <1>1, <1>4, <2>2
    <3>2. CASE j \in 1 .. G
      BY <1>4, <2>2, <3>1, <3>2 DEF Pushed
    <3>3. CASE j = G + 1
      BY <1>4, <1>7, <3>1, <3>3
    <3>. QED  BY <1>6, <3>2, <3>3
  <2>. QED  BY <2>1, <2>2 DEF Pushed
<1>9. Later(t, h)
  <2>. SUFFICES ASSUME NEW i \in 1 .. Len(h), NEW j \in 1 .. Len(t), t[j].kind = "frame"
                PROVE  h[i][1].of < t[j].of
    BY DEF Later
  <2>1. CASE i \in 1 .. G
    BY <1>4, <1>5, <2>1 DEF Passage, Later
  <2>2. CASE i = G + 1
    <3> DEFINE p == e + j
    <3>0. j \in 1 .. Len(s) - e
      BY <1>5
    <3>a. t[j] = s[p]
      BY <1>5, <3>0
    <3>b. p \in 1 .. Len(s) /\ b < p /\ p - 1 \in 1 .. Len(s) - 1
          /\ (p - 1) + 1 = p /\ e <= p - 1
      BY <1>1, <3>0
    <3>1. p \in 1 .. Len(s) /\ t[j] = s[p] /\ b < p /\ p - 1 \in 1 .. Len(s) - 1
          /\ (p - 1) + 1 = p /\ e <= p - 1
      BY <3>a, <3>b
    <3>. HIDE DEF p
    <3>2. CASE ~s[p].ends
      <4>1. s[b].of < s[p].of
        BY <1>1, <3>1, <3>2 DEF Passage, Ordered
      <4>. QED  BY <1>3, <1>4, <2>2, <3>1, <4>1
    <3>3. CASE s[p].ends
      <4>1. /\ ~s[p - 1].ends
            /\ s[p].kind = s[p - 1].kind /\ s[p].of = s[p - 1].of
        BY <3>1, <3>3 DEF Passage, Whole
      <4>2. p - 1 # e
        BY <1>2, <4>1
      <4>3. p - 1 \in 1 .. Len(s) /\ b < p - 1
        BY <1>1, <3>1, <4>2
      <4>4. s[b].of < s[p - 1].of
        BY <1>1, <3>1, <4>1, <4>3 DEF Passage, Ordered
      <4>. QED  BY <1>3, <1>4, <2>2, <3>1, <4>1, <4>4
    <3>. QED  BY <3>2, <3>3
  <2>. QED  BY <1>6, <2>1, <2>2
<1>. QED
  BY <1>4, <1>5, <1>8, <1>9 DEF Passage, h, t, r

\* Nothing is lost by sending, nor by taking the first message if it is pushed
\* or no frame.
LEMMA ReachedSend ==
  ASSUME NEW s \in Seq(Can!Pieces), NEW t \in Seq(Can!Pieces), Len(t) >= Len(s),
         \A i \in 1 .. Len(s) : t[i] = s[i],
         NEW m \in Nat, NEW g, Reached(m, s, g)
  PROVE  Reached(m, t, g)
<1>1. CASE \E i \in 1 .. Len(g) : g[i] = Can!Frame(m)
  BY <1>1 DEF Reached
<1>2. CASE ~\E i \in 1 .. Len(g) : g[i] = Can!Frame(m)
  <2>1. PICK i \in 1 .. Len(s) - 1 : s[i] = Can!Frame(m)[1] /\ s[i + 1] = Can!Frame(m)[2]
    BY <1>2 DEF Reached
  <2>2. i \in 1 .. Len(s) /\ i + 1 \in 1 .. Len(s) /\ i \in 1 .. Len(t) - 1
    OBVIOUS
  <2>. QED  BY <2>1, <2>2 DEF Reached
<1>. QED
  BY <1>1, <1>2

LEMMA ReachedTake ==
  ASSUME NEW s \in Seq(Can!Pieces), NEW n \in Nat, NEW g \in Seq(Seq(Can!Pieces)),
         Passage(s, n, g), 2 <= Len(s), ~s[1].ends,
         NEW m \in Nat, Reached(m, s, g)
  PROVE  Reached(m, SubSeq(s, 3, Len(s)), IF s[1].kind = "frame"
                                          THEN Append(g, SubSeq(s, 1, 2)) ELSE g)
<1> DEFINE t == SubSeq(s, 3, Len(s))
           r == SubSeq(s, 1, 2)
           h == IF s[1].kind = "frame" THEN Append(g, r) ELSE g
<1>1. Len(s) \in Nat /\ Len(g) \in Nat /\ 2 \in 0 .. Len(s) /\ 2 \in 2 .. Len(s)
  OBVIOUS
<1>2. /\ r \in Seq(Can!Pieces) /\ s[2].ends
      /\ s[1].kind = "frame" => s[1].of \in 1 .. n /\ r = Can!Frame(s[1].of)
  <2>1. 2 - 1 = 1
    OBVIOUS
  <2>. QED  BY <1>1, <2>1, MessageTaken
<1>3. /\ Len(t) = Len(s) - 2
      /\ \A j \in 1 .. Len(s) - 2 : t[j] = s[2 + j]
  <2>1. t = SubSeq(s, 2 + 1, Len(s))
    OBVIOUS
  <2>. QED  BY <1>1, <2>1, Dropped
<1>. HIDE DEF t, r
<1>4. /\ \A i \in 1 .. Len(g) : i \in 1 .. Len(h) /\ h[i] = g[i]
      /\ s[1].kind = "frame" => Len(g) + 1 \in 1 .. Len(h) /\ h[Len(g) + 1] = r
  BY <1>1, <1>2, AppendProperties
<1>. HIDE DEF h
<1>5. CASE \E i \in 1 .. Len(g) : g[i] = Can!Frame(m)
  BY <1>4, <1>5 DEF Reached, t, h, r
<1>6. CASE ~\E i \in 1 .. Len(g) : g[i] = Can!Frame(m)
  <2>1. PICK i \in 1 .. Len(s) - 1 : s[i] = Can!Frame(m)[1] /\ s[i + 1] = Can!Frame(m)[2]
    BY <1>6 DEF Reached
  <2>2. s[i].kind = "frame" /\ s[i].of = m /\ ~s[i].ends
    <3>1. Can!Frame(m)[1] = [kind |-> "frame", of |-> m, ends |-> FALSE]
      BY FramePieces
    <3>. QED  BY <2>1, <3>1
  <2>3. CASE i = 1
    <3>1. h[Len(g) + 1] = Can!Frame(m)
      BY <1>2, <1>4, <2>2, <2>3
    <3>. QED  BY <1>4, <2>2, <2>3, <3>1 DEF Reached, t, h, r
  <2>4. i # 2
    BY <1>2, <2>2
  <2>5. CASE i > 2
    <3> DEFINE q == i - 2
    <3>1. i \in 1 .. Len(s) - 1 /\ i \in Int
      OBVIOUS
    <3>2. q \in 1 .. Len(s) - 2 /\ q + 1 \in 1 .. Len(s) - 2 /\ 2 + q = i
          /\ 2 + (q + 1) = i + 1
      BY <1>1, <2>5, <3>1
    <3>. HIDE DEF q
    <3>3. t[q] = s[i] /\ t[q + 1] = s[i + 1] /\ q \in 1 .. Len(t) - 1
      <4>1. t[q] = s[2 + q] /\ t[q + 1] = s[2 + (q + 1)]
        BY <1>3, <3>2
      <4>2. q \in 1 .. Len(t) - 1
        BY <1>1, <1>3, <3>2
      <4>. QED  BY <3>2, <4>1, <4>2
    <3>. QED  BY <2>1, <3>3 DEF Reached, t, h, r
  <2>. QED  BY <1>1, <2>3, <2>4, <2>5
<1>. QED
  BY <1>5, <1>6

-----------------------------------------------------------------------------
(* Types *)

\* What the program and everything around it do to the connection.
CanStep ==
  \/ Can!Dial /\ try' \in {try, 0}
  \/ Can!Connect \/ Can!PumpReceive \/ Can!PumpClosed
  \/ pc = "Drain" /\ (Can!Drain \/ Can!DrainDone)
  \/ Can!Send
  \/ Can!ServerStops \/ Can!ServerVanishes \/ Can!ServerStarts
  \/ Can!ServerAnswers(Can!Ok) \/ Can!ServerAnswers(Can!Error) \/ Can!BusFrame
  \/ Can!Tick \/ Can!Killed
  \/ UNCHANGED can

LEMMA StepsOfCan == [Next]_vars => CanStep
<1>1. CASE Start \/ Load \/ Awake \/ Redial \/ Read \/ Save \/ Publish \/ MqttWorld
             \/ UNCHANGED vars
  BY <1>1 DEF Start, Load, Awake, Redial, Read, Save, Publish, MqttWorld, vars, CanStep
<1>2. CASE CanInit \/ Connect \/ Drain
  BY <1>2 DEF CanInit, Connect, Drain, CanStep
<1>3. CASE Pump
  <2>1. Can!PumpEmpty \/ Can!TooEarly => UNCHANGED can
    BY DEF Can!PumpEmpty, Can!TooEarly, Can!canvars, Can!client, can
  <2>. QED  BY <1>3, <2>1 DEF Pump, Can!Redial, CanStep
<1>4. CASE Engine
  BY <1>4 DEF Engine, CanStep
<1>5. CASE Tick \/ CanWorld \/ Kill
  BY <1>5 DEF Tick, CanWorld, Kill, CanStep
<1>. QED
  BY <1>1, <1>2, <1>3, <1>4, <1>5 DEF Next, Program

LEMMA TakenTypes ==
  ASSUME NEW s \in Seq(Can!Pieces)
  PROVE  /\ Can!Taken(s) \in Seq(Can!Pieces)
         /\ Can!Kept(s) \in Seq(Can!Pieces) /\ Len(Can!Kept(s)) <= Len(s)
<1>1. Len(s) \in Nat /\ <<>> \in Seq(Can!Pieces) /\ Len(<<>>) = 0
  OBVIOUS
<1>2. PICK b \in 1 .. Len(s) + 1 :
        \/ /\ Can!Taken(s) = <<>>
           /\ Can!Kept(s) \in {<<>>, SubSeq(s, b, Len(s))}
        \/ \E e \in b + 1 .. Len(s) :
             /\ Can!Taken(s) = SubSeq(s, b, e)
             /\ Can!Kept(s) = SubSeq(s, e + 1, Len(s))
  <2>1. PICK b \in 1 .. Len(s) + 1 :
           /\ \A i \in 1 .. b - 1 : s[i].ends
           /\ b <= Len(s) => ~s[b].ends
           /\ \/ /\ Can!Taken(s) = <<>>
                 /\ \A i \in b .. Len(s) : ~s[i].ends
                 /\ Can!Kept(s) = IF Len(s) - b + 1 = Room THEN <<>>
                                  ELSE SubSeq(s, b, Len(s))
              \/ \E e \in b + 1 .. Len(s) :
                   /\ s[e].ends /\ \A i \in b .. e - 1 : ~s[i].ends
                   /\ Can!Taken(s) = SubSeq(s, b, e)
                   /\ Can!Kept(s) = SubSeq(s, e + 1, Len(s))
    BY TakenKept
  <2>. QED  BY <2>1
<1>3. /\ SubSeq(s, b, Len(s)) \in Seq(Can!Pieces)
      /\ Len(SubSeq(s, b, Len(s))) <= Len(s)
  <2> DEFINE k == b - 1
  <2>1. k \in 0 .. Len(s) /\ b = k + 1
    BY <1>1
  <2>2. /\ SubSeq(s, k + 1, Len(s)) \in Seq(Can!Pieces)
        /\ Len(SubSeq(s, k + 1, Len(s))) = Len(s) - k
    BY <2>1, Dropped
  <2>. QED  BY <1>1, <2>1, <2>2
<1>4. CASE \E e \in b + 1 .. Len(s) :
             /\ Can!Taken(s) = SubSeq(s, b, e)
             /\ Can!Kept(s) = SubSeq(s, e + 1, Len(s))
  <2>1. PICK e \in b + 1 .. Len(s) :
             /\ Can!Taken(s) = SubSeq(s, b, e)
             /\ Can!Kept(s) = SubSeq(s, e + 1, Len(s))
    BY <1>4
  <2>2. e \in 0 .. Len(s) /\ \A i \in b .. e : i \in 1 .. Len(s)
    BY <1>1
  <2>3. /\ SubSeq(s, e + 1, Len(s)) \in Seq(Can!Pieces)
        /\ Len(SubSeq(s, e + 1, Len(s))) = Len(s) - e
    BY <2>2, Dropped
  <2>4. SubSeq(s, b, e) \in Seq(Can!Pieces)
    <3>1. \A i \in b .. e : s[i] \in Can!Pieces
      BY <2>2, ElementOfSeq
    <3>. QED  BY <1>1, <3>1, SubSeqProperties
  <2>. QED  BY <1>1, <2>1, <2>2, <2>3, <2>4
<1>5. CASE Can!Taken(s) = <<>> /\ Can!Kept(s) \in {<<>>, SubSeq(s, b, Len(s))}
  <2>1. CASE Can!Kept(s) = <<>>
    BY <1>1, <1>5, <2>1
  <2>2. CASE Can!Kept(s) = SubSeq(s, b, Len(s))
    BY <1>1, <1>3, <1>5, <2>2
  <2>. QED  BY <1>5, <2>1, <2>2
<1>. QED
  BY <1>2, <1>4, <1>5

LEMMA ReceiveTypes ==
  ASSUME Can!CanTypeOK, NEW n \in 1 .. Len(wire), Can!Receive(n)
  PROVE  Can!CanTypeOK'
<1>1. /\ sc_in \in Seq(Can!Pieces) /\ Len(sc_in) <= Room /\ wire \in Seq(Can!Pieces)
      /\ Len(wire) \in Nat /\ n \in 0 .. Len(wire) /\ Room \in Nat
  BY HostAssumption DEF Can!CanTypeOK, Can!SocketcandAssumption
<1> DEFINE chunk == SubSeq(wire, 1, n)
<1>2. chunk \in Seq(Can!Pieces) /\ Len(chunk) = n
  BY <1>1, Cut
<1>3. SubSeq(wire, n + 1, Len(wire)) \in Seq(Can!Pieces)
  BY <1>1, Dropped
<1>4. Can!Feed(chunk) \in Seq(Can!Pieces) /\ Len(Can!Feed(chunk)) <= Room
  <2>1. sc_in \o chunk \in Seq(Can!Pieces) /\ Len(sc_in \o chunk) = Len(sc_in) + n
    <3>. HIDE DEF chunk
    <3>. QED  BY <1>1, <1>2, Joined
  <2>2. <<>> \in Seq(Can!Pieces) /\ Len(<<>>) = 0
    OBVIOUS
  <2>. HIDE DEF chunk
  <2>. QED  BY <1>1, <1>2, <2>1, <2>2 DEF Can!Feed
<1>5. missed' \in BOOLEAN
  BY DEF Can!Receive
<1>. QED
  BY <1>3, <1>4, <1>5 DEF Can!Receive, Can!CanTypeOK

LEMMA DisconnectTypes == Can!CanTypeOK /\ Can!Disconnect => Can!CanTypeOK'
<1>1. Can!Disconnect => missed' \in BOOLEAN
  BY DEF Can!Disconnect
<1>2. 0 \in 0 .. ReplyTicks /\ 0 <= Room
  BY HostAssumption DEF Can!SocketcandAssumption
<1>. QED
  BY <1>1, <1>2 DEF Can!Disconnect, Can!CanTypeOK, Can!Peers

LEMMA CanTypesNext ==
  ASSUME Can!CanTypeOK, CanStep
  PROVE  Can!CanTypeOK'
<1>0. /\ 0 \in 0 .. ReplyTicks /\ 0 \in 0 .. RetryTicks /\ RetryTicks \in 0 .. RetryTicks
      /\ 0 <= Room /\ Room \in Nat /\ ReplyTicks \in Nat /\ RetryTicks \in Nat
  BY HostAssumption DEF Can!SocketcandAssumption
<1>a. /\ Can!Taken(sc_in) \in Seq(Can!Pieces) /\ Can!Kept(sc_in) \in Seq(Can!Pieces)
      /\ Len(Can!Kept(sc_in)) <= Room
  <2>1. sc_in \in Seq(Can!Pieces) /\ Len(sc_in) <= Room /\ Len(sc_in) \in Nat
    BY DEF Can!CanTypeOK
  <2>2. /\ Can!Taken(sc_in) \in Seq(Can!Pieces) /\ Can!Kept(sc_in) \in Seq(Can!Pieces)
        /\ Len(Can!Kept(sc_in)) <= Len(sc_in)
    BY <2>1, TakenTypes
  <2>3. Len(Can!Kept(sc_in)) \in Nat
    BY <2>2
  <2>. QED  BY <1>0, <2>1, <2>2, <2>3
<1>1. CASE Can!Dial /\ try' \in {try, 0}
  <2>1. try' \in 0 .. RetryTicks
    BY <1>0, <1>1 DEF Can!CanTypeOK
  <2>2. sc_in' \in Seq(Can!Pieces) /\ Len(sc_in') <= Room
    <3>1. sc_in' = <<>> \/ sc_in' = sc_in
      BY <1>1 DEF Can!Dial
    <3>2. CASE sc_in' = <<>>
      BY <1>0, <3>2
    <3>3. CASE sc_in' = sc_in
      BY <3>3 DEF Can!CanTypeOK
    <3>. QED  BY <3>1, <3>2, <3>3
  <2>. QED
    BY <1>0, <1>1, <2>1, <2>2 DEF Can!Dial, Can!CanTypeOK, Can!Peers
<1>2. CASE Can!SkipMessage
  BY <1>a, <1>2 DEF Can!SkipMessage, Can!CanTypeOK
<1>3. CASE Can!ReplyOk
  BY <1>0, <1>a, <1>3 DEF Can!ReplyOk, Can!Connecting, Can!CanTypeOK, Can!Peers
<1>4. CASE Can!Refusal \/ Can!NoReply \/ Can!PumpClosed
  BY <1>4, DisconnectTypes DEF Can!Refusal, Can!NoReply, Can!PumpClosed
<1>5. CASE Can!ReceiveReply \/ Can!PumpReceive
  <2>1. PICK n \in 1 .. Len(wire) : Can!Receive(n)
    BY <1>5 DEF Can!ReceiveReply, Can!PumpReceive
  <2>. QED  BY <2>1, ReceiveTypes
<1>6. CASE Can!Drain
  <2>1. given' \in Seq(Seq(Can!Pieces))
    BY <1>a, <1>6, AppendProperties DEF Can!Drain, Can!Reply, Can!CanTypeOK
  <2>. QED  BY <1>a, <1>6, <2>1 DEF Can!Drain, Can!CanTypeOK
<1>7. CASE Can!DrainDone
  BY <1>a, <1>7 DEF Can!DrainDone, Can!CanTypeOK
<1>8. CASE Can!Send
  <2>1. CASE Can!Disconnect
    BY <2>1, DisconnectTypes
  <2>2. CASE ~Can!Disconnect
    BY <1>8, <2>2 DEF Can!Send, Can!CanTypeOK, Can!Peers, Can!canvars, Can!client
  <2>. QED  BY <2>1, <2>2
<1>9. CASE Can!ServerStops \/ Can!ServerVanishes
  <2>1. PICK n \in 0 .. Len(wire) : wire' = SubSeq(wire, 1, n)
    BY <1>9 DEF Can!ServerStops, Can!ServerVanishes, Can!Cutoff
  <2>2. wire' \in Seq(Can!Pieces)
    BY <2>1, Cut DEF Can!CanTypeOK
  <2>3. missed' \in BOOLEAN
    BY <1>9 DEF Can!ServerStops, Can!ServerVanishes, Can!Cutoff
  <2>. QED
    BY <1>9, <2>2, <2>3 DEF Can!ServerStops, Can!ServerVanishes, Can!Cutoff, Can!client,
         Can!CanTypeOK, Can!Peers
<1>10. CASE Can!ServerStarts
  BY <1>10 DEF Can!ServerStarts, Can!client, Can!CanTypeOK
<1>11. CASE Can!ServerAnswers(Can!Ok) \/ Can!ServerAnswers(Can!Error)
  <2>1. Can!Ok \in Seq(Can!Pieces) /\ Can!Error \in Seq(Can!Pieces)
    BY MessagePieces DEF Can!Ok, Can!Error, Can!Kinds
  <2>2. wire' \in Seq(Can!Pieces)
    BY <1>11, <2>1, Joined DEF Can!ServerAnswers, Can!CanTypeOK
  <2>. QED
    BY <1>11, <2>2 DEF Can!ServerAnswers, Can!Owes, Can!client, Can!CanTypeOK, Can!Peers
<1>12. CASE Can!BusFrame
  <2>1. Can!Frame(frame + 1) \in Seq(Can!Pieces)
    <3>1. frame + 1 \in Nat
      BY DEF Can!CanTypeOK
    <3>. QED  BY <3>1, FramePieces
  <2>2. wire' \in Seq(Can!Pieces)
    BY <1>12, <2>1, Joined DEF Can!BusFrame, Can!CanTypeOK
  <2>. QED
    BY <1>12, <2>2 DEF Can!BusFrame, Can!client, Can!CanTypeOK
<1>13. CASE Can!Tick
  <2>1. try \in Nat /\ waited \in Nat
    BY DEF Can!CanTypeOK
  <2>2. try' \in 0 .. RetryTicks /\ waited' \in 0 .. ReplyTicks
    BY <1>0, <1>13, <2>1, Capped DEF Can!Tick
  <2>. QED  BY <1>13, <2>2 DEF Can!Tick, Can!CanTypeOK
<1>14. CASE Can!Killed
  <2>1. missed' \in BOOLEAN
    BY <1>14 DEF Can!Killed
  <2>. QED  BY <1>0, <1>14, <2>1 DEF Can!Killed, Can!CanTypeOK, Can!Peers
<1>15. CASE UNCHANGED can
  BY <1>15 DEF can, Can!CanTypeOK
<1>. QED
  BY <1>1, <1>2, <1>3, <1>4, <1>5, <1>6, <1>7, <1>8, <1>9, <1>10, <1>11, <1>12,
     <1>13, <1>14, <1>15 DEF CanStep, Can!Connect

\* Types of what the program keeps of the broker, and of the files.
LEMMA MqttTypesNext ==
  ASSUME TypeOK, HostInv, [Next]_vars
  PROVE  Mqtt!MqttTypeOK'
<1>0. /\ 0 \in 0 .. RetryTicks /\ RetryTicks \in 0 .. RetryTicks /\ 0 \in 0 .. BeatTicks
      /\ RetryTicks \in Nat /\ BeatTicks \in Nat
  BY HostAssumption DEF Mqtt!MqttAssumption
<1>. USE DEF Mqtt!MqttTypeOK
<1>a. Mqtt!MqttTypeOK /\ state \in States
  BY DEF TypeOK
<1>b. <<>> \in Seq(Mqtt!Commands)
  OBVIOUS
<1>1. CASE UNCHANGED mqtt
  BY <1>a, <1>1 DEF mqtt
<1>2. CASE Start \/ Redial
  <2>1. Mqtt!NoSocket \/ Mqtt!HasSocket => UNCHANGED mqtt
    BY DEF Mqtt!NoSocket, Mqtt!HasSocket, Mqtt!mqttvars, mqtt
  <2>2. CASE Mqtt!Connect
    <3>1. alive' \in BOOLEAN
      BY <2>2 DEF Mqtt!Connect
    <3>. QED  BY <1>0, <1>a, <2>2, <3>1 DEF Mqtt!Connect
  <2>. QED  BY <1>1, <1>2, <2>1, <2>2 DEF Start, Redial, Mqtt!Reconnect
<1>3. CASE Read
  <2>1. Mqtt!ReadNothing \/ Mqtt!ReadLater => UNCHANGED mqtt
    BY DEF Mqtt!ReadNothing, Mqtt!ReadLater, Mqtt!mqttvars, mqtt
  <2>2. CASE Mqtt!ReadClosed \/ Mqtt!ReadConnack \/ Mqtt!ReadRefused
    BY <1>a, <1>b, <2>2 DEF Mqtt!ReadClosed, Mqtt!ReadConnack, Mqtt!ReadRefused
  <2>3. ASSUME NEW c \in Mqtt!Commands, Command(c)
        PROVE  Mqtt!MqttTypeOK'
    <3>1. Mqtt!ReadCommand(c)
      BY <2>3 DEF Command
    <3>2. Tail(inbox) \in Seq(Mqtt!Commands)
      BY <1>a, <3>1 DEF Mqtt!ReadCommand
    <3>. QED  BY <1>a, <3>1, <3>2 DEF Mqtt!ReadCommand
  <2>. QED  BY <1>1, <1>3, <2>1, <2>2, <2>3 DEF Read
<1>4. CASE Publish
  BY <1>0, <1>a, <1>4 DEF Publish, Mqtt!Publish
<1>5. CASE Tick
  <2>1. redial \in Nat /\ beat \in Nat
    BY <1>a
  <2>2. redial' \in 0 .. RetryTicks /\ beat' \in 0 .. BeatTicks
    BY <1>0, <1>5, <2>1, Capped DEF Tick, Mqtt!Tick
  <2>. QED  BY <1>a, <1>5, <2>2 DEF Tick, Mqtt!Tick
<1>6. CASE MqttWorld
  <2>1. CASE Mqtt!Drops \/ Mqtt!BrokerStops \/ Mqtt!BrokerStarts
    BY <1>a, <2>1 DEF Mqtt!Drops, Mqtt!BrokerStops, Mqtt!BrokerStarts
  <2>2. ASSUME NEW c \in Mqtt!Commands, Mqtt!Operator(c)
        PROVE  Mqtt!MqttTypeOK'
    <3>1. Append(inbox, c) \in Seq(Mqtt!Commands)
      BY <1>a
    <3>. QED  BY <1>a, <2>2, <3>1 DEF Mqtt!Operator
  <2>. QED  BY <1>6, <2>1, <2>2 DEF MqttWorld
<1>7. CASE Kill
  BY <1>0, <1>a, <1>b, <1>7 DEF Kill, Mqtt!Killed
<1>8. CASE CanInit \/ Load \/ Awake \/ Connect \/ Pump \/ Drain \/ Engine \/ Save
             \/ CanWorld \/ UNCHANGED vars
  BY <1>1, <1>8 DEF CanInit, Load, Awake, Connect, Pump, Drain, Engine, Save, CanWorld, vars
<1>. QED
  BY <1>2, <1>3, <1>4, <1>5, <1>6, <1>7, <1>8 DEF Next, Program

LEMMA FileTypesNext ==
  ASSUME TypeOK, HostInv, [Next]_vars
  PROVE  Store!FileTypeOK'
<1>1. Store!FileTypeOK
  BY DEF TypeOK
<1>2. [Store!Next]_store
  BY StepsOfStore
<1>. QED
  BY <1>1, <1>2
     DEF Store!Next, Store!Save, Store!Write, Store!Fopen, Store!Fwrite, Store!Fclose,
         Store!Rename, Store!Report, Store!Kill, Store!FileTypeOK, Store!Steps, store

\* The other variables of the program.
LEMMA MainTypesNext ==
  ASSUME TypeOK, HostInv, [Next]_vars
  PROVE  /\ pc' \in {"down", "CanInit", "Load", "Loop", "Pump", "Drain", "Engine",
                     "Redial", "Read", "Save", "Publish"}
         /\ booting' \in BOOLEAN /\ state' \in States /\ runtime' \in Blobs
         /\ budget' \in [Disturbances -> Nat]
<1>a. /\ pc \in {"down", "CanInit", "Load", "Loop", "Pump", "Drain", "Engine",
                 "Redial", "Read", "Save", "Publish"}
      /\ booting \in BOOLEAN /\ state \in States
      /\ budget \in [Disturbances -> Nat]
  BY DEF TypeOK
<1>b. runtime' \in Blobs
  BY StepsOfStore DEF HostInv
<1>c. \A d \in Disturbances : Spend(d) => budget' \in [Disturbances -> Nat]
  BY <1>a DEF Spend
<1>d. {"turn", "late", "fail", "slow", "server", "vanish", "frame", "drop", "broker",
       "command", "kill"} \subseteq Disturbances
  BY DEF Disturbances
<1>1. CASE Start \/ CanInit \/ Load \/ Awake \/ Redial \/ Publish
  BY <1>a, <1>b, <1>1 DEF Start, CanInit, Load, Awake, Redial, Publish
<1>2. CASE Connect \/ Pump \/ Drain
  BY <1>a, <1>b, <1>2 DEF Connect, Pump, Drain
<1>3. CASE Engine
  BY <1>a, <1>b, <1>c, <1>d, <1>3 DEF Engine
<1>4. CASE Read \/ Save
  BY <1>a, <1>b, <1>c, <1>d, <1>4 DEF Read, Command, Save
<1>5. CASE Tick \/ CanWorld \/ MqttWorld
  BY <1>a, <1>b, <1>c, <1>d, <1>5 DEF Tick, CanWorld, MqttWorld, main
<1>6. CASE Kill
  BY <1>a, <1>b, <1>c, <1>d, <1>6 DEF Kill
<1>7. CASE UNCHANGED vars
  BY <1>a, <1>b, <1>7 DEF vars, main
<1>. QED
  BY <1>1, <1>2, <1>3, <1>4, <1>5, <1>6, <1>7 DEF Next, Program

LEMMA TypesInit == Init => TypeOK
<1>0. /\ 0 \in 0 .. ReplyTicks /\ RetryTicks \in 0 .. RetryTicks /\ 0 \in 0 .. BeatTicks
      /\ 0 <= Room /\ <<>> \in Seq(Can!Pieces) /\ <<>> \in Seq(Seq(Can!Pieces))
      /\ <<>> \in Seq(Mqtt!Commands) /\ Len(<<>>) = 0
  BY HostAssumption DEF Can!SocketcandAssumption, Mqtt!MqttAssumption
<1>1. ASSUME Init PROVE Can!CanTypeOK
  BY <1>0, <1>1 DEF Init, Can!Init, Can!CanTypeOK, Can!Peers
<1>2. ASSUME Init PROVE Mqtt!MqttTypeOK
  BY <1>0, <1>2 DEF Init, Mqtt!Init, Mqtt!MqttTypeOK
<1>3. ASSUME Init PROVE Store!FileTypeOK
  BY <1>3 DEF Init, Store!Init, Store!FileTypeOK, Store!Steps
<1>. QED
  BY <1>1, <1>2, <1>3, HostAssumption DEF Init, TypeOK

\* Types, of the program and of what is around it: among them that the input
\* buffer of sc_feed never holds more than it has room for, and that no wait
\* exceeds its time.
THEOREM HostTypes == Spec => []TypeOK
<1>1. TypeOK /\ HostInv /\ [Next]_vars => TypeOK' /\ HostInv'
  <2>1. TypeOK /\ [Next]_vars => Can!CanTypeOK'
    BY StepsOfCan, CanTypesNext DEF TypeOK
  <2>. QED
    BY <2>1, StepsOfStore, MqttTypesNext, FileTypesNext, MainTypesNext DEF TypeOK
<1>. QED
  BY <1>1, TypesInit, InitOfStore, PTL DEF Spec

-----------------------------------------------------------------------------
(* The stream *)

\* sc_drain_rx runs on a connection that is up, and no connection is lost while
\* it runs.
LEMMA DrainingNext ==
  ASSUME Draining, [Next]_vars
  PROVE  Draining'
<1>1. CASE Pump
  BY <1>1 DEF Pump, Draining, Can!Redial, Can!TooEarly, Can!PumpReceive, Can!PumpEmpty,
       Can!PumpClosed, Can!canvars, Can!client
<1>2. CASE Drain
  BY <1>2 DEF Drain, Draining, Can!Drain, Can!DrainDone
<1>3. CASE Connect
  BY <1>3 DEF Connect, Draining
<1>4. CASE Start \/ CanInit \/ Load \/ Awake \/ Engine \/ Redial \/ Publish \/ Kill
  BY <1>4 DEF Start, CanInit, Load, Awake, Engine, Redial, Publish, Kill, Draining
<1>5. CASE Read \/ Save
  BY <1>5 DEF Read, Command, Save, Draining
<1>6. CASE Tick \/ MqttWorld \/ UNCHANGED vars
  BY <1>6 DEF Tick, Can!Tick, MqttWorld, vars, main, can, Draining
<1>7. CASE CanWorld
  BY <1>7 DEF CanWorld, main, Draining, Can!ServerStops, Can!ServerVanishes, Can!Cutoff,
       Can!ServerStarts, Can!ServerAnswers, Can!BusFrame, Can!client
<1>. QED
  BY <1>1, <1>2, <1>3, <1>4, <1>5, <1>6, <1>7 DEF Next, Program

LEMMA ComingIs ==
  ASSUME Can!CanTypeOK
  PROVE  /\ sc_in \in Seq(Can!Pieces) /\ wire \in Seq(Can!Pieces)
         /\ Len(sc_in) \in Nat /\ Len(wire) \in Nat
         /\ Can!Coming \in Seq(Can!Pieces) /\ Len(Can!Coming) \in Nat
         /\ Len(Can!Coming) = Len(sc_in) + Len(wire)
         /\ \A i \in 1 .. Len(sc_in) : Can!Coming[i] = sc_in[i]
         /\ \A i \in 1 .. Len(wire) : Can!Coming[Len(sc_in) + i] = wire[i]
         /\ frame \in Nat /\ given \in Seq(Seq(Can!Pieces))
<1>1. sc_in \in Seq(Can!Pieces) /\ wire \in Seq(Can!Pieces)
  BY DEF Can!CanTypeOK
<1>2. /\ sc_in \o wire \in Seq(Can!Pieces) /\ Len(sc_in \o wire) = Len(sc_in) + Len(wire)
      /\ \A i \in 1 .. Len(sc_in) : (sc_in \o wire)[i] = sc_in[i]
      /\ \A i \in 1 .. Len(wire) : (sc_in \o wire)[Len(sc_in) + i] = wire[i]
  BY <1>1, Joined
<1>3. Len(sc_in) \in Nat /\ Len(wire) \in Nat /\ Len(sc_in \o wire) \in Nat
  BY <1>1, <1>2
<1>. QED
  BY <1>1, <1>2, <1>3 DEF Can!Coming, Can!CanTypeOK

\* What is left of the stream when k pieces at its front go.
LEMMA Front ==
  ASSUME NEW s \in Seq(Can!Pieces), NEW t \in Seq(Can!Pieces), NEW k \in 0 .. Len(s)
  PROVE  SubSeq(s, k + 1, Len(s)) \o t = SubSeq(s \o t, k + 1, Len(s \o t))
<1> DEFINE a == SubSeq(s, k + 1, Len(s))
           c == s \o t
<1>1. /\ Len(s) \in Nat /\ Len(t) \in Nat /\ c \in Seq(Can!Pieces)
      /\ Len(c) = Len(s) + Len(t)
      /\ \A i \in 1 .. Len(s) : c[i] = s[i]
      /\ \A i \in 1 .. Len(t) : c[Len(s) + i] = t[i]
  BY Joined
<1>2. /\ a \in Seq(Can!Pieces) /\ Len(a) = Len(s) - k
      /\ \A i \in 1 .. Len(s) - k : a[i] = s[k + i]
  BY Dropped
<1>a. ASSUME NEW u \in Seq(Can!Pieces)
      PROVE  /\ u \o t \in Seq(Can!Pieces) /\ Len(u \o t) = Len(u) + Len(t)
             /\ \A i \in 1 .. Len(u) : (u \o t)[i] = u[i]
             /\ \A i \in 1 .. Len(t) : (u \o t)[Len(u) + i] = t[i]
  BY Joined
<1>. HIDE DEF a, c
<1>3. /\ a \o t \in Seq(Can!Pieces) /\ Len(a \o t) = Len(a) + Len(t)
      /\ \A i \in 1 .. Len(a) : (a \o t)[i] = a[i]
      /\ \A i \in 1 .. Len(t) : (a \o t)[Len(a) + i] = t[i]
  BY <1>2, <1>a
<1> DEFINE d == SubSeq(c, k + 1, Len(c))
<1>4. /\ d \in Seq(Can!Pieces) /\ Len(d) = Len(c) - k
      /\ \A i \in 1 .. Len(c) - k : d[i] = c[k + i]
  <2>1. k \in 0 .. Len(c)
    BY <1>1
  <2>. QED  BY <1>1, <2>1, Dropped
<1>5. Len(d) = Len(a \o t)
  BY <1>1, <1>2, <1>3, <1>4
<1>. HIDE DEF d
<1>6. ASSUME NEW i \in 1 .. Len(d) PROVE d[i] = (a \o t)[i]
  <2>1. d[i] = c[k + i]
    BY <1>4
  <2>2. CASE i \in 1 .. Len(a)
    <3>1. k + i \in 1 .. Len(s)
      BY <1>1, <1>2, <2>2
    <3>. QED  BY <1>1, <1>2, <1>3, <2>1, <2>2, <3>1
  <2>3. CASE i \notin 1 .. Len(a)
    <3> DEFINE j == i - Len(a)
    <3>1. j \in 1 .. Len(t) /\ Len(a) + j = i /\ k + i = Len(s) + j
      BY <1>1, <1>2, <1>4, <2>3
    <3>. HIDE DEF j
    <3>2. (a \o t)[i] = t[j] /\ c[k + i] = t[j]
      <4>1. (a \o t)[Len(a) + j] = t[j] /\ c[Len(s) + j] = t[j]
        BY <1>1, <1>3, <3>1
      <4>. QED  BY <3>1, <4>1
    <3>. QED  BY <2>1, <3>2
  <2>. QED  BY <2>2, <2>3
<1>7. d = a \o t
  BY <1>3, <1>4, <1>5, <1>6, SeqEqual
<1>. QED
  BY <1>7 DEF d, a, c

\* Pieces at the front of the stream go: what is left may be on its way.
LEMMA FrontGoes ==
  ASSUME Can!CanTypeOK, StreamInv, NEW k \in 0 .. Len(Can!Coming),
         Can!Coming' = SubSeq(Can!Coming, k + 1, Len(Can!Coming)),
         UNCHANGED <<frame, given>>
  PROVE  /\ Len(Can!Coming') = Len(Can!Coming) - k
         /\ \A i \in 1 .. Len(Can!Coming) - k : Can!Coming'[i] = Can!Coming[k + i]
         /\ Passage(Can!Coming', frame', given') /\ Pushed(given', frame')
         /\ Open /\ Can!Coming' # <<>> => Can!Coming'[Len(Can!Coming')].ends
<1> DEFINE s == Can!Coming
           t == SubSeq(s, k + 1, Len(s))
<1>1. s \in Seq(Can!Pieces) /\ Len(s) \in Nat /\ frame \in Nat
      /\ given \in Seq(Seq(Can!Pieces))
  BY ComingIs
<1>2. Passage(s, frame, given) /\ Pushed(given, frame)
      /\ (Open /\ s # <<>> => s[Len(s)].ends)
  BY DEF StreamInv
<1>. HIDE DEF s
<1>3. Passage(t, frame, given)
  BY <1>1, <1>2, PassageDrop DEF s
<1>4. /\ t \in Seq(Can!Pieces) /\ Len(t) = Len(s) - k
      /\ \A i \in 1 .. Len(s) - k : t[i] = s[k + i]
  BY <1>1, Dropped DEF s
<1>5. Open /\ t # <<>> => t[Len(t)].ends
  <2>. SUFFICES ASSUME Open, t # <<>> PROVE t[Len(t)].ends
    OBVIOUS
  <2>. HIDE DEF t
  <2>1. Len(t) \in Nat \ {0}
    BY <1>4, EmptySeq
  <2>2. Len(t) \in 1 .. Len(s) - k /\ k + Len(t) = Len(s) /\ Len(s) # 0
    BY <1>1, <1>4, <2>1 DEF s
  <2>3. s # <<>>
    BY <2>2
  <2>. QED  BY <1>2, <1>4, <2>2, <2>3
<1>. QED
  BY <1>2, <1>3, <1>4, <1>5 DEF s

\* sc_take_message on the stream: what leaves it, and that the input buffer is
\* never cleared for being full.
LEMMA KeptComing ==
  ASSUME Can!CanTypeOK, StreamInv, sc_in' = Can!Kept(sc_in), wire' = wire
  PROVE  \/ /\ Can!Reply = <<>>
            /\ \E k \in 0 .. Len(Can!Coming) :
                 /\ Can!Coming' = SubSeq(Can!Coming, k + 1, Len(Can!Coming))
                 /\ Can!Coming # <<>> /\ ~Can!Coming[1].ends => k = 0
         \/ \E e \in 2 .. Len(Can!Coming) :
              /\ ~Can!Coming[e - 1].ends
              /\ Can!Reply = SubSeq(Can!Coming, e - 1, e)
              /\ Can!Coming' = SubSeq(Can!Coming, e + 1, Len(Can!Coming))
              /\ ~Can!Coming[1].ends => e = 2
<1> DEFINE L == Len(sc_in)
           s == Can!Coming
<1>1. /\ sc_in \in Seq(Can!Pieces) /\ wire \in Seq(Can!Pieces)
      /\ L \in Nat /\ Len(wire) \in Nat /\ s \in Seq(Can!Pieces)
      /\ Len(s) = L + Len(wire)
      /\ \A i \in 1 .. L : s[i] = sc_in[i]
      /\ \A i \in 1 .. L : i \in 1 .. Len(s)
  BY ComingIs
<1>2. Room \in Nat /\ Room >= 2
  BY HostAssumption DEF Can!SocketcandAssumption
<1>3. \A i \in 1 .. L - 1 :
        /\ sc_in[i].ends => ~sc_in[i + 1].ends
        /\ ~sc_in[i].ends => sc_in[i + 1].ends
  <2>. SUFFICES ASSUME NEW i \in 1 .. L - 1
                PROVE  /\ sc_in[i].ends => ~sc_in[i + 1].ends
                       /\ ~sc_in[i].ends => sc_in[i + 1].ends
    OBVIOUS
  <2>1. i \in 1 .. L /\ i + 1 \in 1 .. L /\ i \in 1 .. Len(s) - 1
    BY <1>1
  <2>2. s[i] = sc_in[i] /\ s[i + 1] = sc_in[i + 1]
    BY <1>1, <2>1
  <2>. QED  BY <2>1, <2>2 DEF StreamInv, Passage, Whole
<1>4. PICK b \in 1 .. L + 1 :
        /\ \A i \in 1 .. b - 1 : sc_in[i].ends
        /\ b <= L => ~sc_in[b].ends
        /\ \/ /\ Can!Taken(sc_in) = <<>>
              /\ \A i \in b .. L : ~sc_in[i].ends
              /\ Can!Kept(sc_in) = IF L - b + 1 = Room THEN <<>>
                                   ELSE SubSeq(sc_in, b, L)
           \/ \E e \in b + 1 .. L :
                /\ sc_in[e].ends /\ \A i \in b .. e - 1 : ~sc_in[i].ends
                /\ Can!Taken(sc_in) = SubSeq(sc_in, b, e)
                /\ Can!Kept(sc_in) = SubSeq(sc_in, e + 1, L)
  BY <1>1, TakenKept
<1>5. ASSUME NEW k \in 0 .. L, sc_in' = SubSeq(sc_in, k + 1, L)
      PROVE  k \in 0 .. Len(s) /\ Can!Coming' = SubSeq(s, k + 1, Len(s))
  <2>1. SubSeq(sc_in, k + 1, L) \o wire = SubSeq(sc_in \o wire, k + 1, Len(sc_in \o wire))
    BY <1>1, Front
  <2>2. Can!Coming' = SubSeq(sc_in, k + 1, L) \o wire
    BY <1>5 DEF Can!Coming
  <2>3. sc_in \o wire = s
    BY DEF Can!Coming
  <2>4. k \in 0 .. Len(s)
    BY <1>1
  <2>. HIDE DEF s
  <2>. QED  BY <2>1, <2>2, <2>3, <2>4
<1>6. ASSUME s # <<>> /\ ~s[1].ends, L # 0
      PROVE  b = 1
  <2>1. 1 \in 1 .. L /\ ~sc_in[1].ends
    BY <1>1, <1>6
  <2>2. ~(1 \in 1 .. b - 1)
    BY <1>4, <2>1
  <2>. QED  BY <2>2
<1>. HIDE DEF s, L
<1>7. CASE /\ Can!Taken(sc_in) = <<>>
           /\ \A i \in b .. L : ~sc_in[i].ends
           /\ Can!Kept(sc_in) = IF L - b + 1 = Room THEN <<>> ELSE SubSeq(sc_in, b, L)
  <2>1. L - b + 1 <= 1
    <3>. SUFFICES ASSUME b < L PROVE FALSE
      BY <1>1
    <3>1. b \in 1 .. L - 1 /\ b \in b .. L /\ b + 1 \in b .. L
      BY <1>1
    <3>. QED  BY <1>3, <1>7, <3>1
  <2>2. Can!Kept(sc_in) = SubSeq(sc_in, b, L)
    <3>1. L - b + 1 # Room
      BY <1>1, <1>2, <2>1
    <3>. QED  BY <1>7, <3>1
  <2> DEFINE k == b - 1
  <2>3. k \in 0 .. L /\ k + 1 = b
    BY <1>1
  <2>. HIDE DEF k
  <2>4. k \in 0 .. Len(s) /\ Can!Coming' = SubSeq(s, k + 1, Len(s))
    BY <1>5, <2>2, <2>3
  <2>5. s # <<>> /\ ~s[1].ends => k = 0
    <3>1. CASE L = 0
      BY <2>3, <3>1
    <3>2. CASE L # 0
      BY <1>6, <2>3, <3>2
    <3>. QED  BY <3>1, <3>2
  <2>. QED  BY <1>7, <2>4, <2>5 DEF Can!Reply, s
<1>8. CASE \E e \in b + 1 .. L :
             /\ sc_in[e].ends /\ \A i \in b .. e - 1 : ~sc_in[i].ends
             /\ Can!Taken(sc_in) = SubSeq(sc_in, b, e)
             /\ Can!Kept(sc_in) = SubSeq(sc_in, e + 1, L)
  <2>1. PICK e \in b + 1 .. L :
             /\ sc_in[e].ends /\ \A i \in b .. e - 1 : ~sc_in[i].ends
             /\ Can!Taken(sc_in) = SubSeq(sc_in, b, e)
             /\ Can!Kept(sc_in) = SubSeq(sc_in, e + 1, L)
    BY <1>8
  <2>2. e = b + 1
    <3>. SUFFICES ASSUME b + 1 \in b .. e - 1 PROVE FALSE
      BY <1>1
    <3>1. b \in 1 .. L - 1 /\ b \in b .. e - 1
      BY <1>1
    <3>. QED  BY <1>3, <2>1, <3>1
  <2>3. e \in 0 .. L /\ e \in 2 .. Len(s) /\ e - 1 = b /\ b \in 1 .. L /\ L # 0 /\ L >= e
    BY <1>1, <2>2
  <2>4. Can!Coming' = SubSeq(s, e + 1, Len(s))
    BY <1>5, <2>1, <2>3
  <2>5. SubSeq(sc_in, b, e) = SubSeq(s, b, e)
    <3>1. b \in 1 .. Len(sc_in) /\ e \in 1 .. Len(sc_in)
      BY <2>2, <2>3 DEF L
    <3>2. SubSeq(sc_in \o wire, b, e) = SubSeq(sc_in, b, e)
      BY <1>1, <3>1, SubSeqOfConcat1
    <3>. QED  BY <3>2 DEF s, Can!Coming
  <2>6. ~s[e - 1].ends
    BY <1>1, <1>4, <2>3
  <2>7. ~s[1].ends => e = 2
    <3>1. s # <<>>
      <4>1. Len(<<>>) = 0 /\ Len(s) # 0
        BY <1>1, <2>3
      <4>. QED  BY <4>1
    <3>. QED  BY <1>6, <2>2, <2>3, <3>1
  <2>. QED  BY <2>1, <2>3, <2>4, <2>5, <2>6, <2>7 DEF Can!Reply, s
<1>. QED
  BY <1>4, <1>7, <1>8

\* The connection ends, and with it the stream: something was lost unless there
\* was nothing on its way.
LEMMA StreamEnds ==
  ASSUME Can!CanTypeOK, StreamInv, fd' = "none", sc_in' = <<>>, wire' = <<>>,
         peer' = "none", UNCHANGED <<frame, given>>,
         missed' = (missed \/ sc_in # <<>> \/ wire # <<>>)
  PROVE  StreamInv'
<1>1. Can!Coming' = <<>>
  BY ConcatEmptySeq DEF Can!Coming
<1>2. Len(<<>>) = 0
  OBVIOUS
<1>3. Passage(<<>>, frame, given)
  BY <1>2 DEF Passage, Whole, Numbered, Ordered, Later
<1>4. Answers(<<>>)'
  BY DEF Answers
<1>5. ~missed' => \A m \in 1 .. frame : Reached(m, <<>>, given)
  <2>. SUFFICES ASSUME ~missed' PROVE \A m \in 1 .. frame : Reached(m, <<>>, given)
    OBVIOUS
  <2>1. ~missed /\ sc_in = <<>> /\ wire = <<>>
    OBVIOUS
  <2>2. Can!Coming = <<>>
    BY <2>1, ConcatEmptySeq DEF Can!Coming
  <2>. QED  BY <2>1, <2>2 DEF StreamInv
<1>. QED
  BY <1>1, <1>3, <1>4, <1>5 DEF StreamInv, Open

LEMMA StreamDisconnect == Can!CanTypeOK /\ StreamInv /\ Can!Disconnect => StreamInv'
  BY StreamEnds DEF Can!Disconnect

\* sc_tcp_connect: a connection begins with an empty stream.
LEMMA StreamDial ==
  ASSUME Can!CanTypeOK, StreamInv, Can!Dial
  PROVE  StreamInv'
<1>1. /\ sc_in = <<>> /\ wire = <<>> /\ sc_in' = <<>> /\ wire' = <<>>
      /\ UNCHANGED <<frame, given, missed>>
  BY DEF StreamInv, Can!Dial
<1>2. Can!Coming = <<>> /\ Can!Coming' = <<>> /\ Len(<<>>) = 0
  BY <1>1, ConcatEmptySeq DEF Can!Coming
<1>3. Answers(<<>>)'
  BY <1>2 DEF Can!Dial, Answers
<1>. QED
  BY <1>1, <1>2, <1>3 DEF StreamInv

\* What leaves the stream alone.
LEMMA StreamSame ==
  ASSUME StreamInv, UNCHANGED <<fd, sc_in, wire, frame, given, missed>>,
         peer' = peer \/ peer' \in {"closed", "vanished"}
  PROVE  StreamInv'
<1>1. Can!Coming' = Can!Coming
  BY DEF Can!Coming
<1>2. Answers(Can!Coming)'
  BY <1>1 DEF StreamInv, Answers
<1>. QED
  BY <1>1, <1>2 DEF StreamInv, Open

\* sc_feed: nothing goes, or what was received and the chunk.
LEMMA ReceivedFront ==
  ASSUME Can!CanTypeOK, NEW n \in 1 .. Len(wire), Can!Receive(n)
  PROVE  \/ Can!Coming' = Can!Coming /\ missed' = missed
         \/ /\ missed'
            /\ \E k \in 0 .. Len(Can!Coming) :
                 Can!Coming' = SubSeq(Can!Coming, k + 1, Len(Can!Coming))
<1> DEFINE chunk == SubSeq(wire, 1, n)
           tail  == SubSeq(wire, n + 1, Len(wire))
           s     == Can!Coming
<1>1. /\ sc_in \in Seq(Can!Pieces) /\ wire \in Seq(Can!Pieces)
      /\ Len(sc_in) \in Nat /\ Len(wire) \in Nat /\ n \in 0 .. Len(wire)
      /\ s \in Seq(Can!Pieces) /\ Len(s) = Len(sc_in) + Len(wire)
      /\ Room \in Nat
  BY ComingIs, HostAssumption DEF Can!SocketcandAssumption
<1>2. /\ chunk \in Seq(Can!Pieces) /\ Len(chunk) = n
      /\ tail \in Seq(Can!Pieces)
  BY <1>1, Cut, Dropped
<1>3. chunk \o tail = wire
  <2>1. 1 \in 1 .. Len(wire) + 1 /\ n \in 1 - 1 .. Len(wire)
        /\ Len(wire) \in n .. Len(wire)
    BY <1>1
  <2>2. chunk \o tail = SubSeq(wire, 1, Len(wire))
    BY <1>1, <2>1, ConcatAdjacentSubSeq
  <2>. QED  BY <1>1, <2>2, SubSeqFull
<1>4. /\ sc_in' = IF Len(sc_in) + n > Room THEN <<>> ELSE sc_in \o chunk
      /\ wire' = tail /\ missed' = (missed \/ Len(sc_in) + n > Room)
  BY <1>2 DEF Can!Receive, Can!Feed
<1>. HIDE DEF chunk, tail
<1>5. CASE Len(sc_in) + n <= Room
  <2>1. sc_in' = sc_in \o chunk
    BY <1>1, <1>4, <1>5
  <2>2. (sc_in \o chunk) \o tail = sc_in \o (chunk \o tail)
    BY <1>1, <1>2, Associates
  <2>3. Can!Coming' = Can!Coming
    BY <1>3, <1>4, <2>1, <2>2 DEF Can!Coming
  <2>4. missed' = missed
    <3>1. ~(Len(sc_in) + n > Room)
      BY <1>1, <1>5
    <3>2. missed \in BOOLEAN
      BY DEF Can!CanTypeOK
    <3>. QED  BY <1>4, <3>1, <3>2
  <2>. QED  BY <2>3, <2>4
<1>6. CASE Len(sc_in) + n > Room
  <2>1. sc_in' = <<>> /\ missed'
    BY <1>4, <1>6
  <2> DEFINE k == Len(sc_in) + n
  <2>2. k \in 0 .. Len(s) /\ k \in Nat
    BY <1>1
  <2>3. Can!Coming' = SubSeq(s, k + 1, Len(s))
    <3>1. Can!Coming' = tail
      BY <1>2, <1>4, <2>1, ConcatEmptySeq DEF Can!Coming
    <3>2. /\ tail \in Seq(Can!Pieces) /\ Len(tail) = Len(wire) - n
          /\ \A i \in 1 .. Len(wire) - n : tail[i] = wire[n + i]
      BY <1>1, Dropped DEF tail
    <3>3. /\ SubSeq(s, k + 1, Len(s)) \in Seq(Can!Pieces)
          /\ Len(SubSeq(s, k + 1, Len(s))) = Len(s) - k
          /\ \A i \in 1 .. Len(s) - k : SubSeq(s, k + 1, Len(s))[i] = s[k + i]
      <4>. HIDE DEF s, k
      <4>. QED  BY <1>1, <2>2, Dropped
    <3>4. Len(s) - k = Len(wire) - n
      BY <1>1
    <3>5. ASSUME NEW i \in 1 .. Len(wire) - n PROVE wire[n + i] = s[k + i]
      <4>1. n + i \in 1 .. Len(wire) /\ k + i = Len(sc_in) + (n + i)
        BY <1>1
      <4>2. s[Len(sc_in) + (n + i)] = wire[n + i]
        BY <4>1, ComingIs
      <4>. QED  BY <4>1, <4>2
    <3>. HIDE DEF s, k
    <3>. QED  BY <3>1, <3>2, <3>3, <3>4, <3>5, SeqEqual
  <2>. HIDE DEF k
  <2>. QED  BY <2>1, <2>2, <2>3
<1>. QED
  BY <1>1, <1>5, <1>6

LEMMA StreamReceive ==
  ASSUME Can!CanTypeOK, StreamInv, NEW n \in 1 .. Len(wire), Can!Receive(n)
  PROVE  StreamInv'
<1> DEFINE s == Can!Coming
<1>1. Len(s) \in Nat /\ Len(wire) \in Nat /\ Len(s) = Len(sc_in) + Len(wire)
      /\ Len(sc_in) \in Nat
  BY ComingIs
<1>2. UNCHANGED <<fd, peer, frame, given>>
  BY DEF Can!Receive
<1>3. s # <<>> /\ fd # "none"
  <2>1. Len(s) # 0 /\ wire # <<>> /\ Len(<<>>) = 0
    BY <1>1
  <2>. QED  BY <2>1 DEF StreamInv
<1>4. CASE Can!Coming' = s /\ missed' = missed
  <2>1. Answers(Can!Coming)'
    BY <1>2, <1>4 DEF StreamInv, Answers
  <2>. QED  BY <1>2, <1>3, <1>4, <2>1 DEF StreamInv, Open
<1>5. ASSUME missed', NEW k \in 0 .. Len(s), Can!Coming' = SubSeq(s, k + 1, Len(s))
      PROVE  StreamInv'
  <2>1. /\ Len(Can!Coming') = Len(s) - k
        /\ \A i \in 1 .. Len(s) - k : Can!Coming'[i] = s[k + i]
        /\ Passage(Can!Coming', frame', given') /\ Pushed(given', frame')
        /\ Open /\ Can!Coming' # <<>> => Can!Coming'[Len(Can!Coming')].ends
    BY <1>2, <1>5, FrontGoes
  <2>2. Answers(Can!Coming)'
    <3>1. /\ \A i \in 1 .. Len(s) - k : k + i \in 1 .. Len(s)
          /\ Len(s) - k <= Len(s)
      BY <1>1
    <3>2. fd = "opening" => /\ Len(s) <= 2 /\ peer # "open"
                            /\ peer \notin {"raw", "streaming"}
                            /\ \A i \in 1 .. Len(s) : s[i].kind # "frame"
      BY <1>3 DEF StreamInv, Answers
    <3>3. fd = "opening" => /\ Len(Can!Coming') <= 2
                            /\ \A i \in 1 .. Len(Can!Coming') : Can!Coming'[i].kind # "frame"
      BY <1>1, <2>1, <3>1, <3>2
    <3>4. fd = "rawing" => peer \notin {"open", "opened"}
      BY DEF StreamInv, Answers
    <3>. QED  BY <1>2, <1>5, <3>2, <3>3, <3>4 DEF Answers
  <2>. QED  BY <1>2, <1>3, <1>5, <2>1, <2>2 DEF StreamInv, Open
<1>. QED
  BY <1>4, <1>5, ReceivedFront

\* A message of the other end: an answer that is owed, or the next frame.
LEMMA StreamMessage ==
  ASSUME Can!CanTypeOK, StreamInv, NEW kind \in Can!Kinds, NEW of \in Nat,
         wire' = wire \o Can!Message(kind, of),
         UNCHANGED <<fd, sc_in, given, missed>>,
         \/ /\ kind # "frame" /\ of = 0 /\ UNCHANGED frame
            /\ \/ peer = "open" /\ peer' \in {"opened", "refused"}
               \/ peer = "raw" /\ peer' \in {"streaming", "refused"}
         \/ /\ kind = "frame" /\ of = frame + 1 /\ frame' = frame + 1
            /\ peer = "streaming" /\ UNCHANGED peer
  PROVE  StreamInv'
<1> DEFINE s == Can!Coming
           t == s \o Can!Message(kind, of)
<1>1. /\ s \in Seq(Can!Pieces) /\ Len(s) \in Nat /\ frame \in Nat
      /\ sc_in \in Seq(Can!Pieces) /\ wire \in Seq(Can!Pieces)
      /\ given \in Seq(Seq(Can!Pieces))
  BY ComingIs
<1>2. Can!Coming' = t
  <2>1. Can!Message(kind, of) \in Seq(Can!Pieces)
    BY MessagePieces
  <2>2. (sc_in \o wire) \o Can!Message(kind, of) = sc_in \o (wire \o Can!Message(kind, of))
    BY <1>1, <2>1, Associates
  <2>3. Can!Coming' = sc_in \o (wire \o Can!Message(kind, of))
    BY DEF Can!Coming
  <2>. QED  BY <2>1, <2>2, <2>3 DEF Can!Coming
<1>3. /\ Passage(s, frame, given) /\ Pushed(given, frame)
      /\ s # <<>> => s[Len(s)].ends
      /\ frame' \in {frame, frame + 1}
      /\ IF kind = "frame" THEN of = frame + 1 /\ frame' = frame + 1
                           ELSE of = 0 /\ frame' = frame
  BY DEF StreamInv, Open
<1>4. /\ t \in Seq(Can!Pieces) /\ Len(t) = Len(s) + 2
      /\ \A i \in 1 .. Len(s) : t[i] = s[i]
      /\ t[Len(s) + 1] = [kind |-> kind, of |-> of, ends |-> FALSE]
      /\ t[Len(s) + 2] = [kind |-> kind, of |-> of, ends |-> TRUE]
      /\ Passage(t, frame', given)
  <2>1. ASSUME NEW u, u = s \o Can!Message(kind, of)
        PROVE  /\ u \in Seq(Can!Pieces) /\ Len(u) = Len(s) + 2
               /\ \A i \in 1 .. Len(s) : u[i] = s[i]
               /\ u[Len(s) + 1] = [kind |-> kind, of |-> of, ends |-> FALSE]
               /\ u[Len(s) + 2] = [kind |-> kind, of |-> of, ends |-> TRUE]
               /\ Passage(u, frame', given)
    <3>1. kind = "frame" => of = frame + 1 /\ frame' = frame + 1
      BY <1>3
    <3>2. kind # "frame" => of = 0
      BY <1>3
    <3>. HIDE DEF s
    <3>3. Passage(u, frame', given)
      BY <1>1, <1>3, <2>1, <3>1, <3>2, PassageSend
    <3>4. LET v == s \o Can!Message(kind, of)
          IN  /\ v \in Seq(Can!Pieces) /\ Len(v) = Len(s) + 2
              /\ \A i \in 1 .. Len(s) : v[i] = s[i]
              /\ v[Len(s) + 1] = [kind |-> kind, of |-> of, ends |-> FALSE]
              /\ v[Len(s) + 2] = [kind |-> kind, of |-> of, ends |-> TRUE]
      BY <1>1, Sent
    <3>. QED  BY <2>1, <3>3, <3>4
  <2>2. t = s \o Can!Message(kind, of)
    OBVIOUS
  <2>. HIDE DEF s, t
  <2>. QED  BY <2>1, <2>2
<1>. HIDE DEF s, t
<1>5. Pushed(given, frame')
  <2>1. \A m \in 1 .. frame : m \in 1 .. frame'
    BY <1>1, <1>3
  <2>. QED  BY <1>3, <2>1 DEF Pushed
<1>6. t[Len(t)].ends
  BY <1>4
<1>7. s # <<>> => 1 \in 1 .. Len(s)
  <2>. SUFFICES ASSUME s # <<>> PROVE 1 \in 1 .. Len(s)
    OBVIOUS
  <2>. QED  BY <1>1, NotEmpty
<1>8. t[1].kind = IF s = <<>> THEN kind ELSE s[1].kind
  <2>1. CASE s = <<>>
    <3>1. Len(s) + 1 = 1
      BY <2>1
    <3>. QED  BY <1>4, <2>1, <3>1
  <2>2. CASE s # <<>>
    BY <1>4, <1>7, <2>2
  <2>. QED  BY <2>1, <2>2
<1>9. s = <<>> => Len(t) = 2 /\ t[1].kind = kind /\ t[2].kind = kind
  <2>. SUFFICES ASSUME s = <<>> PROVE Len(t) = 2 /\ t[1].kind = kind /\ t[2].kind = kind
    OBVIOUS
  <2>1. Len(s) + 1 = 1 /\ Len(s) + 2 = 2
    OBVIOUS
  <2>. QED  BY <1>4, <2>1
<1>10. Answers(Can!Coming)'
  <2>1. CASE fd = "opening"
    <3>1. peer = "open" /\ s = <<>> /\ kind # "frame" /\ peer' \in {"opened", "refused"}
      BY <2>1 DEF StreamInv, Answers, s
    <3>2. Len(t) = 2 /\ t[1].kind # "frame" /\ t[2].kind # "frame"
      BY <1>9, <3>1
    <3>3. \A i \in 1 .. Len(t) : i = 1 \/ i = 2
      BY <3>2
    <3>4. Len(t) <= 2 /\ \A i \in 1 .. Len(t) : t[i].kind # "frame"
      BY <3>2, <3>3
    <3>. QED  BY <2>1, <3>1, <3>4, <1>2 DEF Answers
  <2>2. CASE fd = "rawing"
    <3>1. /\ peer \in {"raw", "streaming"} /\ peer' \in {"streaming", "refused"}
          /\ peer = "raw" => kind # "frame"
      BY <2>2 DEF StreamInv, Answers
    <3>2. ~missed => t # <<>> /\ t[1].kind # "frame"
      <4>1. ~missed => /\ peer = "streaming" => s # <<>>
                       /\ s # <<>> => s[1].kind # "frame"
        BY <2>2 DEF StreamInv, Answers, s
      <4>2. t # <<>>
        <5>1. Len(<<>>) = 0 /\ Len(t) # 0
          BY <1>1, <1>4
        <5>. QED  BY <5>1
      <4>. QED  BY <1>8, <3>1, <4>1, <4>2
    <3>. QED  BY <2>2, <3>1, <3>2, <1>2 DEF Answers
  <2>3. CASE fd \notin {"opening", "rawing"}
    BY <2>3 DEF Answers
  <2>. QED  BY <2>1, <2>2, <2>3
<1>11. fd # "none"
  BY DEF Can!CanTypeOK
<1>12. ~missed => /\ ~t[1].ends
                  /\ \A m \in 1 .. frame' : Reached(m, t, given)
  <2>. SUFFICES ASSUME ~missed
                PROVE  ~t[1].ends /\ \A m \in 1 .. frame' : Reached(m, t, given)
    OBVIOUS
  <2>1. /\ s # <<>> => ~s[1].ends
        /\ \A m \in 1 .. frame : Reached(m, s, given)
    BY DEF StreamInv, s
  <2>2. ~t[1].ends
    <3>1. CASE s = <<>>
      <4>1. Len(s) + 1 = 1
        BY <3>1
      <4>. QED  BY <1>4, <4>1
    <3>2. CASE s # <<>>
      BY <1>4, <1>7, <2>1, <3>2
    <3>. QED  BY <3>1, <3>2
  <2>3. ASSUME NEW m \in 1 .. frame PROVE Reached(m, t, given)
    <3>1. m \in Nat /\ Len(t) >= Len(s)
      BY <1>1, <1>4
    <3>. QED  BY <1>1, <1>4, <2>1, <3>1, ReachedSend
  <2>4. kind = "frame" => Reached(frame + 1, t, given)
    <3>. SUFFICES ASSUME kind = "frame" PROVE Reached(frame + 1, t, given)
      OBVIOUS
    <3>1. of = frame + 1 /\ frame + 1 \in Nat
      BY <1>1, <1>3
    <3>2. /\ Can!Frame(frame + 1)[1] = [kind |-> "frame", of |-> frame + 1, ends |-> FALSE]
          /\ Can!Frame(frame + 1)[2] = [kind |-> "frame", of |-> frame + 1, ends |-> TRUE]
      BY <3>1, FramePieces
    <3> DEFINE i == Len(s) + 1
    <3>3. i \in 1 .. Len(t) - 1 /\ i + 1 = Len(s) + 2
      BY <1>1, <1>4
    <3>4. t[i] = Can!Frame(frame + 1)[1] /\ t[i + 1] = Can!Frame(frame + 1)[2]
      BY <1>4, <3>1, <3>2, <3>3
    <3>. HIDE DEF i
    <3>. QED  BY <3>3, <3>4 DEF Reached
  <2>5. \A m \in 1 .. frame' : m \in 1 .. frame \/ (kind = "frame" /\ m = frame + 1)
    <3>1. CASE kind = "frame"
      BY <1>1, <1>3, <3>1
    <3>2. CASE kind # "frame"
      BY <1>1, <1>3, <3>2
    <3>. QED  BY <3>1, <3>2
  <2>. QED  BY <2>2, <2>3, <2>4, <2>5
<1>. QED
  BY <1>2, <1>4, <1>5, <1>6, <1>10, <1>11, <1>12 DEF StreamInv

\* The other end is gone, and with it the end of what it sent.
LEMMA StreamCutoff ==
  ASSUME Can!CanTypeOK, StreamInv, NEW end \in {"closed", "vanished"}, Can!Cutoff(end)
  PROVE  StreamInv'
<1> DEFINE s == Can!Coming
<1>1. /\ s \in Seq(Can!Pieces) /\ Len(s) \in Nat /\ frame \in Nat
      /\ sc_in \in Seq(Can!Pieces) /\ wire \in Seq(Can!Pieces)
      /\ Len(sc_in) \in Nat /\ Len(wire) \in Nat /\ Len(s) = Len(sc_in) + Len(wire)
      /\ given \in Seq(Seq(Can!Pieces))
  BY ComingIs
<1>2. PICK n \in 0 .. Len(wire) : wire' = SubSeq(wire, 1, n)
  BY DEF Can!Cutoff
<1>3. /\ peer' = (IF peer = "none" THEN "none" ELSE end)
      /\ missed' = (missed \/ wire' # wire)
      /\ UNCHANGED <<fd, sc_in, frame, given>>
  BY DEF Can!Cutoff, Can!client
<1>4. ~Open'
  BY <1>3 DEF Open
<1>5. fd = "none" => sc_in' = <<>> /\ wire' = <<>>
  <2>. SUFFICES ASSUME fd = "none" PROVE sc_in' = <<>> /\ wire' = <<>>
    OBVIOUS
  <2>1. sc_in = <<>> /\ wire = <<>> /\ Len(<<>>) = 0
    BY DEF StreamInv
  <2>2. wire' = SubSeq(wire, 1, 0)
    BY <1>2, <2>1
  <2>3. SubSeq(wire, 1, 0) = <<>>
    BY <1>1, SubSeqEmpty
  <2>. QED  BY <1>3, <2>1, <2>2, <2>3
<1>6. CASE wire' = wire
  <2>1. missed' = missed
    BY <1>3, <1>6 DEF Can!CanTypeOK
  <2>2. Can!Coming' = s
    BY <1>3, <1>6 DEF Can!Coming
  <2>3. Answers(s)'
    BY <1>3, <2>1, <2>2 DEF StreamInv, Answers
  <2>. QED  BY <1>3, <1>4, <1>5, <2>1, <2>2, <2>3 DEF StreamInv
<1>7. CASE wire' # wire
  <2>1. missed'
    BY <1>3, <1>7
  <2> DEFINE k == Len(sc_in) + n
  <2>2. k \in 0 .. Len(s) /\ k <= Len(s)
    BY <1>1
  <2>3. Can!Coming' = SubSeq(s, 1, k)
    <3>1. /\ wire' \in Seq(Can!Pieces) /\ Len(wire') = n
          /\ \A i \in 1 .. n : wire'[i] = wire[i]
      BY <1>1, <1>2, Cut
    <3>2. /\ sc_in \o wire' \in Seq(Can!Pieces) /\ Len(sc_in \o wire') = Len(sc_in) + Len(wire')
          /\ \A i \in 1 .. Len(sc_in) : (sc_in \o wire')[i] = sc_in[i]
          /\ \A i \in 1 .. Len(wire') : (sc_in \o wire')[Len(sc_in) + i] = wire'[i]
      BY <1>1, <3>1, Joined
    <3>3. /\ SubSeq(s, 1, k) \in Seq(Can!Pieces) /\ Len(SubSeq(s, 1, k)) = k
          /\ \A i \in 1 .. k : SubSeq(s, 1, k)[i] = s[i]
      <4>. HIDE DEF s, k
      <4>. QED  BY <1>1, <2>2, Cut
    <3>4. /\ \A i \in 1 .. Len(sc_in) : s[i] = sc_in[i]
          /\ \A i \in 1 .. Len(wire) : s[Len(sc_in) + i] = wire[i]
      BY ComingIs
    <3>5. ASSUME NEW i \in 1 .. k PROVE (sc_in \o wire')[i] = s[i]
      <4>1. CASE i \in 1 .. Len(sc_in)
        BY <3>2, <3>4, <4>1
      <4>2. CASE i \notin 1 .. Len(sc_in)
        <5> DEFINE j == i - Len(sc_in)
        <5>1. j \in 1 .. n /\ j \in 1 .. Len(wire) /\ Len(sc_in) + j = i
          BY <1>1, <4>2
        <5>. HIDE DEF j
        <5>2. (sc_in \o wire')[Len(sc_in) + j] = wire[j] /\ s[Len(sc_in) + j] = wire[j]
          BY <3>1, <3>2, <3>4, <5>1
        <5>. QED  BY <5>1, <5>2
      <4>. QED  BY <4>1, <4>2
    <3>6. Can!Coming' = sc_in \o wire'
      BY <1>3 DEF Can!Coming
    <3>. HIDE DEF s
    <3>. QED  BY <3>1, <3>2, <3>3, <3>5, <3>6, SeqEqual
  <2>. HIDE DEF k
  <2>4. Passage(Can!Coming', frame', given') /\ Pushed(given', frame')
    <3>1. Passage(s, frame, given) /\ Pushed(given, frame)
      BY DEF StreamInv
    <3>. HIDE DEF s
    <3>. QED  BY <1>1, <1>3, <2>2, <2>3, <3>1, PassageCut
  <2>5. Answers(Can!Coming)'
    <3>1. /\ Len(SubSeq(s, 1, k)) = k
          /\ \A i \in 1 .. k : SubSeq(s, 1, k)[i] = s[i]
      <4>. HIDE DEF s
      <4>. QED  BY <1>1, <2>2, Cut
    <3>2. \A i \in 1 .. k : i \in 1 .. Len(s)
      BY <1>1, <2>2
    <3>3. fd = "opening" => Len(s) <= 2 /\ \A i \in 1 .. Len(s) : s[i].kind # "frame"
      BY DEF StreamInv, Answers
    <3>4. fd = "opening" => /\ Len(Can!Coming') <= 2
                            /\ \A i \in 1 .. Len(Can!Coming') : Can!Coming'[i].kind # "frame"
      BY <1>1, <2>2, <2>3, <3>1, <3>2, <3>3
    <3>. QED  BY <1>3, <2>1, <3>4 DEF Answers
  <2>. QED  BY <1>3, <1>4, <1>5, <2>1, <2>4, <2>5 DEF StreamInv
<1>. QED
  BY <1>6, <1>7

\* A message is taken from the stream, and pushed if it is a frame.
LEMMA StreamTakes ==
  ASSUME Can!CanTypeOK, StreamInv, NEW e \in 2 .. Len(Can!Coming),
         ~Can!Coming[e - 1].ends, ~Can!Coming[1].ends => e = 2,
         Can!Coming' = SubSeq(Can!Coming, e + 1, Len(Can!Coming)),
         given' = IF Can!Coming[e - 1].kind = "frame"
                  THEN Append(given, SubSeq(Can!Coming, e - 1, e)) ELSE given,
         UNCHANGED <<frame, missed>>
  PROVE  /\ Len(Can!Coming') = Len(Can!Coming) - e
         /\ Passage(Can!Coming', frame', given') /\ Pushed(given', frame')
         /\ Open /\ Can!Coming' # <<>> => Can!Coming'[Len(Can!Coming')].ends
         /\ ~missed' => /\ Can!Coming' # <<>> => ~Can!Coming'[1].ends
                        /\ \A m \in 1 .. frame' : Reached(m, Can!Coming', given')
<1> DEFINE s == Can!Coming
           t == SubSeq(s, e + 1, Len(s))
           h == IF s[e - 1].kind = "frame" THEN Append(given, SubSeq(s, e - 1, e))
                ELSE given
<1>1. s \in Seq(Can!Pieces) /\ Len(s) \in Nat /\ frame \in Nat
      /\ given \in Seq(Seq(Can!Pieces)) /\ e \in 0 .. Len(s)
  BY ComingIs
<1>2. /\ Passage(s, frame, given) /\ Pushed(given, frame)
      /\ Open /\ s # <<>> => s[Len(s)].ends
      /\ ~missed => /\ s # <<>> => ~s[1].ends
                    /\ \A m \in 1 .. frame : Reached(m, s, given)
  BY DEF StreamInv
<1>3. s # <<>>
  <2>1. Len(<<>>) = 0 /\ Len(s) # 0
    BY <1>1
  <2>. QED  BY <2>1
<1>4. e \in 2 .. Len(s) /\ ~s[e - 1].ends /\ (~s[1].ends => e = 2)
  OBVIOUS
<1>5. Can!Coming' = t /\ given' = h /\ frame' = frame /\ missed' = missed
  OBVIOUS
<1>. HIDE DEF s
<1>6. t \in Seq(Can!Pieces) /\ Len(t) = Len(s) - e
      /\ \A i \in 1 .. Len(s) - e : t[i] = s[e + i]
  BY <1>1, Dropped
<1>7. s[e].ends
  BY <1>1, <1>2, <1>4, MessageTaken
<1>8. Passage(t, frame, h) /\ Pushed(h, frame)
  <2>1. CASE s[e - 1].kind = "frame"
    <3>1. /\ Pushed(Append(given, SubSeq(s, e - 1, e)), frame)
          /\ Passage(SubSeq(s, e + 1, Len(s)), frame, Append(given, SubSeq(s, e - 1, e)))
      BY <1>1, <1>2, <1>4, <2>1, PassagePush
    <3>. QED  BY <2>1, <3>1
  <2>2. CASE s[e - 1].kind # "frame"
    <3>1. Passage(SubSeq(s, e + 1, Len(s)), frame, given)
      BY <1>1, <1>2, PassageDrop
    <3>. QED  BY <1>2, <2>2, <3>1
  <2>. QED  BY <2>1, <2>2
<1>9. Open /\ t # <<>> => t[Len(t)].ends
  <2>. SUFFICES ASSUME Open, t # <<>> PROVE t[Len(t)].ends
    OBVIOUS
  <2>. HIDE DEF t
  <2>1. Len(t) \in Nat \ {0}
    BY <1>6, EmptySeq
  <2>2. Len(t) \in 1 .. Len(s) - e /\ e + Len(t) = Len(s)
    BY <1>1, <1>6, <2>1
  <2>. QED  BY <1>2, <1>3, <1>6, <2>2
<1>10. ASSUME ~missed
       PROVE  /\ t # <<>> => ~t[1].ends
              /\ \A m \in 1 .. frame : Reached(m, t, h)
  <2>1. ~s[1].ends /\ e = 2 /\ \A m \in 1 .. frame : Reached(m, s, given)
    BY <1>2, <1>3, <1>4, <1>10
  <2>2. ASSUME t # <<>> PROVE ~t[1].ends
    <3>. HIDE DEF t
    <3>1. Len(t) \in Nat \ {0}
      BY <1>6, <2>2, EmptySeq
    <3>a. Len(s) - e >= 1
      <4>1. Len(t) >= 1
        BY <3>1
      <4>. QED  BY <1>6, <4>1
    <3>2. 1 \in 1 .. Len(s) - e /\ e \in 1 .. Len(s) - 1
      BY <1>1, <2>1, <3>a
    <3>3. t[1] = s[e + 1]
      BY <1>6, <3>2
    <3>. QED  BY <1>2, <1>7, <3>2, <3>3 DEF Passage, Whole
  <2>3. ASSUME NEW m \in 1 .. frame PROVE Reached(m, t, h)
    <3>1. /\ e - 1 = 1 /\ e + 1 = 3 /\ e = 2 /\ 2 <= Len(s) /\ m \in Nat
      BY <1>1, <1>4, <2>1
    <3>2. t = SubSeq(s, 3, Len(s))
          /\ h = IF s[1].kind = "frame" THEN Append(given, SubSeq(s, 1, 2)) ELSE given
      BY <3>1
    <3>3. Reached(m, s, given)
      BY <2>1
    <3>4. Reached(m, SubSeq(s, 3, Len(s)), IF s[1].kind = "frame"
                                           THEN Append(given, SubSeq(s, 1, 2)) ELSE given)
      BY <1>1, <1>2, <2>1, <3>1, <3>3, ReachedTake
    <3>. HIDE DEF t, h
    <3>. QED  BY <3>2, <3>4
  <2>. QED  BY <2>2, <2>3
<1>. HIDE DEF t, h
<1>11. Len(Can!Coming') = Len(Can!Coming) - e
  BY <1>5, <1>6 DEF s
<1>12. Passage(Can!Coming', frame', given') /\ Pushed(given', frame')
  BY <1>5, <1>8
<1>13. Open /\ Can!Coming' # <<>> => Can!Coming'[Len(Can!Coming')].ends
  BY <1>5, <1>9
<1>14. ~missed' => /\ Can!Coming' # <<>> => ~Can!Coming'[1].ends
                   /\ \A m \in 1 .. frame' : Reached(m, Can!Coming', given')
  <2>. SUFFICES ASSUME ~missed'
                PROVE  /\ Can!Coming' # <<>> => ~Can!Coming'[1].ends
                       /\ \A m \in 1 .. frame' : Reached(m, Can!Coming', given')
    OBVIOUS
  <2>1. ~missed
    BY <1>5
  <2>2. t # <<>> => ~t[1].ends
    BY <1>10, <2>1
  <2>3. \A m \in 1 .. frame : Reached(m, t, h)
    BY <1>10, <2>1
  <2>4. Can!Coming' # <<>> => ~Can!Coming'[1].ends
    BY <1>5, <2>2
  <2>5. \A m \in 1 .. frame' : Reached(m, Can!Coming', given')
    BY <1>5, <2>3
  <2>. QED  BY <2>4, <2>5
<1>. QED
  BY <1>11, <1>12, <1>13, <1>14

\* sc_wait_reply skips frames, and only after something was missed.
LEMMA StreamSkips ==
  ASSUME Can!CanTypeOK, StreamInv, Can!SkipMessage
  PROVE  StreamInv'
<1> DEFINE s == Can!Coming
<1>1. /\ sc_in' = Can!Kept(sc_in) /\ wire' = wire /\ Can!Reply # <<>>
      /\ Can!Reply \notin {Can!Ok, Can!Error} /\ fd \in {"opening", "rawing"}
      /\ UNCHANGED <<fd, peer, frame, given, missed>>
  BY DEF Can!SkipMessage, Can!Connecting
<1>2. PICK e \in 2 .. Len(s) :
        /\ ~s[e - 1].ends
        /\ Can!Reply = SubSeq(s, e - 1, e)
        /\ Can!Coming' = SubSeq(s, e + 1, Len(s))
        /\ ~s[1].ends => e = 2
  BY <1>1, KeptComing
<1>3. /\ s \in Seq(Can!Pieces) /\ Len(s) \in Nat /\ frame \in Nat
      /\ given \in Seq(Seq(Can!Pieces)) /\ e \in 0 .. Len(s)
      /\ Passage(s, frame, given)
  BY ComingIs DEF StreamInv
<1>4. s[e - 1].kind = "frame"
  <2>. HIDE DEF s
  <2>1. s[e - 1].kind # "frame" => SubSeq(s, e - 1, e) \in {Can!Ok, Can!Error}
    BY <1>2, <1>3, MessageTaken
  <2>. QED  BY <1>1, <1>2, <2>1
<1>5. e - 1 \in 1 .. Len(s) /\ s # <<>>
  <2>1. Len(<<>>) = 0 /\ Len(s) # 0 /\ e - 1 \in 1 .. Len(s)
    BY <1>3
  <2>. QED  BY <2>1
<1>6. fd = "rawing"
  <2>1. fd # "opening"
    BY <1>4, <1>5 DEF StreamInv, Answers
  <2>. QED  BY <1>1, <2>1
<1>7. missed
  <2>. SUFFICES ASSUME ~missed PROVE FALSE
    BY DEF Can!CanTypeOK
  <2>1. ~s[1].ends /\ s[1].kind # "frame"
    BY <1>5, <1>6 DEF StreamInv, Answers
  <2>2. e - 1 = 1
    BY <1>2, <2>1
  <2>. QED  BY <1>4, <2>1, <2>2
<1>8. /\ Passage(Can!Coming', frame', given') /\ Pushed(given', frame')
      /\ Open /\ Can!Coming' # <<>> => Can!Coming'[Len(Can!Coming')].ends
  BY <1>1, <1>2, <1>3, FrontGoes
<1>9. Answers(Can!Coming)'
  BY <1>1, <1>6, <1>7 DEF StreamInv, Answers
<1>. QED
  BY <1>1, <1>6, <1>7, <1>8, <1>9 DEF StreamInv, Open

\* < ok > in sc_wait_reply.
LEMMA StreamReplies ==
  ASSUME Can!CanTypeOK, StreamInv, Can!ReplyOk
  PROVE  StreamInv'
<1> DEFINE s == Can!Coming
<1>1. /\ sc_in' = Can!Kept(sc_in) /\ wire' = wire /\ Can!Reply = Can!Ok
      /\ fd \in {"opening", "rawing"}
      /\ fd' = (IF fd = "opening" THEN "rawing" ELSE "up")
      /\ peer' = (IF peer = "opened" THEN "raw" ELSE peer)
      /\ UNCHANGED <<frame, given, missed>>
  BY DEF Can!ReplyOk, Can!Connecting
<1>2. Can!Reply # <<>>
  <2>1. Len(Can!Ok) = 2
    BY MessagePieces DEF Can!Ok, Can!Kinds
  <2>2. Len(<<>>) = 0
    OBVIOUS
  <2>. QED  BY <1>1, <2>1, <2>2
<1>3. PICK e \in 2 .. Len(s) :
        /\ ~s[e - 1].ends
        /\ Can!Reply = SubSeq(s, e - 1, e)
        /\ Can!Coming' = SubSeq(s, e + 1, Len(s))
        /\ ~s[1].ends => e = 2
  BY <1>1, <1>2, KeptComing
<1>4. /\ s \in Seq(Can!Pieces) /\ Len(s) \in Nat /\ frame \in Nat
      /\ given \in Seq(Seq(Can!Pieces))
      /\ Passage(s, frame, given)
  BY ComingIs DEF StreamInv
<1>5. s[e - 1].kind # "frame"
  <2>. HIDE DEF s
  <2>1. s[e - 1].kind = "frame" => SubSeq(s, e - 1, e) \notin {Can!Ok, Can!Error}
    BY <1>3, <1>4, MessageTaken
  <2>. QED  BY <1>1, <1>3, <2>1
<1>6. /\ Len(Can!Coming') = Len(s) - e
      /\ Passage(Can!Coming', frame', given') /\ Pushed(given', frame')
      /\ Open /\ Can!Coming' # <<>> => Can!Coming'[Len(Can!Coming')].ends
      /\ ~missed' => /\ Can!Coming' # <<>> => ~Can!Coming'[1].ends
                     /\ \A m \in 1 .. frame' : Reached(m, Can!Coming', given')
  <2>1. given' = IF s[e - 1].kind = "frame" THEN Append(given, SubSeq(s, e - 1, e))
                 ELSE given
    BY <1>1, <1>5
  <2>. QED  BY <1>1, <1>3, <2>1, StreamTakes
<1>7. s # <<>>
  <2>1. Len(<<>>) = 0 /\ Len(s) # 0
    BY <1>4
  <2>. QED  BY <2>1
<1>8. Answers(Can!Coming)'
  <2>1. CASE fd = "opening"
    <3>1. Len(s) <= 2 /\ peer \notin {"raw", "streaming", "open"}
      BY <1>7, <2>1 DEF StreamInv, Answers
    <3>2. Len(Can!Coming') = 0
      BY <1>4, <1>6, <3>1
    <3>3. Can!Coming' = <<>>
      <4>1. Can!Coming' \in Seq(Can!Pieces)
        <5>1. e \in 0 .. Len(s)
          BY <1>4
        <5>. HIDE DEF s
        <5>. QED  BY <1>3, <1>4, <5>1, Dropped
      <4>. QED  BY <3>2, <4>1, EmptySeq
    <3>4. fd' = "rawing" /\ peer' \notin {"open", "opened", "streaming"}
      BY <1>1, <2>1, <3>1
    <3>. QED  BY <3>3, <3>4 DEF Answers
  <2>2. CASE fd = "rawing"
    BY <1>1, <2>2 DEF Answers
  <2>. QED  BY <1>1, <2>1, <2>2
<1>9. Open' => Open
  BY <1>1 DEF Open
<1>10. fd' # "none"
  BY <1>1
<1>. QED
  BY <1>1, <1>6, <1>8, <1>9, <1>10 DEF StreamInv

\* sc_drain_rx.
LEMMA StreamDrains ==
  ASSUME Can!CanTypeOK, StreamInv, fd = "up", Can!Drain
  PROVE  StreamInv'
<1> DEFINE s == Can!Coming
<1>1. /\ sc_in' = Can!Kept(sc_in) /\ wire' = wire /\ Can!Reply # <<>>
      /\ given' = (IF Can!Reply \in {Can!Ok, Can!Error} THEN given
                   ELSE Append(given, Can!Reply))
      /\ UNCHANGED <<fd, peer, frame, missed>>
  BY DEF Can!Drain
<1>2. PICK e \in 2 .. Len(s) :
        /\ ~s[e - 1].ends
        /\ Can!Reply = SubSeq(s, e - 1, e)
        /\ Can!Coming' = SubSeq(s, e + 1, Len(s))
        /\ ~s[1].ends => e = 2
  BY <1>1, KeptComing
<1>3. /\ s \in Seq(Can!Pieces) /\ Len(s) \in Nat /\ frame \in Nat
      /\ given \in Seq(Seq(Can!Pieces)) /\ Passage(s, frame, given)
  BY ComingIs DEF StreamInv
<1>4. s[e - 1].kind = "frame" <=> Can!Reply \notin {Can!Ok, Can!Error}
  <2>. HIDE DEF s
  <2>1. /\ s[e - 1].kind = "frame" => SubSeq(s, e - 1, e) \notin {Can!Ok, Can!Error}
        /\ s[e - 1].kind # "frame" => SubSeq(s, e - 1, e) \in {Can!Ok, Can!Error}
    BY <1>2, <1>3, MessageTaken
  <2>. QED  BY <1>2, <2>1
<1>5. /\ Passage(Can!Coming', frame', given') /\ Pushed(given', frame')
      /\ Open /\ Can!Coming' # <<>> => Can!Coming'[Len(Can!Coming')].ends
      /\ ~missed' => /\ Can!Coming' # <<>> => ~Can!Coming'[1].ends
                     /\ \A m \in 1 .. frame' : Reached(m, Can!Coming', given')
  <2>1. given' = IF s[e - 1].kind = "frame" THEN Append(given, SubSeq(s, e - 1, e))
                 ELSE given
    BY <1>1, <1>2, <1>4
  <2>. QED  BY <1>1, <1>2, <2>1, StreamTakes
<1>6. Answers(Can!Coming)'
  BY <1>1 DEF Answers
<1>. QED
  BY <1>1, <1>5, <1>6 DEF StreamInv, Open

LEMMA StreamDrained ==
  ASSUME Can!CanTypeOK, StreamInv, fd = "up", Can!DrainDone
  PROVE  StreamInv'
<1> DEFINE s == Can!Coming
<1>1. /\ sc_in' = Can!Kept(sc_in) /\ wire' = wire /\ Can!Reply = <<>>
      /\ UNCHANGED <<fd, peer, frame, given, missed>>
  BY DEF Can!DrainDone
<1>2. /\ s \in Seq(Can!Pieces) /\ Len(s) \in Nat /\ frame \in Nat
      /\ given \in Seq(Seq(Can!Pieces)) /\ Passage(s, frame, given)
  BY ComingIs DEF StreamInv
<1>3. PICK k \in 0 .. Len(s) :
        /\ Can!Coming' = SubSeq(s, k + 1, Len(s))
        /\ s # <<>> /\ ~s[1].ends => k = 0
  <2>1. ASSUME NEW e \in 2 .. Len(s), ~s[e - 1].ends, Can!Reply = SubSeq(s, e - 1, e)
        PROVE  FALSE
    <3>. HIDE DEF s
    <3>1. SubSeq(s, e - 1, e) # <<>>
      BY <1>2, <2>1, MessageTaken
    <3>. QED  BY <1>1, <2>1, <3>1
  <2>. QED  BY <1>1, <2>1, KeptComing
<1>4. /\ Passage(Can!Coming', frame', given') /\ Pushed(given', frame')
      /\ Open /\ Can!Coming' # <<>> => Can!Coming'[Len(Can!Coming')].ends
  BY <1>1, <1>3, FrontGoes
<1>5. ASSUME ~missed PROVE Can!Coming' = s
  <2>1. k = 0
    <3>1. CASE s = <<>>
      <4>1. Len(s) = 0
        BY <3>1
      <4>. QED  BY <4>1
    <3>2. CASE s # <<>>
      BY <1>3, <1>5, <3>2 DEF StreamInv
    <3>. QED  BY <3>1, <3>2
  <2>2. Can!Coming' = SubSeq(s, 1, Len(s))
    BY <1>3, <2>1
  <2>. HIDE DEF s
  <2>. QED  BY <1>2, <2>2, SubSeqFull
<1>6. ~missed' => /\ Can!Coming' # <<>> => ~Can!Coming'[1].ends
                  /\ \A m \in 1 .. frame' : Reached(m, Can!Coming', given')
  BY <1>1, <1>5 DEF StreamInv
<1>7. Answers(Can!Coming)'
  BY <1>1 DEF Answers
<1>. QED
  BY <1>1, <1>4, <1>6, <1>7 DEF StreamInv, Open

LEMMA StreamNext ==
  ASSUME TypeOK, StreamInv, Draining, [Next]_vars
  PROVE  StreamInv'
<1>0. Can!CanTypeOK /\ CanStep
  BY StepsOfCan DEF TypeOK
<1>1. CASE Can!Dial /\ try' \in {try, 0}
  BY <1>0, <1>1, StreamDial
<1>2. CASE Can!Connect
  <2>1. CASE Can!SkipMessage
    BY <1>0, <2>1, StreamSkips
  <2>2. CASE Can!ReplyOk
    BY <1>0, <2>2, StreamReplies
  <2>3. CASE Can!Refusal \/ Can!NoReply
    BY <1>0, <2>3, StreamDisconnect DEF Can!Refusal, Can!NoReply
  <2>4. CASE Can!ReceiveReply
    BY <1>0, <2>4, StreamReceive DEF Can!ReceiveReply
  <2>. QED  BY <1>2, <2>1, <2>2, <2>3, <2>4 DEF Can!Connect
<1>3. CASE Can!PumpReceive
  BY <1>0, <1>3, StreamReceive DEF Can!PumpReceive
<1>4. CASE Can!PumpClosed
  BY <1>0, <1>4, StreamDisconnect DEF Can!PumpClosed
<1>5. CASE pc = "Drain" /\ (Can!Drain \/ Can!DrainDone)
  BY <1>0, <1>5, StreamDrains, StreamDrained DEF Draining
<1>6. CASE Can!Send
  <2>1. CASE Can!Disconnect
    BY <1>0, <2>1, StreamDisconnect
  <2>2. CASE ~Can!Disconnect
    <3>1. /\ UNCHANGED <<fd, sc_in, wire, frame, given, missed>>
          /\ peer' = peer \/ peer' = "closed"
      BY <1>6, <2>2 DEF Can!Send, Can!canvars, Can!client
    <3>. QED  BY <3>1, StreamSame
  <2>. QED  BY <2>1, <2>2
<1>7. CASE Can!ServerStops \/ Can!ServerVanishes
  <2>1. Can!Cutoff("closed") \/ Can!Cutoff("vanished")
    BY <1>7 DEF Can!ServerStops, Can!ServerVanishes
  <2>2. "closed" \in {"closed", "vanished"} /\ "vanished" \in {"closed", "vanished"}
    OBVIOUS
  <2>. QED  BY <1>0, <2>1, <2>2, StreamCutoff
<1>8. CASE Can!ServerStarts \/ Can!Tick \/ UNCHANGED can
  <2>1. UNCHANGED <<fd, sc_in, wire, peer, frame, given, missed>>
    BY <1>8 DEF Can!ServerStarts, Can!Tick, can, Can!client
  <2>. QED  BY <2>1, StreamSame
<1>9. CASE Can!ServerAnswers(Can!Ok) \/ Can!ServerAnswers(Can!Error)
  <2>1. PICK kind \in {"ok", "error"} : Can!ServerAnswers(Can!Message(kind, 0))
    BY <1>9 DEF Can!Ok, Can!Error
  <2>2. kind \in Can!Kinds /\ kind # "frame" /\ 0 \in Nat
    BY DEF Can!Kinds
  <2>3. /\ wire' = wire \o Can!Message(kind, 0)
        /\ UNCHANGED <<fd, sc_in, given, missed, frame>>
        /\ \/ peer = "open" /\ peer' \in {"opened", "refused"}
           \/ peer = "raw" /\ peer' \in {"streaming", "refused"}
    BY <2>1 DEF Can!ServerAnswers, Can!Owes, Can!client
  <2>. QED  BY <1>0, <2>2, <2>3, StreamMessage
<1>10. CASE Can!BusFrame
  <2>1. "frame" \in Can!Kinds /\ frame + 1 \in Nat
    BY <1>0 DEF Can!Kinds, Can!CanTypeOK
  <2>2. /\ wire' = wire \o Can!Message("frame", frame + 1)
        /\ UNCHANGED <<fd, sc_in, given, missed>>
        /\ frame' = frame + 1 /\ peer = "streaming" /\ UNCHANGED peer
    BY <1>10 DEF Can!BusFrame, Can!Frame, Can!client
  <2>. QED  BY <1>0, <2>1, <2>2, StreamMessage
<1>11. CASE Can!Killed
  BY <1>0, <1>11, StreamEnds DEF Can!Killed
<1>. QED
  BY <1>0, <1>1, <1>2, <1>3, <1>4, <1>5, <1>6, <1>7, <1>8, <1>9, <1>10, <1>11 DEF CanStep

LEMMA StreamInit == Init => StreamInv /\ Draining
<1>. SUFFICES ASSUME Init PROVE StreamInv /\ Draining
  OBVIOUS
<1>1. /\ fd = "none" /\ sc_in = <<>> /\ wire = <<>> /\ frame = 0 /\ given = <<>>
      /\ ~missed /\ pc = "down"
  BY DEF Init, Can!Init
<1>2. Can!Coming = <<>>
  BY <1>1, ConcatEmptySeq DEF Can!Coming
<1>3. Len(<<>>) = 0
  OBVIOUS
<1>4. Passage(<<>>, frame, given) /\ Pushed(given, frame)
  BY <1>1, <1>3 DEF Passage, Whole, Numbered, Ordered, Later, Pushed
<1>5. Answers(<<>>)
  BY <1>1 DEF Answers
<1>. QED
  BY <1>1, <1>2, <1>4, <1>5 DEF StreamInv, Draining

\* Two pieces that are a frame.
LEMMA FrameAt ==
  ASSUME NEW s \in Seq(Can!Pieces), NEW n \in Nat, NEW i \in 1 .. Len(s) - 1,
         s[i] = Can!Frame(n)[1], s[i + 1] = Can!Frame(n)[2]
  PROVE  SubSeq(s, i, i + 1) = Can!Frame(n)
<1> DEFINE e == i + 1
<1>1. Len(s) \in Nat /\ i \in Int /\ e \in Int /\ i <= e /\ e - i + 1 = 2
  OBVIOUS
<1>2. \A j \in i .. e : s[j] \in Can!Pieces
  BY ElementOfSeq
<1>a. s[i] = Can!Frame(n)[1] /\ s[e] = Can!Frame(n)[2]
  OBVIOUS
<1>b. i + 1 - 1 = i /\ i + 2 - 1 = e /\ 1 \in 1 .. 2 /\ 2 \in 1 .. 2
  OBVIOUS
<1>. HIDE DEF e
<1>3. /\ SubSeq(s, i, e) \in Seq(Can!Pieces) /\ Len(SubSeq(s, i, e)) = 2
      /\ \A j \in 1 .. 2 : SubSeq(s, i, e)[j] = s[i + j - 1]
  BY <1>1, <1>2, SubSeqProperties
<1>4. SubSeq(s, i, e)[1] = s[i] /\ SubSeq(s, i, e)[2] = s[e]
  BY <1>3, <1>b
<1>5. Can!Frame(n) \in Seq(Can!Pieces) /\ Len(Can!Frame(n)) = 2
  BY FramePieces
<1>6. \A j \in 1 .. 2 : j = 1 \/ j = 2
  OBVIOUS
<1>7. SubSeq(s, i, e) = Can!Frame(n)
  BY <1>3, <1>4, <1>5, <1>6, <1>a, SeqEqual
<1>. QED
  BY <1>7 DEF e

LEMMA StreamMeans == Can!CanTypeOK /\ StreamInv => Can!Faithful
<1>. SUFFICES ASSUME Can!CanTypeOK, StreamInv PROVE Can!Faithful
  OBVIOUS
<1> DEFINE s == Can!Coming
<1>1. /\ s \in Seq(Can!Pieces) /\ Len(s) \in Nat /\ frame \in Nat
      /\ given \in Seq(Seq(Can!Pieces))
  BY ComingIs
<1>2. DOMAIN given = 1 .. Len(given)
  BY <1>1
<1>3. \A i \in Can!FramesBegun : i \in 1 .. Len(s) /\ s[i].kind = "frame" /\ ~s[i].ends
  BY DEF Can!FramesBegun, Can!Begun
<1>4. Passage(s, frame, given) /\ Pushed(given, frame)
  BY DEF StreamInv
<1>. HIDE DEF s
<1>5. \A i \in DOMAIN given : \E n \in 1 .. frame : given[i] = Can!Frame(n)
  BY <1>2, <1>4 DEF Pushed
<1>6. \A i, j \in DOMAIN given : i < j => given[i][1].of < given[j][1].of
  BY <1>2, <1>4 DEF Pushed
<1>7. \A i \in DOMAIN given, j \in Can!FramesBegun : given[i][1].of < s[j].of
  BY <1>2, <1>3, <1>4 DEF Passage, Later
<1>8. \A i, j \in Can!FramesBegun : i < j => s[i].of < s[j].of
  BY <1>3, <1>4 DEF Passage, Ordered
<1>9. ASSUME ~missed, NEW n \in 1 .. frame
      PROVE  \/ \E i \in DOMAIN given : given[i] = Can!Frame(n)
             \/ \E i \in 1 .. Len(s) - 1 : SubSeq(s, i, i + 1) = Can!Frame(n)
  <2>1. Reached(n, s, given)
    BY <1>9 DEF StreamInv, s
  <2>2. n \in Nat
    BY <1>1
  <2>3. \A i \in 1 .. Len(s) - 1 :
          s[i] = Can!Frame(n)[1] /\ s[i + 1] = Can!Frame(n)[2]
            => SubSeq(s, i, i + 1) = Can!Frame(n)
    BY <1>1, <2>2, FrameAt
  <2>. QED  BY <1>2, <2>1, <2>3 DEF Reached
<1>. QED
  BY <1>5, <1>6, <1>7, <1>8, <1>9 DEF Can!Faithful, s

\* Frames are pushed whole, in the order of the bus and none twice, those that
\* are on their way come after them, and all of them are pushed or on their way
\* unless the input buffer overflowed or a connection ended.
THEOREM FramesFaithful == Spec => []StreamFaithful
<1>1. Init => StreamInv /\ Draining
  BY StreamInit
<1>2. TypeOK /\ StreamInv /\ Draining /\ [Next]_vars => StreamInv' /\ Draining'
  BY StreamNext, DrainingNext
<1>3. TypeOK /\ StreamInv => StreamFaithful
  BY StreamMeans DEF TypeOK, StreamFaithful
<1>4. Spec => []TypeOK
  BY HostTypes
<1>. QED
  BY <1>1, <1>2, <1>3, <1>4, PTL DEF Spec

-----------------------------------------------------------------------------
(* A connection that is up is in raw mode *)

LEMMA AnswerPieces ==
  /\ Can!Ok \in Seq(Can!Pieces) /\ Len(Can!Ok) = 2 /\ Can!Ok[1].kind = "ok"
  /\ Can!Error \in Seq(Can!Pieces) /\ Len(Can!Error) = 2
  /\ Can!Error[1].kind = "error" /\ Can!Error[2].kind = "error"
<1>1. "ok" \in Can!Kinds /\ "error" \in Can!Kinds /\ 0 \in Nat
  BY DEF Can!Kinds
<1>2. /\ Can!Ok \in Seq(Can!Pieces) /\ Len(Can!Ok) = 2
      /\ Can!Ok[1] = [kind |-> "ok", of |-> 0, ends |-> FALSE]
  BY <1>1, MessagePieces DEF Can!Ok
<1>3. /\ Can!Error \in Seq(Can!Pieces) /\ Len(Can!Error) = 2
      /\ Can!Error[1] = [kind |-> "error", of |-> 0, ends |-> FALSE]
      /\ Can!Error[2] = [kind |-> "error", of |-> 0, ends |-> TRUE]
  BY <1>1, MessagePieces DEF Can!Error
<1>. QED
  BY <1>2, <1>3

OnlyErrors(s) == \A i \in 1 .. Len(s) : s[i].kind = "error"

\* A connection that waits for its second answer has nothing on its way before
\* the other end gives it, and nothing but errors after a refusal.
RawInv ==
  /\ Can!UpIsRaw
  /\ fd = "rawing" => /\ peer = "raw" => Can!Coming = <<>>
                      /\ peer = "refused" => OnlyErrors(Can!Coming)

LEMMA RawEnds == RawInv /\ fd' = "none" => RawInv'
  BY DEF RawInv, Can!UpIsRaw

\* The other end may be gone.
LEMMA RawSame ==
  ASSUME RawInv, fd' = fd, peer' \in {"closed", "vanished"} \/ (fd = "up" /\ peer' = peer)
  PROVE  RawInv'
  BY DEF RawInv, Can!UpIsRaw

\* What is left of the stream when pieces at its front go.
LEMMA RawFront ==
  ASSUME Can!CanTypeOK, RawInv, NEW k \in 0 .. Len(Can!Coming),
         Can!Coming' = SubSeq(Can!Coming, k + 1, Len(Can!Coming)),
         UNCHANGED <<fd, peer>>
  PROVE  RawInv'
<1> DEFINE s == Can!Coming
<1>1. s \in Seq(Can!Pieces) /\ Len(s) \in Nat /\ k \in 0 .. Len(s)
  BY ComingIs
<1>2. /\ Can!Coming' \in Seq(Can!Pieces) /\ Len(Can!Coming') = Len(s) - k
      /\ \A i \in 1 .. Len(s) - k : Can!Coming'[i] = s[k + i]
  <2>. HIDE DEF s
  <2>. QED  BY <1>1, Dropped DEF s
<1>3. s = <<>> => Can!Coming' = <<>>
  <2>. SUFFICES ASSUME s = <<>> PROVE Can!Coming' = <<>>
    OBVIOUS
  <2>1. Len(s) = 0
    OBVIOUS
  <2>2. Len(Can!Coming') = 0
    BY <1>1, <1>2, <2>1
  <2>. QED  BY <1>2, <2>2, EmptySeq
<1>4. OnlyErrors(s) => OnlyErrors(Can!Coming')
  <2>1. \A i \in 1 .. Len(s) - k : k + i \in 1 .. Len(s)
    BY <1>1
  <2>. HIDE DEF s
  <2>. QED  BY <1>2, <2>1 DEF OnlyErrors
<1>. QED
  BY <1>3, <1>4 DEF RawInv, Can!UpIsRaw, OnlyErrors

\* sc_feed.
LEMMA RawReceive ==
  ASSUME Can!CanTypeOK, StreamInv, RawInv, NEW n \in 1 .. Len(wire), Can!Receive(n)
  PROVE  RawInv'
<1>1. UNCHANGED <<fd, peer>>
  BY DEF Can!Receive
<1>2. Can!Coming' = Can!Coming => RawInv'
  BY <1>1 DEF RawInv, Can!UpIsRaw, OnlyErrors
<1>. QED
  BY <1>1, <1>2, ReceivedFront, RawFront

\* < ok > in sc_wait_reply: the first one finds the stream empty behind it, and
\* the second one is there only if the other end gave it.
LEMMA RawReplies ==
  ASSUME Can!CanTypeOK, StreamInv, StreamInv', RawInv, Can!ReplyOk
  PROVE  RawInv'
<1> DEFINE s == Can!Coming
<1>1. /\ sc_in' = Can!Kept(sc_in) /\ wire' = wire /\ Can!Reply = Can!Ok
      /\ fd \in {"opening", "rawing"}
      /\ fd' = (IF fd = "opening" THEN "rawing" ELSE "up")
      /\ peer' = (IF peer = "opened" THEN "raw" ELSE peer)
      /\ UNCHANGED <<frame, given, missed>>
  BY DEF Can!ReplyOk, Can!Connecting
<1>2. Can!Reply # <<>> /\ Can!Ok[1].kind = "ok"
  <2>1. Len(Can!Ok) = 2 /\ Can!Ok[1].kind = "ok"
    BY AnswerPieces
  <2>2. Len(<<>>) = 0
    OBVIOUS
  <2>. QED  BY <1>1, <2>1, <2>2
<1>3. PICK e \in 2 .. Len(s) :
        /\ ~s[e - 1].ends
        /\ Can!Reply = SubSeq(s, e - 1, e)
        /\ Can!Coming' = SubSeq(s, e + 1, Len(s))
  BY <1>1, <1>2, KeptComing
<1>4. /\ s \in Seq(Can!Pieces) /\ Len(s) \in Nat /\ frame \in Nat
      /\ given \in Seq(Seq(Can!Pieces)) /\ Passage(s, frame, given)
  BY ComingIs DEF StreamInv
<1>5. s[e - 1].kind = "ok" /\ e - 1 \in 1 .. Len(s) /\ s # <<>>
  <2>1. Len(<<>>) = 0 /\ Len(s) # 0 /\ e - 1 \in 1 .. Len(s)
    BY <1>4
  <2>2. SubSeq(s, e - 1, e)[1] = s[e - 1]
    <3>. HIDE DEF s
    <3>. QED  BY <1>3, <1>4, MessageTaken
  <2>. QED  BY <1>1, <1>2, <1>3, <2>1, <2>2
<1>6. CASE fd = "opening"
  <2>1. Len(s) <= 2
    BY <1>6 DEF StreamInv, Answers
  <2>2. Can!Coming' = <<>>
    <3>1. e \in 0 .. Len(s) /\ Len(s) - e = 0
      BY <1>4, <2>1
    <3>2. Can!Coming' \in Seq(Can!Pieces) /\ Len(Can!Coming') = 0
      <4>. HIDE DEF s
      <4>. QED  BY <1>3, <1>4, <3>1, Dropped
    <3>. QED  BY <3>2, EmptySeq
  <2>3. OnlyErrors(<<>>)
    BY DEF OnlyErrors
  <2>4. fd' = "rawing"
    BY <1>1, <1>6
  <2>. QED  BY <2>2, <2>3, <2>4 DEF RawInv, Can!UpIsRaw
<1>7. CASE fd = "rawing"
  <2>1. peer \notin {"raw", "refused"}
    BY <1>5, <1>7 DEF RawInv, OnlyErrors
  <2>2. peer \notin {"none", "open", "opened"}
    BY <1>7 DEF StreamInv, Answers, Can!CanTypeOK
  <2>3. peer \in {"streaming", "closed", "vanished"}
    BY <2>1, <2>2 DEF Can!CanTypeOK, Can!Peers
  <2>. QED  BY <1>1, <1>7, <2>3 DEF RawInv, Can!UpIsRaw
<1>. QED
  BY <1>1, <1>6, <1>7

\* The other end gives an answer.
LEMMA RawAnswers ==
  ASSUME Can!CanTypeOK, StreamInv, RawInv,
         Can!ServerAnswers(Can!Ok) \/ Can!ServerAnswers(Can!Error)
  PROVE  RawInv'
<1>1. /\ peer \in {"open", "raw"} /\ UNCHANGED <<fd, sc_in>>
      /\ peer' \in {"opened", "streaming", "refused"}
      /\ peer' = "refused" => wire' = wire \o Can!Error \/ wire' = wire \o Can!Ok
  BY DEF Can!ServerAnswers, Can!Owes, Can!client
<1>2. Can!Ok # Can!Error
  BY AnswerPieces
<1>3. fd # "up"
  BY <1>1 DEF RawInv, Can!UpIsRaw
<1>4. CASE fd = "rawing"
  <2>1. peer = "raw" /\ peer' \in {"streaming", "refused"}
    BY <1>1, <1>4 DEF StreamInv, Answers, Can!ServerAnswers
  <2>2. sc_in = <<>> /\ wire = <<>>
    <3>1. Can!Coming = <<>> /\ Len(<<>>) = 0
      BY <1>4, <2>1 DEF RawInv
    <3>2. Len(sc_in) = 0 /\ Len(wire) = 0
      BY <3>1, ComingIs
    <3>. QED  BY <3>2, ComingIs, EmptySeq
  <2>3. peer' = "refused" => OnlyErrors(Can!Coming')
    <3>. SUFFICES ASSUME peer' = "refused" PROVE OnlyErrors(Can!Coming')
      OBVIOUS
    <3>1. Can!ServerAnswers(Can!Error)
      BY <1>2, <2>1 DEF Can!ServerAnswers
    <3>2. wire' = wire \o Can!Error
      BY <3>1 DEF Can!ServerAnswers
    <3>3. /\ Can!Error \in Seq(Can!Pieces) /\ Len(Can!Error) = 2
          /\ Can!Error[1].kind = "error" /\ Can!Error[2].kind = "error"
      BY AnswerPieces
    <3>4. Can!Coming' = Can!Error
      BY <1>1, <2>2, <3>2, <3>3, ConcatEmptySeq DEF Can!Coming
    <3>5. \A i \in 1 .. 2 : i = 1 \/ i = 2
      OBVIOUS
    <3>. QED  BY <3>3, <3>4, <3>5 DEF OnlyErrors
  <2>. QED  BY <1>1, <1>3, <2>1, <2>3 DEF RawInv, Can!UpIsRaw
<1>5. CASE fd # "rawing"
  BY <1>1, <1>3, <1>5 DEF RawInv, Can!UpIsRaw
<1>. QED
  BY <1>4, <1>5

LEMMA RawNext ==
  ASSUME TypeOK, StreamInv, StreamInv', Draining, RawInv, [Next]_vars
  PROVE  RawInv'
<1>0. Can!CanTypeOK /\ CanStep
  BY StepsOfCan DEF TypeOK
<1>1. CASE Can!Dial /\ try' \in {try, 0}
  <2>1. fd' \in {"none", "opening"}
    BY <1>1 DEF Can!Dial
  <2>. QED  BY <2>1 DEF RawInv, Can!UpIsRaw
<1>2. CASE Can!SkipMessage
  <2>1. /\ sc_in' = Can!Kept(sc_in) /\ wire' = wire /\ Can!Reply # <<>>
        /\ UNCHANGED <<fd, peer>>
    BY <1>2 DEF Can!SkipMessage
  <2>2. PICK e \in 2 .. Len(Can!Coming) :
          Can!Coming' = SubSeq(Can!Coming, e + 1, Len(Can!Coming))
    BY <1>0, <2>1, KeptComing
  <2>3. e \in 0 .. Len(Can!Coming)
    BY <1>0, ComingIs
  <2>. QED  BY <1>0, <2>1, <2>2, <2>3, RawFront
<1>3. CASE Can!ReplyOk
  BY <1>0, <1>3, RawReplies
<1>4. CASE Can!Refusal \/ Can!NoReply \/ Can!PumpClosed \/ Can!Killed
  BY <1>4, RawEnds DEF Can!Refusal, Can!NoReply, Can!PumpClosed, Can!Disconnect, Can!Killed
<1>5. CASE Can!ReceiveReply \/ Can!PumpReceive
  BY <1>0, <1>5, RawReceive DEF Can!ReceiveReply, Can!PumpReceive
<1>6. CASE pc = "Drain" /\ (Can!Drain \/ Can!DrainDone)
  BY <1>6, RawSame DEF Draining, Can!Drain, Can!DrainDone
<1>7. CASE Can!Send
  <2>1. CASE Can!Disconnect
    BY <2>1, RawEnds DEF Can!Disconnect
  <2>2. CASE ~Can!Disconnect
    <3>1. /\ UNCHANGED <<fd, sc_in, wire>>
          /\ peer' = peer \/ peer' = "closed"
      BY <1>7, <2>2 DEF Can!Send, Can!canvars, Can!client
    <3>2. Can!Coming' = Can!Coming
      BY <3>1 DEF Can!Coming
    <3>. QED  BY <3>1, <3>2 DEF RawInv, Can!UpIsRaw, OnlyErrors
  <2>. QED  BY <2>1, <2>2
<1>8. CASE Can!ServerStops \/ Can!ServerVanishes
  <2>1. fd' = fd /\ peer' \in {"none", "closed", "vanished"}
        /\ (peer' = "none" => peer = "none")
    BY <1>8 DEF Can!ServerStops, Can!ServerVanishes, Can!Cutoff, Can!client
  <2>2. peer = "none" => fd = "none"
    BY <1>0 DEF Can!CanTypeOK
  <2>3. CASE peer' = "none"
    BY <2>1, <2>2, <2>3, RawEnds
  <2>4. CASE peer' # "none"
    <3>1. fd' = fd /\ (peer' = "closed" \/ peer' = "vanished")
      BY <2>1, <2>4
    <3>. QED  BY <3>1, RawSame
  <2>. QED  BY <2>3, <2>4
<1>9. CASE Can!ServerStarts \/ Can!Tick \/ UNCHANGED can
  <2>1. UNCHANGED <<fd, sc_in, wire, peer>>
    BY <1>9 DEF Can!ServerStarts, Can!Tick, can, Can!client
  <2>2. Can!Coming' = Can!Coming
    BY <2>1 DEF Can!Coming
  <2>. QED  BY <2>1, <2>2 DEF RawInv, Can!UpIsRaw, OnlyErrors
<1>10. CASE Can!ServerAnswers(Can!Ok) \/ Can!ServerAnswers(Can!Error)
  BY <1>0, <1>10, RawAnswers
<1>11. CASE Can!BusFrame
  <2>1. peer = "streaming" /\ UNCHANGED <<fd, peer>>
    BY <1>11 DEF Can!BusFrame, Can!client
  <2>. QED  BY <2>1 DEF RawInv, Can!UpIsRaw
<1>. QED
  BY <1>0, <1>1, <1>2, <1>3, <1>4, <1>5, <1>6, <1>7, <1>8, <1>9, <1>10, <1>11
     DEF CanStep, Can!Connect

\* The program counts a connection as up only after the other end has answered
\* both requests on it.
THEOREM RawHolds == Spec => []ConnectedRaw
<1>1. Init => RawInv /\ StreamInv /\ Draining
  BY StreamInit DEF Init, Can!Init, RawInv, Can!UpIsRaw
<1>2. TypeOK /\ StreamInv /\ Draining /\ [Next]_vars => StreamInv' /\ Draining'
  BY StreamNext, DrainingNext
<1>3. TypeOK /\ StreamInv /\ StreamInv' /\ Draining /\ RawInv /\ [Next]_vars => RawInv'
  BY RawNext
<1>4. RawInv => ConnectedRaw
  BY DEF RawInv, ConnectedRaw
<1>5. Spec => []TypeOK
  BY HostTypes
<1>. QED
  BY <1>1, <1>2, <1>3, <1>4, <1>5, PTL DEF Spec

=============================================================================
