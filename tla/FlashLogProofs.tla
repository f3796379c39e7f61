--------------------------- MODULE FlashLogProofs ---------------------------
(***************************************************************************)
(* What the flash memory keeps, for every size of the log, the entry and   *)
(* the settings page, and any set of settings: the types of FlashLog; the  *)
(* entries of an undisturbed log (EntriesGenuine, LogComplete,             *)
(* SequencesCounted); settings reported as saved (SavedKept); and what a   *)
(* command that hangs has met.                                             *)
(***************************************************************************)
EXTENDS FlashLog, FiniteSetTheorems, WellFoundedInduction, TLAPS

-----------------------------------------------------------------------------
(* Types.  What the main loop does decides where it can be and what it     *)
(* works on.                                                               *)

\* A write in progress has room for its entry, where the log begins anew too if
\* a command erases it meanwhile.
WorkInv ==
  /\ op = "boot" => step \in {"say", "uart", "load"}
  /\ op = "tell" => step \in {"say", "uart"}
  /\ op = "idle" => step = "call"
  /\ op = "stuck" => step = "stuck"
  /\ op \in {"boot", "idle", "clear", "stuck"} => k = 0
  /\ op \in {"erase", "tell"} => k < Sectors
  /\ op = "save" => k <= SettingWords /\ data \subseteq Settings
  /\ op = "log" => /\ k < EntryWords /\ data \subseteq Entries
                   /\ writeAddr + EntryWords <= LogEnd
                   /\ step # "unlock" => addr + EntryWords <= LogEnd
  /\ op = "erase" /\ step \in {"say", "uart", "unlock"} => k = 0
  /\ op = "erase" /\ step \notin {"say", "uart"} => uart = "ready"

\* An entry begins at most one session.
RunsInv ==
  /\ runs <= begun
  /\ op = "log" /\ k = 0 /\ step \in {"unlock", "call", "busy"} => runs < begun

TypeInv == TypeOK /\ WorkInv /\ RunsInv

-----------------------------------------------------------------------------
(* The log, as long as nothing has disturbed it. *)

\* The slots that begin a session.
Firsts(f) == {a \in Slots : Magics(f[a]) = {"A"}}

\* Entries that fill a slot.
Complete(f) ==
  {x \in Entries : \E a \in Slots : \A i \in 0 .. EntryWords - 1 : f[a + i] = {x}}

\* Slots are used from the front, each by one entry, and by junk if it is torn.
SlotsUsed ==
  /\ \A a \in Slots : flash[a] = {} => \A w \in Words : w >= a => flash[w] = {}
  /\ \A a \in Slots : \/ flash[a] \in {{}, {Junk}}
                      \/ \E x \in Entries : flash[a] = {x} /\ x.id <= begun
  /\ \A a \in Slots, i \in 0 .. EntryWords - 1 :
       flash[a + i] \subseteq flash[a] \cup {Junk}

IdsGrow ==
  \A a, b \in Slots, x, y \in Entries :
    a < b /\ flash[a] = {x} /\ flash[b] = {y} => x.id < y.id

LogHistory == logged = Complete(flash) /\ runs = Cardinality(Firsts(flash))

LogGood == SlotsUsed /\ IdsGrow /\ LogHistory

\* Words of the entry in hand that have been programmed.
Programmed == IF step \in {"held", "lock", "load", "store"} THEN k + 1 ELSE k

\* The first slot that is free, if there is one.
FreeSlot(a) == a \in Slots /\ \A b \in Slots : b < a => flash[b] # {}

\* FlashLog_Write.
Writing ==
  /\ step \in {"unlock", "call", "busy", "held", "lock", "load", "store"}
  /\ step = "unlock" => k = 0
  /\ step \in {"lock", "load", "store"} => k = EntryWords - 1
  /\ step # "unlock" => addr = writeAddr
  /\ step \in {"call", "busy", "held", "lock"} => ~crLock
  /\ FreeSlot(writeAddr)
  /\ \A w \in Words : w >= writeAddr =>
       flash[w] = IF w < writeAddr + Programmed THEN data ELSE {}
  /\ \A a \in Slots, x \in Entries :
       a < writeAddr /\ flash[a] = {x} => x.id < begun
  /\ \E m \in {"A", "B"} : /\ data = {[id |-> begun, magic |-> m]}
                           /\ wrote \/ Programmed = 0
                           /\ Programmed = 0 => (m = "A" <=> ~wrote)
  /\ magic = "B"

\* Between two entries.
Waiting ==
  /\ Room => FreeSlot(writeAddr) /\ flash[writeAddr] = {}
  /\ magic = "A" <=> ~wrote

EraseBegun == op = "erase" /\ step \notin {"say", "uart"}

\* FlashLog_EraseAll, called by key.
Erasing ==
  /\ step \in {"unlock", "call", "busy", "held", "lock"}
  /\ step # "unlock" => ~crLock
  /\ step = "lock" => k = Sectors - 1
  /\ \A w \in Words :
       \/ w \div SectorWords < k
       \/ w \div SectorWords = k /\ step \in {"held", "lock"}
       => flash[w] = {}

LogInv ==
  spoiled = "no" =>
    IF EraseBegun THEN Erasing
    ELSE /\ LogGood
         /\ op = "log" => Writing
         /\ op \notin {"log", "stuck"} => Waiting

-----------------------------------------------------------------------------
(* Words and slots *)

LEMMA Sizes ==
  /\ EntryWords \in Nat /\ EntryWords > 0 /\ LogEnd \in Nat /\ LogEnd > 0
  /\ Sectors \in Nat /\ Sectors > 0 /\ SectorWords \in Nat /\ SectorWords > 0
  /\ MaxWrites \in Nat /\ MaxWrites > 0 /\ SettingWords \in Nat /\ SettingWords > 0
  /\ Default \in Settings /\ NoLog \subseteq Settings
<1>1. \A a, b \in Nat \ {0} : a * b \in Nat /\ a * b > 0
  OBVIOUS
<1>. QED
  BY <1>1, FlashAssumption DEF LogEnd

\* The quotient and the remainder of a word number.
LEMMA Division ==
  ASSUME NEW a \in Nat, NEW n \in Nat \ {0}
  PROVE  \E q \in Nat, r \in 0 .. n - 1 :
           a = n * q + r /\ a \div n = q /\ a % n = r
<1>1. PICK q \in Nat : q = a \div n
  OBVIOUS
<1>2. n * q <= a /\ a < n * q + n
  BY <1>1
<1>3. PICK r \in 0 .. n - 1 : a = n * q + r
  <2>1. n * q \in Nat /\ a - n * q \in 0 .. n - 1
    BY <1>2
  <2>. QED  BY <2>1
<1>4. (n * q + r) % n = r
  OBVIOUS
<1>. QED
  BY <1>1, <1>3, <1>4

\* The multiples of a number, and no others, leave no remainder.
LEMMA Exact ==
  ASSUME NEW n \in Nat \ {0}, NEW q \in Nat, NEW r \in 0 .. n - 1
  PROVE  (n * q + r) % n = r /\ (n * q + r) \div n = q
  OBVIOUS

LEMMA Multiples ==
  ASSUME NEW n \in Nat \ {0}, NEW p \in Nat, NEW q \in Nat, n * p < n * q
  PROVE  n * p + n <= n * q
<1>1. p + 1 <= q
  <2>1. SUFFICES ASSUME q <= p PROVE n * q <= n * p
    OBVIOUS
  <2>. QED  BY <2>1
<1>2. n * (p + 1) <= n * q
  BY <1>1
<1>3. n * (p + 1) = n * p + n
  OBVIOUS
<1>. QED  BY <1>2, <1>3

\* Two slots do not overlap, slots follow each other without a gap, and the
\* words of a slot are words of the log.
LEMMA SlotsApart ==
  /\ \A a \in Slots : a \in Nat /\ a \in Words /\ a + EntryWords <= LogEnd
  /\ \A a \in Slots, b \in Slots : a < b => a + EntryWords <= b
  /\ \A a \in Slots : a + EntryWords + EntryWords <= LogEnd => a + EntryWords \in Slots
  /\ \A a \in Slots, i \in 0 .. EntryWords - 1 : a + i \in Words
  /\ EntryWords <= LogEnd => 0 \in Slots
<1>1. \A a \in Slots : a \in Nat /\ a \in Words /\ a + EntryWords <= LogEnd /\ a % EntryWords = 0
  <2>1. \A a \in Slots : a \in Words /\ a + EntryWords <= LogEnd /\ a % EntryWords = 0
    BY DEF Slots
  <2>. QED  BY <2>1, Sizes DEF Words
<1>0. ASSUME NEW a \in Slots
      PROVE  \E q \in Nat : a = EntryWords * q
  <2>1. EntryWords \in Nat \ {0} /\ a \in Nat
    BY <1>1, Sizes
  <2>2. PICK q \in Nat, r \in 0 .. EntryWords - 1 :
          a = EntryWords * q + r /\ a % EntryWords = r
    BY <2>1, Division
  <2>3. a = EntryWords * q + 0
    BY <1>1, <2>2
  <2>. QED  BY <2>1, <2>3
<1>2. ASSUME NEW a \in Slots, NEW b \in Slots, a < b
      PROVE  a + EntryWords <= b
  <2>1. PICK p \in Nat, q \in Nat : a = EntryWords * p /\ b = EntryWords * q
    BY <1>0
  <2>2. EntryWords * p < EntryWords * q
    BY <2>1, <1>2
  <2>3. EntryWords * p + EntryWords <= EntryWords * q
    BY <2>1, <2>2, Sizes, Multiples
  <2>. QED  BY <2>1, <2>3, <1>1
<1>3. ASSUME NEW a \in Slots, a + EntryWords + EntryWords <= LogEnd
      PROVE  a + EntryWords \in Slots
  <2>1. (a + EntryWords) % EntryWords = 0
    <3>1. PICK q \in Nat : a = EntryWords * q
      BY <1>0
    <3>2. a + EntryWords = EntryWords * (q + 1) + 0
      BY <3>1, Sizes
    <3>. QED  BY <3>2, Sizes, Exact
  <2>2. a + EntryWords \in Words
    BY <1>1, <1>3, Sizes DEF Words
  <2>. QED  BY <2>1, <2>2, <1>3 DEF Slots
<1>4. \A a \in Slots, i \in 0 .. EntryWords - 1 : a + i \in Words
  BY <1>1, Sizes DEF Words
<1>5. EntryWords <= LogEnd => 0 \in Slots
  <2>1. 0 % EntryWords = 0
    BY Sizes
  <2>. QED  BY <2>1, Sizes DEF Slots, Words
<1>. QED
  BY <1>1, <1>2, <1>3, <1>4, <1>5

\* A nonempty set of naturals with a bound has a least element.
LEMMA MinIsLeast ==
  ASSUME NEW n \in Nat, NEW S \in SUBSET (0 .. n), S # {}
  PROVE  Min(S) \in S /\ \A y \in S : Min(S) <= y
<1> DEFINE Below(x) == {y \in S : y < x}
           T == {Below(x) : x \in S}
           R == StrictSubsetOrdering(S)
<1>0. \A x : Below(x) \in SUBSET S
  OBVIOUS
<1>1. IsFiniteSet(S)
  <2>1. IsFiniteSet(0 .. n)
    BY FS_Interval
  <2>. QED  BY <2>1, FS_Subset
<1>2. T \subseteq FiniteSubsetsOf(S) /\ T # {}
  <2>1. FiniteSubsetsOf(S) = SUBSET S
    BY <1>1, FS_FiniteSubsetsOfFinite
  <2>2. \A z \in S : Below(z) \in FiniteSubsetsOf(S) /\ Below(z) \in T
    BY <1>0, <2>1
  <2>. HIDE DEF Below
  <2>. QED  BY <2>2
<1>3. PICK U \in T : \A V \in T : ~ (<<V, U>> \in R)
  <2>1. IsWellFoundedOn(R, FiniteSubsetsOf(S))
    BY FS_StrictSubsetOrderingWellFounded
  <2>. HIDE DEF T, R
  <2>. QED  BY <1>2, <2>1, WFMin
<1>4. PICK x \in S : U = Below(x)
  OBVIOUS
<1>5. ASSUME NEW y \in S, y < x
      PROVE  FALSE
  <2>1. \A z \in Below(y) : z \in Below(x)
    BY <1>5
  <2>2. y \in Below(x) /\ y \notin Below(y)
    BY <1>5
  <2>3. <<Below(y), Below(x)>> \in R
    <3>. HIDE DEF Below
    <3>. QED BY <1>0, <2>1, <2>2 DEF StrictSubsetOrdering
  <2>. QED  BY <1>3, <1>4, <2>3
<1>6. \A y \in S : x <= y
  BY <1>5
<1>. QED
  BY <1>6 DEF Min

\* The scan stops at the first free slot, or at the end.
LEMMA ScanStops ==
  ASSUME NEW f
  PROVE  /\ Scan(f) \in 0 .. LogEnd
         /\ Scan(f) # LogEnd => Scan(f) \in Slots /\ f[Scan(f)] = {}
         /\ \A a \in Slots : a < Scan(f) => f[a] # {}
<1> DEFINE S == {a \in Slots : f[a] = {}} \cup {LogEnd}
<1>1. S \in SUBSET (0 .. LogEnd) /\ S # {}
  BY SlotsApart, Sizes
<1>2. Scan(f) \in S /\ \A y \in S : Scan(f) <= y
  <2>. HIDE DEF S
  <2>1. Min(S) \in S /\ \A y \in S : Min(S) <= y
    BY <1>1, Sizes, MinIsLeast
  <2>. QED  BY <2>1 DEF Scan, S
<1>. QED
  BY <1>1, <1>2, SlotsApart, Sizes


LEMMA BlankLog ==
  /\ Blank \in [Words -> SUBSET (Entries \cup {Junk})]
  /\ EntryWords <= LogEnd => Scan(Blank) = 0
<1>1. ASSUME EntryWords <= LogEnd
      PROVE  Scan(Blank) = 0
  <2>1. 0 \in Slots /\ 0 \in Words
    BY <1>1, SlotsApart
  <2>2. Blank[0] = {}
    BY <2>1 DEF Blank
  <2>3. Scan(Blank) \in 0 .. LogEnd /\ ~(0 < Scan(Blank))
    BY <2>1, <2>2, ScanStops
  <2>. QED  BY <2>3, Sizes
<1>. QED
  BY <1>1 DEF Blank

LEMMA TypeInit == Init => TypeInv
<1>1. ASSUME Init
      PROVE  TypeOK
  <2>1. flash \in [Words -> SUBSET (Entries \cup {Junk})]
    BY <1>1, BlankLog DEF Init
  <2>2. /\ blob \in [1 .. SettingWords -> SUBSET Settings] /\ cfg \in Settings
        /\ 0 \in 0 .. LogEnd /\ 0 \in 0 .. MaxWrites
        /\ 0 \in 0 .. EntryWords + Sectors + SettingWords
    BY <1>1, Sizes DEF Init
  <2>. QED  BY <1>1, <2>1, <2>2 DEF Init, TypeOK
<1>2. Init => WorkInv /\ RunsInv
  BY DEF Init, WorkInv, RunsInv
<1>. QED
  BY <1>1, <1>2 DEF TypeInv

\* What an operation of the main loop leaves in the two areas.
LEMMA AfterTypes ==
  ASSUME TypeInv, step = "busy"
  PROVE  /\ LogAfter(data) \in [Words -> SUBSET (Entries \cup {Junk})]
         /\ LogAfter({Junk}) \in [Words -> SUBSET (Entries \cup {Junk})]
         /\ BlobAfter \in [1 .. SettingWords -> SUBSET Settings]
<1>1. ASSUME NEW word \in SUBSET (Entries \cup {Junk})
      PROVE  LogAfter(word) \in [Words -> SUBSET (Entries \cup {Junk})]
  BY DEF TypeInv, TypeOK, LogAfter, EraseSector
<1>2. op = "log" => data \subseteq Entries
  BY DEF TypeInv, WorkInv
<1>3. op # "log" => LogAfter(data) = LogAfter({Junk})
  BY DEF LogAfter
<1>4. BlobAfter \in [1 .. SettingWords -> SUBSET Settings]
  BY DEF TypeInv, TypeOK, WorkInv, BlobAfter
<1>. QED
  BY <1>1, <1>2, <1>3, <1>4

-----------------------------------------------------------------------------
(* The types through the steps of the main loop. *)

LEMMA StartTypes ==
  ASSUME TypeInv,
         \/ LogWrite \/ LogFull
         \/ KeySave \/ KeyClear \/ KeyErase \/ KeyLog \/ Trace
  PROVE  TypeInv'
<1>1. CASE LogWrite
  <2>1. /\ begun' \in 0 .. MaxWrites /\ begun' = begun + 1 /\ runs' = runs
        /\ data' \subseteq Entries /\ writeAddr + EntryWords <= LogEnd
        /\ 0 < EntryWords /\ k' \in 0 .. EntryWords + Sectors + SettingWords
    BY <1>1, Sizes DEF LogWrite, Starts, Room, TypeInv, TypeOK, Entries
  <2>2. TypeOK'
    BY <1>1, <2>1 DEF LogWrite, Starts, TypeInv, TypeOK
  <2>3. WorkInv'
    BY <1>1, <2>1 DEF LogWrite, Starts, TypeInv, WorkInv
  <2>4. RunsInv'
    BY <1>1, <2>1 DEF LogWrite, Starts, TypeInv, TypeOK, RunsInv
  <2>. QED  BY <2>2, <2>3, <2>4 DEF TypeInv
<1>2. CASE KeySave \/ KeyClear \/ KeyErase
  <2>1. /\ k' = 0 /\ op' \in {"save", "clear", "erase"}
        /\ step' = (IF op' = "erase" THEN "say" ELSE "unlock")
        /\ data' \subseteq Settings
        /\ UNCHANGED <<flash, blob, crLock, addr, ram, uart, begun, logged,
                       wrote, runs, spoiled>>
        /\ saved' \subseteq Settings /\ crossed' \in BOOLEAN
    BY <1>2 DEF KeySave, KeyClear, KeyErase, Starts, history, TypeInv, TypeOK,
                ram
  <2>2. TypeOK'
    BY <2>1, Sizes DEF TypeInv, TypeOK, ram, log
  <2>3. WorkInv' /\ RunsInv'
    BY <2>1, Sizes DEF TypeInv, TypeOK, WorkInv, RunsInv
  <2>. QED  BY <2>2, <2>3 DEF TypeInv
<1>3. CASE LogFull \/ KeyLog \/ Trace
  <2>1. /\ op = "idle" /\ UNCHANGED <<flash, blob, crLock, writeAddr, magic,
                                      debug, main, history>>
        /\ rxStarted' \in BOOLEAN /\ cfg' \in Settings /\ uart' \in {uart, "dma"}
    BY <1>3 DEF LogFull, KeyLog, Trace, ram, log, TypeInv, TypeOK
  <2>2. TypeOK'
    BY <2>1 DEF TypeInv, TypeOK, main, history
  <2>3. WorkInv' /\ RunsInv'
    BY <2>1 DEF TypeInv, WorkInv, RunsInv, main, history
  <2>. QED  BY <2>2, <2>3 DEF TypeInv
<1>. QED
  BY <1>1, <1>2, <1>3

LEMMA ConsoleTypes ==
  ASSUME TypeInv, Say \/ Said \/ BootSettings
  PROVE  TypeInv'
<1>1. CASE Say
  BY <1>1 DEF Say, TypeInv, TypeOK, WorkInv, RunsInv, ram, log, history
<1>2. CASE Said
  BY <1>2, Sizes DEF Said, Goes, Idle, TypeInv, TypeOK, WorkInv, RunsInv, ram,
                     log, history
<1>3. CASE BootSettings
  BY <1>3, Sizes DEF BootSettings, Idle, TypeInv, TypeOK, WorkInv, RunsInv, ram,
                     log, history
<1>. QED
  BY <1>1, <1>2, <1>3

LEMMA WorkTypes ==
  ASSUME TypeInv, Unlock \/ Call \/ Refused \/ Leave
  PROVE  TypeInv'
<1>1. CASE Unlock
  <2>1. /\ UNCHANGED <<flash, blob, ram, uart, op, k, data, history>>
        /\ step = "unlock" /\ step' = "call" /\ crLock' \in BOOLEAN
        /\ addr' = IF op = "log" THEN writeAddr ELSE addr
    BY <1>1 DEF Unlock
  <2>2. TypeOK'
    BY <2>1 DEF TypeInv, TypeOK, ram, log, history
  <2>3. WorkInv'
    BY <2>1 DEF TypeInv, WorkInv, ram, log
  <2>4. RunsInv'
    BY <2>1 DEF TypeInv, RunsInv, history
  <2>. QED  BY <2>2, <2>3, <2>4 DEF TypeInv
<1>2. CASE Call
  BY <1>2 DEF Call, Goes, TypeInv, TypeOK, WorkInv, RunsInv, ram, log, history
<1>3. CASE Refused
  BY <1>3 DEF Refused, Goes, TypeInv, TypeOK, WorkInv, RunsInv, ram, log, history
<1>4. CASE Leave
  <2>1. UNCHANGED <<flash, blob, crLock, ram, uart, op, addr, data, history>>
    BY <1>4 DEF Leave
  <2>2. \/ k' = k /\ step' \in {"lock", "abort"}
        \/ k' = k + 1 /\ step' = "call" /\ step = "held"
    BY <1>4 DEF Leave
  <2>3. CASE k' = k /\ step' \in {"lock", "abort"}
    BY <1>4, <2>1, <2>3 DEF Leave, TypeInv, TypeOK, WorkInv, RunsInv, ram, log, history
  <2>4. CASE k' = k + 1 /\ step' = "call" /\ step = "held"
    <3>1. /\ op \in {"log", "erase", "save"} /\ ~LastCall /\ k \in Nat
          /\ op = "log" => k < EntryWords
          /\ op = "erase" => k < Sectors
          /\ op = "save" => k <= SettingWords
      BY <1>4, <2>4 DEF Leave, TypeInv, TypeOK, WorkInv, LastCall
    <3>2. /\ op = "log" => k + 1 < EntryWords
          /\ op = "erase" => k + 1 < Sectors
          /\ op = "save" => k + 1 <= SettingWords
      BY <3>1, Sizes DEF LastCall
    <3>3. TypeOK'
      BY <2>1, <2>4, <3>1, <3>2, Sizes DEF TypeInv, TypeOK, ram, log, history
    <3>4. WorkInv' /\ RunsInv'
      BY <2>1, <2>4, <3>1, <3>2, Sizes
         DEF TypeInv, WorkInv, RunsInv, ram, log, history
    <3>. QED  BY <3>3, <3>4 DEF TypeInv
  <2>. QED  BY <2>2, <2>3, <2>4
<1>. QED
  BY <1>1, <1>2, <1>3, <1>4

LEMMA OperateTypes ==
  ASSUME TypeInv, Operate
  PROVE  TypeInv'
<1>1. /\ UNCHANGED <<crLock, ram, uart, begun, saved, spoiled, crossed>>
      /\ UNCHANGED <<op, k, addr, data>> /\ step = "busy" /\ step' = "held"
  BY DEF Operate, Goes
<1>2. /\ flash' \in [Words -> SUBSET (Entries \cup {Junk})]
      /\ blob' \in [1 .. SettingWords -> SUBSET Settings]
  BY <1>1, AfterTypes DEF Operate
<1>3. logged' \subseteq Entries /\ wrote' \in BOOLEAN
  BY DEF Operate, Recorded, TypeInv, TypeOK, WorkInv
<1>4. RunsInv' /\ runs' \in 0 .. MaxWrites
  <2>1. runs' = IF op = "log" /\ k = 0 /\ ~wrote THEN runs + 1 ELSE runs
    BY DEF Operate, Recorded
  <2>. QED  BY <1>1, <2>1, Sizes DEF TypeInv, TypeOK, RunsInv
<1>5. TypeOK'
  BY <1>1, <1>2, <1>3, <1>4 DEF TypeInv, TypeOK, ram, log
<1>6. WorkInv'
  BY <1>1 DEF TypeInv, WorkInv, ram, log
<1>. QED
  BY <1>4, <1>5, <1>6 DEF TypeInv

LEMMA ScanTypes ==
  ASSUME NEW f
  PROVE  Scan(f) \in 0 .. LogEnd
  BY ScanStops

LEMMA ErasedTypes ==
  ASSUME LogErased
  PROVE  /\ begun' \in 0 .. MaxWrites /\ runs' \in 0 .. MaxWrites /\ runs' <= begun'
         /\ logged' \subseteq Entries /\ wrote' \in BOOLEAN
         /\ spoiled' \in {"no", "save", "erase"}
<1>1. begun' \in 0 .. MaxWrites /\ runs' \in 0 .. MaxWrites
  BY Sizes DEF LogErased
<1>2. runs' <= begun'
  BY DEF LogErased
<1>3. /\ logged' \subseteq Entries /\ wrote' \in BOOLEAN
      /\ spoiled' \in {"no", "save", "erase"}
  BY DEF LogErased
<1>. QED
  BY <1>1, <1>2, <1>3

LEMMA LockTypes ==
  ASSUME TypeInv,
         \/ LogWritten \/ LogLoad \/ LogStore \/ SaveErased \/ SaveDone
         \/ WriteFailed \/ ClearDone \/ EraseDone \/ EraseFailed
  PROVE  TypeInv'
<1>1. CASE LogWritten \/ LogLoad
  <2>1. /\ UNCHANGED <<flash, blob, ram, uart, op, k, data, history>>
        /\ crLock' \in BOOLEAN /\ op = "log" /\ addr' \in {addr, writeAddr}
        /\ step \in {"lock", "load"} /\ step' \in {"load", "store"}
    BY <1>1 DEF LogWritten, LogLoad, Locks, Goes, ram, TypeInv, TypeOK
  <2>2. TypeOK'
    BY <2>1 DEF TypeInv, TypeOK, ram, log, history
  <2>3. WorkInv' /\ RunsInv'
    BY <2>1 DEF TypeInv, WorkInv, RunsInv, ram, log, history
  <2>. QED  BY <2>2, <2>3 DEF TypeInv
<1>2. CASE SaveErased
  BY <1>2, Sizes DEF SaveErased, Locks, TypeInv, TypeOK, WorkInv, RunsInv, log,
                     history
<1>3. CASE LogStore \/ SaveDone \/ WriteFailed \/ ClearDone
  <2>1. /\ UNCHANGED <<flash, blob, magic, rxStarted, debug, uart>> /\ Idle
        /\ UNCHANGED <<begun, logged, wrote, runs, spoiled, crossed>>
        /\ crLock' \in BOOLEAN
    BY <1>3 DEF LogStore, SaveDone, WriteFailed, ClearDone, Locks, history, log,
                TypeInv, TypeOK
  <2>2. cfg' \in Settings /\ saved' \subseteq Settings
    BY <1>3, Sizes DEF LogStore, SaveDone, WriteFailed, ClearDone, Locks,
                       history, TypeInv, TypeOK, WorkInv
  <2>3. writeAddr' \in 0 .. LogEnd
    BY <1>3, Sizes DEF LogStore, SaveDone, WriteFailed, ClearDone, log, TypeInv,
                       TypeOK, WorkInv
  <2>4. TypeOK'
    BY <2>1, <2>2, <2>3, Sizes DEF Idle, TypeInv, TypeOK
  <2>5. WorkInv' /\ RunsInv'
    BY <2>1 DEF Idle, TypeInv, TypeOK, WorkInv, RunsInv
  <2>. QED  BY <2>4, <2>5 DEF TypeInv
<1>4. CASE EraseDone \/ EraseFailed
  <2>1. /\ UNCHANGED <<flash, blob, debug, uart, cfg, saved, crossed>> /\ Tells
        /\ crLock' = TRUE /\ op = "erase"
    BY <1>4 DEF EraseDone, EraseFailed, Locks, history
  <2>2. writeAddr' \in 0 .. LogEnd /\ magic' \in {"A", "B"} /\ rxStarted' \in BOOLEAN
    BY <1>4, ScanTypes DEF EraseDone, EraseFailed, FreshLog, log, TypeInv, TypeOK
  <2>3. /\ begun' \in 0 .. MaxWrites /\ runs' \in 0 .. MaxWrites
        /\ logged' \subseteq Entries /\ wrote' \in BOOLEAN
        /\ spoiled' \in {"no", "save", "erase"} /\ runs' <= begun'
    <3>1. CASE EraseDone /\ flash = Blank
      <4>1. LogErased
        BY <3>1 DEF EraseDone
      <4>. QED  BY <4>1, ErasedTypes
    <3>2. CASE EraseDone /\ flash # Blank
      <4>1. wrote' = FALSE /\ UNCHANGED <<begun, logged, runs, spoiled>>
        BY <3>2 DEF EraseDone
      <4>. QED  BY <2>1, <4>1 DEF TypeInv, TypeOK, RunsInv
    <3>3. CASE EraseFailed
      BY <2>1, <3>3 DEF EraseFailed, history, TypeInv, TypeOK, RunsInv
    <3>. QED  BY <1>4, <3>1, <3>2, <3>3
  <2>4. TypeOK'
    BY <2>1, <2>2, <2>3 DEF Tells, TypeInv, TypeOK
  <2>5. WorkInv' /\ RunsInv'
    <3>1. op' = "tell" /\ step' = "say" /\ k' = k /\ k < Sectors
      BY <2>1 DEF Tells, TypeInv, WorkInv
    <3>2. RunsInv'
      BY <2>3, <3>1 DEF RunsInv
    <3>. QED  BY <3>1, <3>2 DEF WorkInv
  <2>. QED  BY <2>4, <2>5 DEF TypeInv
<1>. QED
  BY <1>1, <1>2, <1>3, <1>4

-----------------------------------------------------------------------------
(* The types through commands and power cuts. *)

\* A command leaves the main loop where it is, or never returns to it.
LEMMA RepliesTypes ==
  ASSUME TypeInv, Replies, UNCHANGED <<flash, writeAddr, magic, rxStarted, uart,
                                       begun, logged, wrote, runs>>,
         blob' \in [1 .. SettingWords -> SUBSET Settings],
         crLock' \in BOOLEAN, debug' \in BOOLEAN, cfg' \in Settings,
         saved' \subseteq Settings, crossed' \in BOOLEAN,
         spoiled' \in {"no", "save", "erase"}
  PROVE  TypeInv'
<1>1. CASE UNCHANGED main
  <2>1. TypeOK'
    BY <1>1 DEF main, TypeInv, TypeOK
  <2>2. WorkInv' /\ RunsInv'
    BY <1>1 DEF main, TypeInv, WorkInv, RunsInv
  <2>. QED  BY <2>1, <2>2 DEF TypeInv
<1>2. CASE Stick
  <2>1. TypeOK'
    BY <1>2, Sizes DEF Stick, TypeInv, TypeOK
  <2>2. WorkInv' /\ RunsInv'
    BY <1>2 DEF Stick, TypeInv, TypeOK, WorkInv, RunsInv
  <2>. QED  BY <2>1, <2>2 DEF TypeInv
<1>. QED
  BY <1>1, <1>2 DEF Replies

LEMMA EraseTypes ==
  ASSUME TypeInv, CliErase
  PROVE  TypeInv'
<1>1. /\ UNCHANGED <<blob, cfg, debug, uart, main, saved>> /\ crLock' = TRUE
      /\ uart = "ready"
  BY DEF CliErase
<1>2. CASE InHal
  <2>1. UNCHANGED <<flash, log, begun, logged, wrote, runs>> /\ Disturbs("erase")
    BY <1>2 DEF CliErase
  <2>2. TypeOK'
    BY <1>1, <2>1 DEF TypeInv, TypeOK, main, log, Disturbs
  <2>3. WorkInv' /\ RunsInv'
    BY <1>1, <2>1 DEF TypeInv, WorkInv, RunsInv, main, log
  <2>. QED  BY <2>2, <2>3 DEF TypeInv
<1>3. CASE ~InHal
  <2>1. /\ flash' = Blank /\ writeAddr' = Scan(Blank) /\ magic' = "A"
        /\ rxStarted' = FALSE /\ crossed' = (crossed \/ op \in {"save", "clear"})
    BY <1>3 DEF CliErase, FreshLog
  <2>2. /\ begun' \in 0 .. MaxWrites /\ runs' \in 0 .. MaxWrites
        /\ logged' \subseteq Entries /\ wrote' \in BOOLEAN
        /\ spoiled' \in {"no", "save", "erase"} /\ RunsInv'
    <3>1. CASE op \in {"log", "erase"}
      <4>1. spoiled' = "erase" /\ wrote' = FALSE /\ UNCHANGED <<begun, logged, runs>>
        BY <1>3, <3>1 DEF CliErase
      <4>. QED  BY <1>1, <4>1 DEF TypeInv, TypeOK, RunsInv, main
    <3>2. CASE op \notin {"log", "erase"}
      <4>1. LogErased
        BY <1>3, <3>2 DEF CliErase
      <4>. QED  BY <1>1, <3>2, <4>1, ErasedTypes DEF RunsInv, main
    <3>. QED  BY <3>1, <3>2
  <2>3. writeAddr' \in 0 .. LogEnd /\ Blank \in [Words -> SUBSET (Entries \cup {Junk})]
    BY <2>1, BlankLog, ScanTypes
  <2>4. TypeOK'
    BY <1>1, <2>1, <2>2, <2>3 DEF TypeInv, TypeOK, main
  <2>5. op = "log" => writeAddr' = 0 /\ EntryWords <= LogEnd
    BY <2>1, BlankLog, Sizes DEF TypeInv, TypeOK, WorkInv
  <2>6. WorkInv'
    BY <1>1, <2>5, Sizes DEF TypeInv, WorkInv, main
  <2>. QED  BY <2>2, <2>4, <2>6 DEF TypeInv
<1>. QED
  BY <1>2, <1>3

LEMMA CommandTypes ==
  ASSUME TypeInv, Command
  PROVE  TypeInv'
<1>1. CASE CliSave
  <2>1. blob' \in [1 .. SettingWords -> SUBSET Settings] /\ saved' \subseteq Settings
    BY <1>1 DEF CliSave, TypeInv, TypeOK
  <2>2. spoiled' \in {"no", "save", "erase"} /\ crossed' \in BOOLEAN
    BY <1>1 DEF CliSave, Disturbs, TypeInv, TypeOK
  <2>3. /\ UNCHANGED <<flash, ram, uart, begun, logged, wrote, runs>>
        /\ Replies /\ crLock' = TRUE
    BY <1>1 DEF CliSave
  <2>4. cfg' \in Settings /\ debug' \in BOOLEAN
    BY <2>3 DEF ram, TypeInv, TypeOK
  <2>. QED  BY <2>1, <2>2, <2>3, <2>4, RepliesTypes DEF ram, log
<1>2. CASE CliErase
  BY <1>2, EraseTypes
<1>3. CASE CliEraseStuck
  <2>1. UNCHANGED <<flash, blob, crLock, ram, uart, history>> /\ Stick /\ uart # "ready"
    BY <1>3 DEF CliEraseStuck
  <2>2. Replies
    BY <2>1 DEF Replies
  <2>3. /\ blob \in [1 .. SettingWords -> SUBSET Settings]
        /\ crLock \in BOOLEAN /\ debug \in BOOLEAN /\ cfg \in Settings
        /\ saved \subseteq Settings /\ crossed \in BOOLEAN
        /\ spoiled \in {"no", "save", "erase"}
    BY DEF TypeInv, TypeOK
  <2>. QED  BY <2>1, <2>2, <2>3, RepliesTypes DEF ram, log, history
<1>4. CASE CliRset \/ CliDcan
  <2>1. /\ UNCHANGED <<flash, blob, crLock, log, uart, history>> /\ Replies
        /\ cfg' \in Settings /\ debug' \in BOOLEAN
    BY <1>4 DEF CliRset, CliDcan, TypeInv, TypeOK
  <2>2. /\ blob \in [1 .. SettingWords -> SUBSET Settings]
        /\ crLock \in BOOLEAN /\ saved \subseteq Settings /\ crossed \in BOOLEAN
        /\ spoiled \in {"no", "save", "erase"}
    BY DEF TypeInv, TypeOK
  <2>. QED  BY <2>1, <2>2, RepliesTypes DEF log, history
<1>. QED
  BY <1>1, <1>2, <1>3, <1>4 DEF Command

LEMMA CutTypes ==
  ASSUME TypeInv, PowerCut
  PROVE  TypeInv'
<1>1. /\ \E f : flash' = f /\ BootRam(f)
      /\ flash' \in [Words -> SUBSET (Entries \cup {Junk})]
      /\ blob' \in [1 .. SettingWords -> SUBSET Settings]
  <2>1. CASE Cut \/ CutInCliSave
    BY <2>1 DEF Cut, CutInCliSave, TypeInv, TypeOK
  <2>2. CASE CutOperating
    <3>1. \/ flash' = LogAfter(data) /\ blob' = BlobAfter
          \/ flash' = LogAfter({Junk}) /\ blob' = blob
      BY <2>2 DEF CutOperating
    <3>2. step = "busy" /\ BootRam(flash') /\ blob \in [1 .. SettingWords -> SUBSET Settings]
      BY <2>2 DEF CutOperating, TypeInv, TypeOK
    <3>. QED  BY <3>1, <3>2, AfterTypes
  <2>3. CASE CutInCliErase
    BY <2>3 DEF CutInCliErase, TypeInv, TypeOK
  <2>. QED  BY <2>1, <2>2, <2>3 DEF PowerCut
<1>2. /\ logged' \subseteq Entries /\ saved' \subseteq Settings /\ wrote' = FALSE
      /\ spoiled' \in {"no", "save", "erase"} /\ crossed' \in BOOLEAN
      /\ begun' = begun
  BY DEF PowerCut, Cut, CutOperating, CutInCliErase, CutInCliSave, Lost, TypeInv,
         TypeOK, WorkInv
<1>3. runs' \in Nat /\ runs' <= begun
  <2>1. \/ runs' = runs
        \/ runs' = runs + 1 /\ op = "log" /\ k = 0 /\ step = "busy"
    BY DEF PowerCut, Cut, CutOperating, CutInCliErase, CutInCliSave
  <2>. QED  BY <2>1 DEF TypeInv, TypeOK, RunsInv
<1>4. /\ writeAddr' \in 0 .. LogEnd /\ magic' = "A" /\ rxStarted' = FALSE
      /\ cfg' = Default /\ debug' = FALSE /\ crLock' = TRUE /\ uart' = "ready"
      /\ op' = "boot" /\ step' = "say" /\ k' = 0 /\ addr' = 0 /\ data' = {}
  BY <1>1, ScanTypes DEF BootRam, FreshLog
<1>5. TypeOK'
  <2>1. runs' \in 0 .. MaxWrites /\ begun' \in 0 .. MaxWrites
    BY <1>2, <1>3, Sizes DEF TypeInv, TypeOK
  <2>2. /\ 0 \in 0 .. LogEnd /\ 0 \in 0 .. EntryWords + Sectors + SettingWords
        /\ Default \in Settings
    BY Sizes
  <2>. QED  BY <1>1, <1>2, <1>4, <2>1, <2>2 DEF TypeOK
<1>6. WorkInv' /\ RunsInv'
  BY <1>2, <1>3, <1>4 DEF WorkInv, RunsInv
<1>. QED
  BY <1>5, <1>6 DEF TypeInv

LEMMA TypeNext == TypeInv /\ [Next]_vars => TypeInv'
<1>1. ASSUME TypeInv, DmaDone
      PROVE  TypeInv'
  BY <1>1 DEF DmaDone, ram, log, main, history, TypeInv, TypeOK, WorkInv, RunsInv
<1>2. ASSUME TypeInv, UNCHANGED vars
      PROVE  TypeInv'
  BY <1>2 DEF vars, ram, log, main, history, TypeInv, TypeOK, WorkInv, RunsInv
<1>. QED
  BY <1>1, <1>2, StartTypes, ConsoleTypes, WorkTypes, OperateTypes, LockTypes,
     CommandTypes, CutTypes
     DEF Next, MainStep

\* The types of the log, the page, and what the main loop and the history
\* keep (FlashLog_Write, SettingsNvm_Write, FlashLog_EraseAll): in particular
\* an entry is begun only where there is room for all of it, whatever erases
\* the log meanwhile.
THEOREM LogTypes == Spec => []TypeOK
<1>1. TypeInv => TypeOK
  BY DEF TypeInv
<1>. QED
  BY TypeInit, TypeNext, <1>1, PTL DEF Spec

-----------------------------------------------------------------------------
(* The log: what its parts say of a blank one, and of one that is not      *)
(* written.                                                                *)

LEMMA BlankFlash ==
  /\ \A a \in Slots : Blank[a] = {}
  /\ Firsts(Blank) = {} /\ Complete(Blank) = {}
<1>1. \A a \in Slots : Blank[a] = {}
  BY SlotsApart DEF Blank
<1>2. Magics({}) # {"A"}
  BY DEF Magics
<1>3. Firsts(Blank) = {}
  BY <1>1, <1>2 DEF Firsts
<1>4. ASSUME NEW x \in Complete(Blank)
      PROVE  FALSE
  <2>1. PICK a \in Slots : \A i \in 0 .. EntryWords - 1 : Blank[a + i] = {x}
    BY <1>4 DEF Complete
  <2>2. Blank[a + 0] = {x} /\ a + 0 = a
    BY <2>1, SlotsApart, Sizes
  <2>. QED  BY <1>1, <2>2
<1>. QED
  BY <1>1, <1>3, <1>4

LEMMA BlankGood == flash = Blank /\ logged = {} /\ runs = 0 => LogGood
<1>. SUFFICES ASSUME flash = Blank, logged = {}, runs = 0
              PROVE  LogGood
  OBVIOUS
<1>1. SlotsUsed
  <2>1. \A w \in Words : flash[w] = {}
    BY DEF Blank
  <2>2. \A a \in Slots, i \in 0 .. EntryWords - 1 : flash[a] = {} /\ flash[a + i] = {}
    BY <2>1, SlotsApart
  <2>3. \A a \in Slots, i \in 0 .. EntryWords - 1 :
          flash[a + i] \subseteq flash[a] \cup {Junk}
    BY <2>2
  <2>4. \A a \in Slots : flash[a] \in {{}, {Junk}}
    <3>1. \A a \in Slots : a + 0 = a /\ 0 \in 0 .. EntryWords - 1
      BY SlotsApart, Sizes
    <3>. QED  BY <2>2, <3>1
  <2>. QED  BY <2>1, <2>3, <2>4 DEF SlotsUsed
<1>2. IdsGrow
  BY BlankFlash DEF IdsGrow
<1>3. LogHistory
  BY BlankFlash, FS_EmptySet DEF LogHistory
<1>. QED
  BY <1>1, <1>2, <1>3 DEF LogGood

\* A log that has just been scanned waits for its next entry.
LEMMA ScanWaits ==
  writeAddr = Scan(flash) /\ magic = "A" /\ wrote = FALSE => Waiting
<1>. SUFFICES ASSUME writeAddr = Scan(flash), magic = "A", wrote = FALSE
              PROVE  Waiting
  OBVIOUS
<1>1. ASSUME Room
      PROVE  Scan(flash) # LogEnd
  BY <1>1, ScanStops, Sizes DEF Room
<1>2. Room => FreeSlot(writeAddr) /\ flash[writeAddr] = {}
  BY <1>1, ScanStops DEF FreeSlot
<1>. QED
  BY <1>2 DEF Waiting

LEMMA LogInit == Init => LogInv
<1>1. ASSUME Init
      PROVE  LogGood /\ Waiting
  <2>1. /\ flash = Blank /\ logged = {} /\ runs = 0 /\ writeAddr = 0 /\ magic = "A"
        /\ wrote = FALSE
    BY <1>1 DEF Init
  <2>2. Room => EntryWords <= LogEnd
    BY <2>1, Sizes DEF Room
  <2>3. Waiting
    BY <2>1, <2>2, BlankLog, ScanWaits DEF Waiting
  <2>. QED  BY <2>1, <2>3, BlankGood
<1>. QED
  BY <1>1 DEF Init, LogInv, EraseBegun

LEMMA LogStays ==
  ASSUME LogGood, UNCHANGED <<flash, begun, logged, runs>>
  PROVE  LogGood'
<1>1. SlotsUsed'
  BY DEF LogGood, SlotsUsed
<1>2. IdsGrow'
  BY DEF LogGood, IdsGrow
<1>3. LogHistory'
  BY DEF LogGood, LogHistory
<1>. QED
  BY <1>1, <1>2, <1>3 DEF LogGood

LEMMA WaitStays ==
  ASSUME Waiting, UNCHANGED <<flash, writeAddr, magic, wrote>>
  PROVE  Waiting'
  BY DEF Waiting, Room, FreeSlot

LEMMA WriteStays ==
  ASSUME Writing, UNCHANGED <<flash, begun, wrote, magic, writeAddr, k, data>>,
         step' \in {"unlock", "call", "busy", "held", "lock", "load", "store"},
         step' = "unlock" => k = 0,
         step' \in {"lock", "load", "store"} => k = EntryWords - 1,
         step' # "unlock" => addr' = writeAddr,
         step' \in {"call", "busy", "held", "lock"} => ~crLock',
         Programmed' = Programmed
  PROVE  Writing'
  BY DEF Writing, FreeSlot

LEMMA EraseStays ==
  ASSUME Erasing, UNCHANGED <<flash, k>>,
         step' \in {"unlock", "call", "busy", "held", "lock"},
         step' # "unlock" => ~crLock',
         step' = "lock" => k = Sectors - 1,
         step' \in {"held", "lock"} => step \in {"held", "lock"}
  PROVE  Erasing'
  BY DEF Erasing

-----------------------------------------------------------------------------
(* One more word of the entry in hand. *)

\* What is known of the log before a word of the entry e is programmed.
LEMMA BeforeWord ==
  ASSUME TypeInv, Writing, op = "log", step = "busy"
  PROVE  /\ writeAddr \in Slots /\ addr = writeAddr /\ k \in 0 .. EntryWords - 1
         /\ writeAddr + k \in Words /\ flash[writeAddr + k] = {}
         /\ \A b \in Slots : b < writeAddr => flash[b] # {}
         /\ \A i \in 0 .. EntryWords - 1 :
              flash[writeAddr + i] = IF i < k THEN data ELSE {}
         /\ \A b \in Slots : b > writeAddr =>
              /\ b > writeAddr + k
              /\ \A w \in Words : w >= b => flash[w] = {}
         /\ \E e \in Entries : /\ data = {e} /\ e.id = begun
                               /\ wrote \/ k = 0
                               /\ k = 0 => (e.magic = "A" <=> ~wrote)
<1>1. /\ writeAddr \in Slots /\ \A b \in Slots : b < writeAddr => flash[b] # {}
      /\ addr = writeAddr /\ Programmed = k
      /\ \A w \in Words : w >= writeAddr =>
           flash[w] = IF w < writeAddr + k THEN data ELSE {}
  BY DEF Writing, FreeSlot, Programmed
<1>2. k \in 0 .. EntryWords - 1
  BY Sizes DEF TypeInv, TypeOK, WorkInv
<1>3. writeAddr \in Nat
  BY <1>1, SlotsApart
<1>4. \A i \in 0 .. EntryWords - 1 :
        /\ writeAddr + i \in Words
        /\ flash[writeAddr + i] = IF i < k THEN data ELSE {}
  <2>1. \A i \in 0 .. EntryWords - 1 : writeAddr + i \in Words
    BY <1>1, SlotsApart
  <2>2. \A i \in 0 .. EntryWords - 1 :
          writeAddr + i >= writeAddr /\ (writeAddr + i < writeAddr + k <=> i < k)
    BY <1>2, <1>3
  <2>. QED  BY <1>1, <2>1, <2>2
<1>5. ASSUME NEW b \in Slots, b > writeAddr
      PROVE  /\ b > writeAddr + k
             /\ \A w \in Words : w >= b => flash[w] = {}
  <2>1. b \in Nat /\ writeAddr + EntryWords <= b
    BY <1>1, <1>5, SlotsApart
  <2>2. b > writeAddr + k
    BY <1>2, <1>3, <2>1, Sizes
  <2>3. \A w \in Words : w >= b => w >= writeAddr /\ ~(w < writeAddr + k)
    BY <1>2, <1>3, <2>1, <2>2, Sizes DEF Words
  <2>. QED  BY <1>1, <2>2, <2>3
<1>6. \E e \in Entries : /\ data = {e} /\ e.id = begun
                         /\ wrote \/ k = 0
                         /\ k = 0 => (e.magic = "A" <=> ~wrote)
  <2>1. PICK m \in {"A", "B"} : /\ data = {[id |-> begun, magic |-> m]}
                                /\ wrote \/ k = 0
                                /\ k = 0 => (m = "A" <=> ~wrote)
    BY <1>1 DEF Writing
  <2>2. [id |-> begun, magic |-> m] \in Entries
    BY <2>1 DEF TypeInv, WorkInv
  <2>. QED  BY <2>1, <2>2
<1>7. flash[writeAddr + k] = {} /\ writeAddr + k \in Words
  BY <1>2, <1>4
<1>. QED
  BY <1>1, <1>2, <1>4, <1>5, <1>6, <1>7

\* The slots that a word of the entry in hand leaves alone.
LEMMA OtherSlots ==
  ASSUME TypeInv, Writing, op = "log", step = "busy", NEW v,
         flash' = [flash EXCEPT ![writeAddr + k] = v]
  PROVE  /\ \A w \in Words : w # writeAddr + k => flash'[w] = flash[w]
         /\ flash'[writeAddr + k] = v
         /\ \A a \in Slots, i \in 0 .. EntryWords - 1 :
              a # writeAddr => flash'[a + i] = flash[a + i]
         /\ \A a \in Slots : a # writeAddr => flash'[a] = flash[a]
         /\ k # 0 => \A a \in Slots : flash'[a] = flash[a]
<1>1. /\ writeAddr \in Slots /\ k \in 0 .. EntryWords - 1 /\ writeAddr + k \in Words
  BY BeforeWord
<1>2. /\ \A w \in Words : w # writeAddr + k => flash'[w] = flash[w]
      /\ flash'[writeAddr + k] = v
  <2>1. flash \in [Words -> SUBSET (Entries \cup {Junk})]
    BY DEF TypeInv, TypeOK
  <2>. QED  BY <1>1, <2>1
<1>3. ASSUME NEW a \in Slots, NEW i \in 0 .. EntryWords - 1, a # writeAddr
      PROVE  a + i # writeAddr + k
  <2>1. a < writeAddr \/ writeAddr < a
    BY <1>1, <1>3, SlotsApart
  <2>2. a + EntryWords <= writeAddr \/ writeAddr + EntryWords <= a
    BY <1>1, <2>1, SlotsApart
  <2>. QED  BY <1>1, <2>2, SlotsApart, Sizes
<1>4. \A a \in Slots, i \in 0 .. EntryWords - 1 :
        a # writeAddr => flash'[a + i] = flash[a + i]
  BY <1>2, <1>3, SlotsApart
<1>5. \A a \in Slots : a + 0 = a /\ 0 \in 0 .. EntryWords - 1 /\ a \in Words
  BY SlotsApart, Sizes
<1>6. \A a \in Slots : a # writeAddr => flash'[a] = flash[a]
  BY <1>4, <1>5
<1>7. k # 0 => writeAddr # writeAddr + k
  BY <1>1, SlotsApart
<1>8. k # 0 => \A a \in Slots : flash'[a] = flash[a]
  BY <1>1, <1>2, <1>5, <1>6, <1>7
<1>. QED
  BY <1>2, <1>4, <1>6, <1>8

\* Programming a word of the entry, or tearing it, keeps the slots in order ...
LEMMA WordUsed ==
  ASSUME TypeInv, Writing, LogGood, op = "log", step = "busy",
         NEW v \in {data, {Junk}}, begun' = begun,
         flash' = [flash EXCEPT ![writeAddr + k] = v]
  PROVE  SlotsUsed' /\ IdsGrow'
<1> DEFINE p == writeAddr
<1>1. PICK e \in Entries : data = {e} /\ e.id = begun
  BY BeforeWord
<1>2. /\ p \in Slots /\ k \in 0 .. EntryWords - 1
      /\ \A b \in Slots : b < p => flash[b] # {}
      /\ \A i \in 0 .. EntryWords - 1 : flash[p + i] = IF i < k THEN data ELSE {}
      /\ \A b \in Slots : b > p => /\ b > p + k
                                   /\ \A w \in Words : w >= b => flash[w] = {}
  BY BeforeWord
<1>3. /\ \A w \in Words : w # p + k => flash'[w] = flash[w]
      /\ flash'[p + k] = v
      /\ \A a \in Slots, i \in 0 .. EntryWords - 1 :
           a # p => flash'[a + i] = flash[a + i]
      /\ \A a \in Slots : a # p => flash'[a] = flash[a]
  BY OtherSlots
<1>4. /\ \A a \in Slots : a \in Nat /\ a + 0 = a
      /\ 0 \in 0 .. EntryWords - 1 /\ v # {}
  BY <1>1, SlotsApart, Sizes
<1>5. flash'[p] = IF k = 0 THEN v ELSE data
  <2>1. CASE k = 0
    BY <1>2, <1>3, <1>4, <2>1
  <2>2. CASE k # 0
    <3>1. flash[p + 0] = data /\ p + 0 = p
      BY <1>2, <1>4, <2>2
    <3>2. p \in Words /\ p # p + k
      BY <1>2, <2>2, SlotsApart
    <3>. QED  BY <1>3, <2>2, <3>1, <3>2
  <2>. QED  BY <2>1, <2>2
<1>6. SlotsUsed /\ IdsGrow
  BY DEF LogGood
<1>7. SlotsUsed'
  <2>1. ASSUME NEW a \in Slots, flash'[a] = {}, NEW w \in Words, w >= a
        PROVE  flash'[w] = {}
    <3>1. a # p
      BY <1>1, <1>4, <1>5, <2>1
    <3>2. a > p
      BY <1>2, <1>3, <1>4, <2>1, <3>1
    <3>3. a > p + k /\ flash[w] = {}
      BY <1>2, <2>1, <3>2
    <3>4. w # p + k
      BY <1>2, <1>4, <2>1, <3>3 DEF Words
    <3>. QED  BY <1>3, <3>3, <3>4
  <2>2. ASSUME NEW a \in Slots
        PROVE  \/ flash'[a] \in {{}, {Junk}}
               \/ \E x \in Entries : flash'[a] = {x} /\ x.id <= begun
    <3>1. CASE a = p
      <4>1. e.id <= begun
        BY <1>1 DEF TypeInv, TypeOK
      <4>. QED  BY <1>1, <1>5, <3>1, <4>1
    <3>2. CASE a # p
      BY <1>3, <1>6, <3>2 DEF SlotsUsed
    <3>. QED  BY <3>1, <3>2
  <2>3. ASSUME NEW a \in Slots, NEW i \in 0 .. EntryWords - 1
        PROVE  flash'[a + i] \subseteq flash'[a] \cup {Junk}
    <3>1. CASE a = p
      <4>1. p + i \in Words /\ p \in Nat
        BY <1>2, <1>4, SlotsApart
      <4>2. CASE i = k
        BY <1>3, <1>5, <3>1, <4>2
      <4>3. CASE i # k
        <5>1. flash'[p + i] = IF i < k THEN data ELSE {}
          BY <1>2, <1>3, <4>1, <4>3
        <5>. QED  BY <1>2, <1>5, <3>1, <5>1
      <4>. QED  BY <4>2, <4>3
    <3>2. CASE a # p
      <4>1. flash[a + i] \subseteq flash[a] \cup {Junk}
        BY <1>6 DEF SlotsUsed
      <4>. QED  BY <1>3, <3>2, <4>1
    <3>. QED  BY <3>1, <3>2
  <2>. QED  BY <2>1, <2>2, <2>3 DEF SlotsUsed
<1>8. IdsGrow'
  <2>1. SUFFICES ASSUME NEW a \in Slots, NEW b \in Slots,
                        NEW x \in Entries, NEW y \in Entries,
                        a < b, flash'[a] = {x}, flash'[b] = {y}
                 PROVE  x.id < y.id
    BY DEF IdsGrow
  <2>2. CASE a # p /\ b # p
    BY <1>3, <1>6, <2>1, <2>2 DEF IdsGrow
  <2>3. CASE b = p
    <3>1. y = e
      <4>1. Junk \notin Entries
        BY DEF Junk, Entries
      <4>. QED  BY <1>1, <1>5, <2>1, <2>3, <4>1
    <3>2. a # p
      BY <1>4, <2>1, <2>3
    <3>3. flash[a] = {x}
      BY <1>3, <2>1, <3>2
    <3>4. x.id < begun
      BY <2>1, <2>3, <3>3 DEF Writing
    <3>. QED  BY <1>1, <3>1, <3>4
  <2>4. CASE a = p
    <3>1. b > p /\ b # p /\ b \in Words /\ b >= b
      BY <1>4, <2>1, <2>4, SlotsApart
    <3>2. flash[b] = {}
      BY <1>2, <3>1
    <3>. QED  BY <1>3, <2>1, <3>1, <3>2
  <2>. QED  BY <2>2, <2>3, <2>4
<1>. QED
  BY <1>7, <1>8

\* ... completes the entry if it is its last word ...
LEMMA WordCompletes ==
  ASSUME TypeInv, Writing, op = "log", step = "busy",
         NEW v \in {data, {Junk}},
         flash' = [flash EXCEPT ![writeAddr + k] = v]
  PROVE  Complete(flash') =
           IF v = data /\ k = EntryWords - 1 THEN Complete(flash) \cup data
                                             ELSE Complete(flash)
<1> DEFINE p == writeAddr
<1>1. PICK e \in Entries : data = {e}
  BY BeforeWord
<1>2. /\ p \in Slots /\ k \in 0 .. EntryWords - 1 /\ flash[p + k] = {}
      /\ \A i \in 0 .. EntryWords - 1 : p + i \in Words /\ p + i \in Nat
      /\ \A i \in 0 .. EntryWords - 1 : flash[p + i] = IF i < k THEN data ELSE {}
  BY BeforeWord, SlotsApart
<1>3. /\ \A w \in Words : w # p + k => flash'[w] = flash[w]
      /\ flash'[p + k] = v
      /\ \A a \in Slots, i \in 0 .. EntryWords - 1 :
           a # p => flash'[a + i] = flash[a + i]
  BY OtherSlots
<1>4. Junk \notin Entries
  BY DEF Junk, Entries
<1>5. p \in Nat
  BY <1>2, SlotsApart
<1>6. ASSUME NEW x \in Entries
      PROVE  (\A i \in 0 .. EntryWords - 1 : flash'[p + i] = {x})
             <=> v = data /\ k = EntryWords - 1 /\ x = e
  <2>1. ASSUME \A i \in 0 .. EntryWords - 1 : flash'[p + i] = {x}
        PROVE  v = data /\ k = EntryWords - 1 /\ x = e
    <3>1. v = {x}
      BY <1>2, <1>3, <2>1
    <3>2. v = data /\ x = e
      BY <1>1, <1>4, <3>1
    <3>3. CASE k # EntryWords - 1
      <4>1. /\ EntryWords - 1 \in 0 .. EntryWords - 1
            /\ ~(EntryWords - 1 < k)
            /\ p + (EntryWords - 1) # p + k
        BY <1>2, <1>5, <3>3, Sizes
      <4>2. flash'[p + (EntryWords - 1)] = {}
        BY <1>2, <1>3, <4>1
      <4>. QED  BY <2>1, <4>1, <4>2
    <3>. QED  BY <3>2, <3>3
  <2>2. ASSUME v = data, k = EntryWords - 1, NEW i \in 0 .. EntryWords - 1
        PROVE  flash'[p + i] = {e}
    <3>1. CASE i = k
      BY <1>1, <1>3, <2>2, <3>1
    <3>2. CASE i # k
      <4>1. i < k /\ p + i # p + k
        BY <1>2, <1>5, <2>2, <3>2, Sizes
      <4>. QED  BY <1>1, <1>2, <1>3, <4>1
    <3>. QED  BY <3>1, <3>2
  <2>. QED  BY <2>1, <2>2
<1>7. ~ \E x \in Entries : \A i \in 0 .. EntryWords - 1 : flash[p + i] = {x}
  BY <1>2
<1>8. ASSUME NEW x \in Entries
      PROVE  x \in Complete(flash') <=> \/ x \in Complete(flash)
                                        \/ v = data /\ k = EntryWords - 1 /\ x = e
  <2>1. \A a \in Slots : a # p =>
          ((\A i \in 0 .. EntryWords - 1 : flash'[a + i] = {x})
           <=> (\A i \in 0 .. EntryWords - 1 : flash[a + i] = {x}))
    BY <1>3
  <2>. QED  BY <1>2, <1>6, <1>7, <2>1 DEF Complete
<1>9. Complete(flash') \subseteq Entries /\ Complete(flash) \subseteq Entries
  BY DEF Complete
<1>. QED
  BY <1>1, <1>8, <1>9

\* ... and begins a session if it is the first word of its first entry.
LEMMA WordBegins ==
  ASSUME TypeInv, Writing, op = "log", step = "busy",
         NEW v \in {data, {Junk}},
         flash' = [flash EXCEPT ![writeAddr + k] = v]
  PROVE  /\ IsFiniteSet(Firsts(flash))
         /\ Cardinality(Firsts(flash')) =
              IF v = data /\ k = 0 /\ ~wrote THEN Cardinality(Firsts(flash)) + 1
                                             ELSE Cardinality(Firsts(flash))
<1>1. PICK e \in Entries : data = {e} /\ (k = 0 => (e.magic = "A" <=> ~wrote))
  BY BeforeWord
<1>2. /\ writeAddr \in Slots /\ k \in 0 .. EntryWords - 1 /\ flash[writeAddr + k] = {}
      /\ writeAddr \in Nat
  BY BeforeWord, SlotsApart
<1>3. /\ flash'[writeAddr + k] = v
      /\ \A a \in Slots : a # writeAddr => flash'[a] = flash[a]
      /\ k # 0 => \A a \in Slots : flash'[a] = flash[a]
  BY OtherSlots
<1>4. /\ Magics({}) # {"A"} /\ Magics({Junk}) # {"A"}
      /\ Magics({e}) = {"A"} <=> e.magic = "A"
  BY DEF Magics, Junk
<1>5. IsFiniteSet(Firsts(flash))
  <2>1. Firsts(flash) \subseteq 0 .. LogEnd
    BY SlotsApart, Sizes DEF Firsts
  <2>2. IsFiniteSet(0 .. LogEnd)
    BY Sizes, FS_Interval
  <2>. QED  BY <2>1, <2>2, FS_Subset
<1>6. CASE k # 0
  <2>1. Firsts(flash') = Firsts(flash)
    BY <1>3, <1>6 DEF Firsts
  <2>. QED  BY <1>5, <1>6, <2>1
<1>7. CASE k = 0
  <2>1. flash'[writeAddr] = v /\ writeAddr \notin Firsts(flash)
    BY <1>2, <1>3, <1>4, <1>7 DEF Firsts
  <2>2. Magics(v) = {"A"} <=> v = data /\ ~wrote
    BY <1>1, <1>4, <1>7
  <2>3. Firsts(flash') = IF v = data /\ ~wrote THEN Firsts(flash) \cup {writeAddr}
                                               ELSE Firsts(flash)
    BY <1>2, <1>3, <2>1, <2>2 DEF Firsts
  <2>4. Cardinality(Firsts(flash) \cup {writeAddr}) = Cardinality(Firsts(flash)) + 1
    BY <1>5, <2>1, FS_AddElement
  <2>. QED  BY <1>5, <1>7, <2>3, <2>4
<1>. QED
  BY <1>6, <1>7

LEMMA WordGood ==
  ASSUME TypeInv, Writing, LogGood, op = "log", step = "busy",
         NEW v \in {data, {Junk}}, begun' = begun,
         flash' = [flash EXCEPT ![writeAddr + k] = v],
         logged' = IF v = data /\ k = EntryWords - 1 THEN logged \cup data ELSE logged,
         runs' = IF v = data /\ k = 0 /\ ~wrote THEN runs + 1 ELSE runs
  PROVE  LogGood'
<1>1. SlotsUsed' /\ IdsGrow'
  BY WordUsed
<1>2. logged = Complete(flash) /\ runs = Cardinality(Firsts(flash))
  BY DEF LogGood, LogHistory
<1>3. logged' = Complete(flash') /\ runs' = Cardinality(Firsts(flash'))
  BY <1>2, WordCompletes, WordBegins
<1>4. LogHistory'
  BY <1>3 DEF LogHistory
<1>. QED
  BY <1>1, <1>4 DEF LogGood

\* A word that is programmed, whole or torn, has been free.
LEMMA Programs ==
  ASSUME TypeInv, Writing, op = "log", step = "busy", NEW word
  PROVE  LogAfter(word) = [flash EXCEPT ![writeAddr + k] = word]
<1>1. addr = writeAddr /\ flash[writeAddr + k] = {} /\ writeAddr + k \in Words
  BY BeforeWord
<1>2. LogAfter(word) = [flash EXCEPT ![writeAddr + k] = flash[writeAddr + k] \cup word]
  BY <1>1 DEF LogAfter
<1>. QED
  BY <1>1, <1>2

LEMMA OperateLog ==
  ASSUME TypeInv, LogInv, Operate
  PROVE  LogInv'
<1>1. /\ UNCHANGED <<crLock, uart, begun, spoiled, writeAddr, magic, op, k, addr, data>>
      /\ step = "busy" /\ step' = "held" /\ ~crLock
      /\ flash' = LogAfter(data) /\ Recorded
  BY DEF Operate, Goes, ram, log
<1>2. CASE op = "log" /\ spoiled = "no"
  <2>1. LogGood /\ Writing
    BY <1>2 DEF LogInv, EraseBegun
  <2>2. flash' = [flash EXCEPT ![writeAddr + k] = data]
    BY <1>1, <1>2, <2>1, Programs
  <2>3. LogGood'
    BY <1>1, <1>2, <2>1, <2>2, WordGood DEF Recorded
  <2>4. Writing'
    <3>1. /\ addr = writeAddr /\ k \in 0 .. EntryWords - 1
          /\ writeAddr \in Slots /\ writeAddr \in Nat
          /\ \A b \in Slots : b < writeAddr => flash[b] # {}
          /\ \A w \in Words : w >= writeAddr =>
               flash[w] = IF w < writeAddr + k THEN data ELSE {}
      BY <1>1, <1>2, <2>1, BeforeWord, SlotsApart DEF Writing, Programmed
    <3>2. /\ \A w \in Words : w # writeAddr + k => flash'[w] = flash[w]
          /\ flash'[writeAddr + k] = data
          /\ \A a \in Slots : a # writeAddr => flash'[a] = flash[a]
      BY <1>1, <1>2, <2>1, <2>2, OtherSlots
    <3>3. Programmed = k /\ Programmed' = k + 1
      BY <1>1 DEF Programmed
    <3>4. FreeSlot(writeAddr)'
      <4>1. \A b \in Slots : b < writeAddr => b # writeAddr
        BY <3>1, SlotsApart
      <4>. QED  BY <1>1, <3>1, <3>2, <4>1 DEF FreeSlot
    <3>5. \A w \in Words : w >= writeAddr =>
            flash'[w] = IF w < writeAddr + (k + 1) THEN data ELSE {}
      BY <3>1, <3>2 DEF Words
    <3>6. \A a \in Slots, x \in Entries :
            a < writeAddr /\ flash'[a] = {x} => x.id < begun
      BY <2>1, <3>1, <3>2 DEF Writing
    <3>7. /\ \E m \in {"A", "B"} : data = {[id |-> begun, magic |-> m]}
          /\ wrote'
      BY <1>1, <1>2, <2>1, <3>3 DEF Writing, Recorded
    <3>8. k + 1 # 0 /\ magic = "B"
      BY <2>1, <3>1 DEF Writing
    <3>9. Programmed' # 0
      BY <3>1, <3>3
    <3>. QED  BY <1>1, <3>1, <3>3, <3>4, <3>5, <3>6, <3>7, <3>8, <3>9 DEF Writing
  <2>. QED  BY <1>1, <1>2, <2>3, <2>4 DEF LogInv, EraseBegun
<1>3. CASE op = "erase" /\ spoiled = "no"
  <2>1. Erasing
    BY <1>1, <1>3 DEF LogInv, EraseBegun
  <2>2. flash' = EraseSector(flash, k)
    BY <1>1, <1>3 DEF LogAfter
  <2>3. Erasing'
    BY <1>1, <2>1, <2>2 DEF Erasing, EraseSector
  <2>. QED  BY <1>1, <1>3, <2>3 DEF LogInv, EraseBegun
<1>4. CASE op \notin {"log", "erase"} /\ spoiled = "no"
  <2>1. UNCHANGED <<flash, begun, logged, runs, wrote>>
    BY <1>1, <1>4 DEF LogAfter, Recorded, TypeInv, TypeOK
  <2>2. LogGood' /\ (op # "stuck" => Waiting')
    BY <1>1, <1>4, <2>1, LogStays, WaitStays DEF LogInv, EraseBegun
  <2>. QED  BY <1>1, <1>4, <2>2 DEF LogInv, EraseBegun
<1>. QED
  BY <1>1, <1>2, <1>3, <1>4 DEF LogInv

-----------------------------------------------------------------------------
(* The log through the other steps of the main loop. *)

LEMMA LogBefore ==
  ASSUME LogInv, spoiled = "no"
  PROVE  /\ EraseBegun => Erasing
         /\ ~EraseBegun => LogGood
         /\ op = "log" => Writing
         /\ ~EraseBegun /\ op \notin {"log", "stuck"} => Waiting
  BY DEF LogInv, EraseBegun

\* A step between two entries, before and after.
LEMMA StillWaiting ==
  ASSUME LogInv, ~EraseBegun, op \notin {"log", "stuck"},
         UNCHANGED <<flash, writeAddr, magic, wrote, begun, logged, runs>>,
         spoiled' = "no" => spoiled = "no",
         op' # "log", ~(op' = "erase" /\ step' \notin {"say", "uart"})
  PROVE  LogInv'
<1>1. SUFFICES ASSUME spoiled = "no"
               PROVE  LogGood' /\ Waiting'
  BY DEF LogInv, EraseBegun
<1>. QED
  BY <1>1, LogBefore, LogStays, WaitStays

LEMMA StartLog ==
  ASSUME TypeInv, LogInv,
         \/ LogWrite \/ LogFull
         \/ KeySave \/ KeyClear \/ KeyErase \/ KeyLog \/ Trace
  PROVE  LogInv'
<1>1. CASE LogWrite
  <2>1. /\ op = "idle" /\ op' = "log" /\ step' = "unlock" /\ k' = 0
        /\ data' = {[id |-> begun + 1, magic |-> magic]} /\ magic' = "B"
        /\ begun' = begun + 1 /\ Room
        /\ UNCHANGED <<flash, writeAddr, logged, wrote, runs, spoiled>>
    BY <1>1 DEF LogWrite, Starts
  <2>2. SUFFICES ASSUME spoiled = "no"
                 PROVE  LogGood' /\ Writing'
    BY <2>1 DEF LogInv, EraseBegun
  <2>3. LogGood /\ Waiting
    BY <2>1, <2>2, LogBefore DEF EraseBegun
  <2>4. begun \in Nat /\ magic \in {"A", "B"}
    BY DEF TypeInv, TypeOK
  <2>5. LogGood'
    <3>1. \A x \in Entries : x.id <= begun => x.id <= begun'
      BY <2>1, <2>4 DEF Entries
    <3>2. SlotsUsed'
      BY <2>1, <2>3, <3>1 DEF LogGood, SlotsUsed
    <3>3. IdsGrow' /\ LogHistory'
      BY <2>1, <2>3 DEF LogGood, IdsGrow, LogHistory
    <3>. QED  BY <3>2, <3>3 DEF LogGood
  <2>6. Writing'
    <3>1. FreeSlot(writeAddr) /\ flash[writeAddr] = {} /\ (magic = "A" <=> ~wrote)
      BY <2>1, <2>3 DEF Waiting
    <3>2. writeAddr \in Slots /\ writeAddr \in Nat
      BY <3>1, SlotsApart DEF FreeSlot
    <3>3. \A w \in Words : w >= writeAddr => flash[w] = {} /\ ~(w < writeAddr + 0)
      BY <2>3, <3>1, <3>2 DEF LogGood, SlotsUsed, Words
    <3>4. \A a \in Slots, x \in Entries : flash[a] = {x} => x.id < begun + 1
      <4>1. \A a \in Slots, x \in Entries :
              flash[a] = {x} => x.id <= begun
        BY <2>3 DEF LogGood, SlotsUsed, Junk, Entries
      <4>. QED  BY <2>4, <4>1 DEF Entries
    <3>5. Programmed' = 0
      BY <2>1 DEF Programmed
    <3>6. FreeSlot(writeAddr)'
      BY <2>1, <3>1 DEF FreeSlot
    <3>. QED  BY <2>1, <2>4, <3>1, <3>3, <3>4, <3>5, <3>6 DEF Writing
  <2>. QED  BY <2>5, <2>6
<1>2. CASE KeySave \/ KeyClear \/ KeyErase
  BY <1>2, StillWaiting
     DEF KeySave, KeyClear, KeyErase, Starts, ram, log, history, EraseBegun
<1>3. CASE LogFull \/ KeyLog \/ Trace
  BY <1>3, StillWaiting DEF LogFull, KeyLog, Trace, ram, log, main, history,
                            EraseBegun
<1>. QED
  BY <1>1, <1>2, <1>3

LEMMA ConsoleLog ==
  ASSUME TypeInv, LogInv, Say \/ Said \/ BootSettings
  PROVE  LogInv'
<1>0. SUFFICES ASSUME spoiled = "no" PROVE LogInv'
  BY DEF Say, Said, BootSettings, history, LogInv
<1>1. /\ ~EraseBegun /\ op \notin {"log", "stuck"}
      /\ UNCHANGED <<flash, writeAddr, magic, wrote, begun, logged, runs, spoiled>>
  <2>1. op = "log" => step \notin {"say", "uart"}
    BY <1>0, LogBefore DEF Writing
  <2>2. op = "stuck" => step = "stuck"
    BY DEF TypeInv, WorkInv
  <2>. QED  BY <2>1, <2>2 DEF Say, Said, BootSettings, EraseBegun, ram, log, history
<1>2. CASE Say \/ BootSettings
  BY <1>1, <1>2, StillWaiting DEF Say, BootSettings, Idle
<1>3. CASE Said /\ op' # "erase"
  BY <1>1, <1>3, StillWaiting DEF Said, Goes, Idle
<1>4. CASE Said /\ op' = "erase"
  <2>1. op = "erase" /\ step = "uart" /\ op' = "erase" /\ step' = "unlock" /\ k' = k
    BY <1>4 DEF Said, Goes, Idle
  <2>2. k = 0
    BY <2>1 DEF TypeInv, WorkInv
  <2>3. Erasing'
    <3>1. \A w \in Words : w \in Nat /\ w \div SectorWords \in Nat
      BY Sizes, Division DEF Words
    <3>2. \A w \in Words : ~(w \div SectorWords < k)
      BY <2>2, <3>1
    <3>. QED  BY <1>1, <2>1, <3>2 DEF Erasing
  <2>. QED  BY <2>1, <2>3 DEF LogInv, EraseBegun
<1>. QED
  BY <1>2, <1>3, <1>4

LEMMA WorkLog ==
  ASSUME TypeInv, LogInv, Unlock \/ Call \/ Refused \/ Leave
  PROVE  LogInv'
<1>0. SUFFICES ASSUME spoiled = "no" PROVE LogInv'
  BY DEF Unlock, Call, Refused, Leave, history, LogInv
<1>1. /\ UNCHANGED <<flash, blob, ram, uart, op, data, history>>
      /\ step \in {"unlock", "call", "busy", "held", "failed"}
      /\ step' \in {"call", "busy", "held", "failed", "lock", "abort"}
  BY DEF Unlock, Call, Refused, Leave, Goes
<1>2. CASE op = "log"
  <2>1. LogGood /\ Writing
    BY <1>0, <1>2, LogBefore DEF EraseBegun
  <2>2. LogGood'
    BY <1>1, <2>1, LogStays DEF history
  <2>3. k \in 0 .. EntryWords - 1
    BY <1>2, Sizes DEF TypeInv, TypeOK, WorkInv
  <2>4. CASE Unlock
    <3>1. step' = "call" /\ crLock' = FALSE /\ addr' = writeAddr /\ k' = k
          /\ Programmed' = Programmed
      BY <1>2, <2>4 DEF Unlock, Programmed
    <3>. QED  BY <1>1, <2>1, <2>2, <3>1, <1>2, WriteStays
                 DEF LogInv, EraseBegun, ram, log, history
  <2>5. CASE Call
    <3>1. /\ step = "call" /\ step' = "busy" /\ UNCHANGED <<crLock, k, addr>>
          /\ Programmed' = Programmed
      BY <2>5 DEF Call, Goes, Programmed
    <3>2. ~crLock /\ addr = writeAddr
      BY <2>1, <3>1 DEF Writing
    <3>. QED  BY <1>1, <2>1, <2>2, <3>1, <3>2, <1>2, WriteStays
                 DEF LogInv, EraseBegun, ram, log, history
  <2>6. CASE Refused
    BY <2>1, <2>6 DEF Refused, Writing
  <2>7. CASE Leave
    <3>1. step = "held" /\ addr = writeAddr /\ ~crLock
      BY <2>1, <2>7 DEF Leave, Writing
    <3>2. UNCHANGED <<crLock, addr>>
      BY <2>7 DEF Leave
    <3>3. CASE step' = "lock"
      <4>1. k' = k /\ k = EntryWords - 1 /\ Programmed' = Programmed
        BY <1>2, <2>7, <3>1, <3>3 DEF Leave, LastCall, Programmed
      <4>. QED  BY <1>1, <2>1, <2>2, <3>1, <3>2, <3>3, <4>1, <1>2, WriteStays
                   DEF LogInv, EraseBegun, ram, log, history
    <3>4. CASE step' = "call" /\ k' = k + 1
      <4>1. Programmed = k + 1 /\ Programmed' = k + 1
        BY <3>1, <3>4 DEF Programmed
      <4>2. Writing'
        BY <1>1, <2>1, <3>1, <3>2, <3>4, <4>1
           DEF Writing, FreeSlot, ram, log, history
      <4>. QED  BY <1>1, <1>2, <2>2, <4>2 DEF LogInv, EraseBegun
    <3>. QED  BY <2>7, <3>1, <3>3, <3>4 DEF Leave
  <2>. QED  BY <2>4, <2>5, <2>6, <2>7
<1>3. CASE op = "erase"
  <2>1. Erasing
    BY <1>0, <1>1, <1>3, LogBefore DEF EraseBegun
  <2>2. Erasing'
    <3>1. CASE Unlock \/ Call
      BY <1>1, <1>3, <2>1, <3>1, EraseStays DEF Unlock, Call, Goes, Erasing
    <3>2. CASE Refused
      BY <2>1, <3>2 DEF Refused, Erasing
    <3>3. CASE Leave
      <4>1. step = "held" /\ ~crLock /\ crLock' = crLock
        BY <2>1, <3>3 DEF Leave, Erasing
      <4>2. CASE step' = "lock"
        BY <1>1, <1>3, <2>1, <3>3, <4>1, <4>2, EraseStays DEF Leave, LastCall
      <4>3. CASE step' = "call" /\ k' = k + 1
        <5>1. k \in Nat
          BY DEF TypeInv, TypeOK
        <5>2. \A w \in Words : w \div SectorWords \in Nat
          BY Sizes, Division DEF Words
        <5>3. \A w \in Words : w \div SectorWords < k + 1 =>
                w \div SectorWords < k \/ w \div SectorWords = k
          BY <5>1, <5>2
        <5>. QED  BY <1>1, <2>1, <4>1, <4>3, <5>3 DEF Erasing
      <4>. QED  BY <3>3, <4>1, <4>2, <4>3 DEF Leave
    <3>. QED  BY <3>1, <3>2, <3>3
  <2>. QED  BY <1>1, <1>3, <2>2 DEF LogInv, EraseBegun
<1>4. CASE op \notin {"log", "erase"}
  <2>1. op # "stuck"
    BY <1>1 DEF TypeInv, WorkInv
  <2>. QED  BY <1>1, <1>4, <2>1, StillWaiting DEF EraseBegun, ram, log, history
<1>. QED
  BY <1>2, <1>3, <1>4

\* The entry is done: the slot after it is free, if there is one.
LEMMA StoreLog ==
  ASSUME TypeInv, LogInv, LogStore
  PROVE  LogInv'
<1>1. /\ op = "log" /\ step = "store" /\ op' = "idle"
      /\ writeAddr' = addr + EntryWords
      /\ UNCHANGED <<flash, magic, begun, logged, wrote, runs, spoiled>>
  BY DEF LogStore, Idle, history
<1>2. SUFFICES ASSUME spoiled = "no"
               PROVE  LogGood' /\ Waiting'
  BY <1>1 DEF LogInv, EraseBegun
<1>3. LogGood /\ Writing
  BY <1>1, <1>2, LogBefore DEF EraseBegun
<1>4. LogGood'
  BY <1>1, <1>3, LogStays
<1>5. /\ writeAddr \in Slots /\ writeAddr \in Nat /\ addr = writeAddr
      /\ \A b \in Slots : b < writeAddr => flash[b] # {}
      /\ \A w \in Words : w >= writeAddr =>
           flash[w] = IF w < writeAddr + EntryWords THEN data ELSE {}
      /\ data # {} /\ wrote /\ magic = "B"
  <2>1. Programmed = EntryWords
    BY <1>1, <1>3, Sizes DEF Programmed, Writing
  <2>2. Programmed # 0
    BY <2>1, Sizes
  <2>. QED  BY <1>1, <1>3, <2>1, <2>2, SlotsApart DEF Writing, FreeSlot
<1>6. ASSUME Room'
      PROVE  FreeSlot(writeAddr)' /\ flash[writeAddr + EntryWords] = {}
  <2>1. writeAddr + EntryWords + EntryWords <= LogEnd
    BY <1>1, <1>5, <1>6 DEF Room
  <2>2. writeAddr + EntryWords \in Slots
    BY <1>5, <2>1, SlotsApart
  <2>3. flash[writeAddr + EntryWords] = {}
    <3>1. writeAddr + EntryWords \in Words /\ writeAddr + EntryWords >= writeAddr
          /\ ~(writeAddr + EntryWords < writeAddr + EntryWords)
      BY <1>5, <2>2, SlotsApart, Sizes
    <3>. QED  BY <1>5, <3>1
  <2>4. ASSUME NEW b \in Slots, b < writeAddr + EntryWords
        PROVE  flash[b] # {}
    <3>1. b \in Words /\ b \in Nat
      BY SlotsApart
    <3>2. b < writeAddr \/ b >= writeAddr
      BY <1>5, <3>1
    <3>. QED  BY <1>5, <2>4, <3>1, <3>2
  <2>. QED  BY <1>1, <1>5, <2>2, <2>3, <2>4 DEF FreeSlot
<1>7. Waiting'
  BY <1>1, <1>5, <1>6 DEF Waiting
<1>. QED
  BY <1>4, <1>7

\* The whole log has been erased.
LEMMA ErasedLog ==
  ASSUME TypeInv, LogInv, EraseDone
  PROVE  LogInv'
<1>1. /\ op = "erase" /\ step = "lock" /\ op' = "tell" /\ flash' = flash
      /\ writeAddr' = Scan(flash) /\ magic' = "A"
      /\ flash = Blank => LogErased
      /\ flash # Blank => spoiled' = spoiled
  BY DEF EraseDone, Locks, Tells, FreshLog
<1>2. CASE flash = Blank
  <2>1. logged' = {} /\ runs' = 0 /\ wrote' = FALSE
    BY <1>1, <1>2 DEF LogErased
  <2>2. flash' = Blank'
    BY <1>1, <1>2 DEF Blank
  <2>3. (flash = Blank /\ logged = {} /\ runs = 0)'
    BY <2>1, <2>2
  <2>4. LogGood'
    BY <2>3, BlankGood, PTL
  <2>5. (writeAddr = Scan(flash) /\ magic = "A" /\ wrote = FALSE)'
    BY <1>1, <2>1 DEF Scan
  <2>6. Waiting'
    BY <2>5, ScanWaits, PTL
  <2>. QED  BY <1>1, <2>4, <2>6 DEF LogInv, EraseBegun
<1>3. CASE flash # Blank
  <2>1. ASSUME spoiled = "no"
        PROVE  FALSE
    <3>1. Erasing
      BY <1>1, <2>1, LogBefore DEF EraseBegun
    <3>2. ASSUME NEW w \in Words
          PROVE  w \div SectorWords < Sectors
      <4>1. PICK q \in Nat, r \in 0 .. SectorWords - 1 :
              w = SectorWords * q + r /\ w \div SectorWords = q
        BY Sizes, Division DEF Words
      <4>2. w < SectorWords * Sectors
        BY Sizes DEF Words, LogEnd
      <4>3. q >= Sectors => SectorWords * q >= SectorWords * Sectors
        BY Sizes
      <4>4. SectorWords * q \in Nat /\ SectorWords * Sectors \in Nat
        BY Sizes
      <4>5. q < Sectors
        BY <4>1, <4>2, <4>3, <4>4, Sizes
      <4>. QED  BY <4>1, <4>5
    <3>3. \A w \in Words : \/ w \div SectorWords < k
                           \/ w \div SectorWords = k
      <4>1. k = Sectors - 1
        BY <1>1, <3>1 DEF Erasing
      <4>2. \A w \in Words : w \div SectorWords \in Nat
        BY Sizes, Division DEF Words
      <4>. QED  BY <3>2, <4>1, <4>2, Sizes
    <3>4. \A w \in Words : flash[w] = {}
      BY <1>1, <3>1, <3>3 DEF Erasing
    <3>5. flash = [w \in Words |-> flash[w]]
      BY DEF TypeInv, TypeOK
    <3>6. flash = Blank
      BY <3>4, <3>5 DEF Blank
    <3>. QED  BY <1>3, <3>6
  <2>. QED  BY <1>1, <1>3, <2>1 DEF LogInv
<1>. QED
  BY <1>2, <1>3

LEMMA LockLog ==
  ASSUME TypeInv, LogInv,
         \/ LogWritten \/ LogLoad \/ SaveErased \/ SaveDone
         \/ WriteFailed \/ ClearDone \/ EraseFailed
  PROVE  LogInv'
<1>0. SUFFICES ASSUME spoiled = "no" PROVE LogInv'
  BY DEF LogWritten, LogLoad, SaveErased, SaveDone, WriteFailed, ClearDone,
         EraseFailed, history, LogInv
<1>1. UNCHANGED <<flash, writeAddr, magic, begun, logged, wrote, runs, spoiled>>
  BY DEF LogWritten, LogLoad, SaveErased, SaveDone, WriteFailed, ClearDone,
         EraseFailed, Locks, ram, log, history
<1>2. CASE LogWritten \/ LogLoad
  <2>1. /\ op = "log" /\ op' = "log" /\ UNCHANGED <<k, data>>
        /\ step \in {"lock", "load"} /\ step' \in {"load", "store"}
        /\ addr' \in {addr, writeAddr} /\ Programmed' = Programmed
    BY <1>2 DEF LogWritten, LogLoad, Goes, Programmed
  <2>2. LogGood /\ Writing
    BY <1>0, <2>1, LogBefore DEF EraseBegun
  <2>3. addr = writeAddr /\ k = EntryWords - 1
    BY <2>1, <2>2 DEF Writing
  <2>4. LogGood' /\ Writing'
    BY <1>1, <2>1, <2>2, <2>3, LogStays, WriteStays
  <2>. QED  BY <2>1, <2>4 DEF LogInv, EraseBegun
<1>3. CASE SaveErased \/ SaveDone \/ ClearDone
  BY <1>1, <1>3, StillWaiting DEF SaveErased, SaveDone, ClearDone, Idle, EraseBegun
<1>4. CASE WriteFailed
  <2>1. op = "save"
    BY <1>0, <1>4, LogBefore DEF WriteFailed, Writing
  <2>. QED  BY <1>1, <1>4, <2>1, StillWaiting DEF WriteFailed, Idle, EraseBegun
<1>5. CASE EraseFailed
  BY <1>0, <1>5, LogBefore DEF EraseFailed, EraseBegun, Erasing
<1>. QED
  BY <1>2, <1>3, <1>4, <1>5

-----------------------------------------------------------------------------
(* The log through commands and power cuts. *)

\* A command that does not spoil the log comes before the controller is
\* unlocked, or after it is locked again, or between two entries.
LEMMA MainStays ==
  ASSUME LogInv, UNCHANGED main,
         UNCHANGED <<flash, writeAddr, magic, begun, logged, wrote, runs>>,
         spoiled' = "no" =>
           /\ spoiled = "no"
           /\ crLock \/ crLock' = crLock \/ op \notin {"log", "erase"}
  PROVE  LogInv'
<1>1. SUFFICES ASSUME spoiled = "no",
                      crLock \/ crLock' = crLock \/ op \notin {"log", "erase"}
               PROVE  LogInv'
  BY DEF LogInv
<1>2. UNCHANGED <<op, step, k, addr, data>> /\ (EraseBegun' <=> EraseBegun)
      /\ Programmed' = Programmed
  BY DEF main, EraseBegun, Programmed
<1>3. CASE EraseBegun
  <2>1. Erasing
    BY <1>1, <1>3, LogBefore
  <2>2. Erasing'
    BY <1>1, <1>2, <1>3, <2>1 DEF Erasing, EraseBegun
  <2>. QED  BY <1>2, <1>3, <2>2 DEF LogInv
<1>4. CASE ~EraseBegun
  <2>1. LogGood'
    BY <1>1, <1>4, LogBefore, LogStays
  <2>2. op = "log" => Writing'
    <3>1. ASSUME op = "log"
          PROVE  Writing'
      <4>1. Writing
        BY <1>1, <3>1, LogBefore
      <4>2. step \in {"call", "busy", "held", "lock"} => ~crLock'
        BY <1>1, <3>1, <4>1 DEF Writing
      <4>. QED  BY <1>2, <4>1, <4>2 DEF Writing, FreeSlot
    <3>. QED  BY <3>1
  <2>3. op \notin {"log", "stuck"} => Waiting'
    BY <1>1, <1>4, LogBefore, WaitStays
  <2>. QED  BY <1>2, <1>4, <2>1, <2>2, <2>3 DEF LogInv
<1>. QED
  BY <1>3, <1>4

\* A command that never returns comes before the erase or after it.
LEMMA StuckLog ==
  ASSUME TypeInv, LogInv, Stick, uart # "ready",
         UNCHANGED <<flash, begun, logged, runs>>,
         spoiled' = "no" => spoiled = "no"
  PROVE  LogInv'
<1>1. SUFFICES ASSUME spoiled = "no"
               PROVE  LogGood'
  BY DEF LogInv, EraseBegun, Stick
<1>2. ~EraseBegun
  BY DEF EraseBegun, TypeInv, WorkInv
<1>. QED
  BY <1>1, <1>2, LogBefore, LogStays

LEMMA CommandLog ==
  ASSUME TypeInv, LogInv, Command
  PROVE  LogInv'
<1>1. CASE CliSave
  <2>1. /\ Replies /\ Disturbs("save")
        /\ UNCHANGED <<flash, ram, uart, begun, logged, wrote, runs>>
    BY <1>1 DEF CliSave
  <2>2. spoiled' = "no" => spoiled = "no" /\ (crLock \/ op \notin {"log", "erase"})
    BY <2>1 DEF Disturbs
  <2>. QED  BY <2>1, <2>2, MainStays, StuckLog DEF Replies, ram, log
<1>2. CASE CliErase /\ InHal
  <2>1. /\ UNCHANGED <<flash, log, begun, logged, wrote, runs, main>>
        /\ Disturbs("erase")
    BY <1>2 DEF CliErase
  <2>2. spoiled' = "no" => spoiled = "no" /\ (crLock \/ op \notin {"log", "erase"})
    BY <2>1 DEF Disturbs
  <2>. QED  BY <2>1, <2>2, MainStays DEF log
<1>3. CASE CliErase /\ ~InHal
  <2>1. /\ flash' = Blank /\ writeAddr' = Scan(flash') /\ magic' = "A"
        /\ op' = op /\ step' = step
        /\ op \in {"log", "erase"} => spoiled' = "erase"
        /\ op \notin {"log", "erase"} => LogErased
    BY <1>3 DEF CliErase, FreshLog, main
  <2>2. SUFFICES ASSUME op \notin {"log", "erase"}
                 PROVE  LogGood' /\ Waiting'
    BY <2>1 DEF LogInv, EraseBegun
  <2>3. logged' = {} /\ runs' = 0 /\ wrote' = FALSE
    BY <2>1, <2>2 DEF LogErased
  <2>4. (flash = Blank /\ logged = {} /\ runs = 0)'
    BY <2>1, <2>3 DEF Blank
  <2>5. (writeAddr = Scan(flash) /\ magic = "A" /\ wrote = FALSE)'
    BY <2>1, <2>3 DEF Scan
  <2>6. LogGood'
    BY <2>4, BlankGood, PTL
  <2>7. Waiting'
    BY <2>5, ScanWaits, PTL
  <2>. QED  BY <2>6, <2>7
<1>4. CASE CliEraseStuck
  BY <1>4, StuckLog DEF CliEraseStuck, history
<1>5. CASE CliRset \/ CliDcan
  <2>1. /\ UNCHANGED <<flash, crLock, log, uart, history>> /\ Replies
    BY <1>5 DEF CliRset, CliDcan
  <2>. QED  BY <2>1, MainStays, StuckLog DEF Replies, log, history
<1>. QED
  BY <1>1, <1>2, <1>3, <1>4, <1>5 DEF Command

\* The next boot scans the log.
LEMMA BootLog ==
  ASSUME BootRam(flash'), wrote' = FALSE,
         spoiled' = "no" => LogGood'
  PROVE  LogInv'
<1>1. op' = "boot"
  BY DEF BootRam
<1>2. (writeAddr = Scan(flash) /\ magic = "A" /\ wrote = FALSE)'
  BY DEF BootRam, FreshLog, Scan
<1>3. Waiting'
  BY <1>2, ScanWaits, PTL
<1>. QED
  BY <1>1, <1>3 DEF LogInv, EraseBegun

LEMMA CutLog ==
  ASSUME TypeInv, LogInv, PowerCut
  PROVE  LogInv'
<1>1. ASSUME Lost, spoiled' = "no"
      PROVE  spoiled = "no" /\ ~EraseBegun
  BY <1>1 DEF Lost, EraseBegun
<1>2. CASE Cut \/ CutInCliSave
  <2>1. /\ Lost /\ BootRam(flash') /\ UNCHANGED <<flash, begun, logged, runs>>
        /\ wrote' = FALSE
    BY <1>2 DEF Cut, CutInCliSave, Lost
  <2>2. spoiled' = "no" => LogGood'
    BY <1>1, <2>1, LogBefore, LogStays
  <2>. QED  BY <2>1, <2>2, BootLog
<1>3. CASE CutInCliErase
  <2>1. BootRam(flash') /\ wrote' = FALSE /\ spoiled' = "erase"
    BY <1>3 DEF CutInCliErase
  <2>. QED  BY <2>1, BootLog
<1>4. CASE CutOperating
  <2>1. Lost /\ BootRam(flash') /\ wrote' = FALSE /\ begun' = begun /\ step = "busy"
    BY <1>4 DEF CutOperating, Lost
  <2>2. ASSUME spoiled' = "no"
        PROVE  LogGood'
    <3>1. spoiled = "no" /\ ~EraseBegun
      BY <1>1, <2>1, <2>2
    <3>2. LogGood /\ (op = "log" => Writing)
      BY <3>1, LogBefore
    <3>3. CASE op = "log"
      <4>1. LogAfter(data) = [flash EXCEPT ![writeAddr + k] = data]
            /\ LogAfter({Junk}) = [flash EXCEPT ![writeAddr + k] = {Junk}]
        BY <2>1, <3>2, <3>3, Programs
      <4>2. CASE /\ flash' = LogAfter(data)
                 /\ logged' = IF op = "log" /\ k = EntryWords - 1
                              THEN logged \cup data ELSE logged
                 /\ runs' = IF op = "log" /\ k = 0 /\ ~wrote THEN runs + 1 ELSE runs
        BY <2>1, <3>2, <3>3, <4>1, <4>2, WordGood
      <4>3. CASE flash' = LogAfter({Junk}) /\ UNCHANGED <<logged, runs>>
        <5>1. {Junk} # data
          <6>1. Junk \notin Entries
            BY DEF Junk, Entries
          <6>. QED  BY <3>3, <6>1 DEF TypeInv, WorkInv
        <5>. QED  BY <2>1, <3>2, <3>3, <4>1, <4>3, <5>1, WordGood
      <4>. QED  BY <1>4, <4>2, <4>3 DEF CutOperating
    <3>4. CASE op # "log"
      <4>1. UNCHANGED <<flash, logged, runs>>
        BY <1>4, <2>1, <3>1, <3>4 DEF CutOperating, LogAfter, EraseBegun
      <4>. QED  BY <2>1, <3>2, <4>1, LogStays
    <3>. QED  BY <3>3, <3>4
  <2>. QED  BY <2>1, <2>2, BootLog
<1>. QED
  BY <1>2, <1>3, <1>4 DEF PowerCut

LEMMA LogNext == TypeInv /\ LogInv /\ [Next]_vars => LogInv'
<1>1. ASSUME LogInv, DmaDone
      PROVE  LogInv'
  BY <1>1, MainStays DEF DmaDone, ram, log, history
<1>2. ASSUME LogInv, UNCHANGED vars
      PROVE  LogInv'
  BY <1>2, MainStays DEF vars, ram, log, history
<1>. QED
  BY <1>1, <1>2, StartLog, ConsoleLog, WorkLog, OperateLog, StoreLog, ErasedLog,
     LockLog, CommandLog, CutLog
     DEF Next, MainStep

LEMMA LogAlways == Spec => []LogInv
  BY TypeInit, TypeNext, LogInit, LogNext, PTL DEF Spec

-----------------------------------------------------------------------------
(* What a reader of the log finds. *)

LEMMA SoundLog == LogInv /\ Sound => LogGood
  BY DEF LogInv, Sound, EraseBegun

\* A slot that reads as an entry has the words of one entry, and junk.
LEMMA ReadableSlot ==
  ASSUME LogGood, NEW a \in Slots, Readable(flash, a)
  PROVE  \E x \in Entries : flash[a] = {x}
<1>1. \A m : Magics({}) # {m}
  BY DEF Magics
<1>2. Magics({Junk}) = {"none"}
  BY DEF Magics, Junk
<1>. QED
  BY <1>1, <1>2 DEF LogGood, SlotsUsed, Readable

\* The slots in use come before the first free one.
LEMMA UsedScanned ==
  ASSUME LogGood, NEW a \in Slots, flash[a] # {}
  PROVE  a < Scan(flash)
<1>1. SUFFICES ASSUME Scan(flash) <= a PROVE FALSE
  BY ScanStops, SlotsApart, Sizes
<1>2. a \in Words /\ a + EntryWords <= LogEnd /\ a \in Nat
  BY SlotsApart
<1>3. Scan(flash) # LogEnd
  BY <1>1, <1>2, Sizes
<1>4. Scan(flash) \in Slots /\ flash[Scan(flash)] = {}
  BY <1>3, ScanStops
<1>. QED
  BY <1>1, <1>2, <1>4 DEF LogGood, SlotsUsed

\* No slot that reads as an entry mixes two (FlashLog_Write programs only free
\* words, and the scan at boot steps over a torn slot), for any size of the
\* log and of an entry.
THEOREM NoMixedEntries == Spec => []EntriesGenuine
<1>1. ASSUME LogInv
      PROVE  EntriesGenuine
  <2>1. SUFFICES ASSUME Sound, NEW a \in Slots, Readable(flash, a)
                 PROVE  Cardinality(Held(flash, a) \ {Junk}) = 1
    BY DEF EntriesGenuine
  <2>2. LogGood
    BY <1>1, <2>1, SoundLog
  <2>3. PICK x \in Entries : flash[a] = {x}
    BY <2>1, <2>2, ReadableSlot
  <2>4. \A i \in 0 .. EntryWords - 1 : flash[a + i] \subseteq {x, Junk}
    BY <2>2, <2>3 DEF LogGood, SlotsUsed
  <2>5. 0 \in 0 .. EntryWords - 1 /\ a + 0 = a
    BY SlotsApart, Sizes
  <2>6. x # Junk
    BY DEF Junk, Entries
  <2>7. Held(flash, a) \ {Junk} = {x}
    BY <2>3, <2>4, <2>5, <2>6 DEF Held
  <2>. QED  BY <2>7, FS_Singleton
<1>. QED
  BY LogAlways, <1>1, PTL

\* No boot, power cut or erase of the settings loses, hides or reorders an
\* entry that FlashLog_Write has finished.
THEOREM LogKept == Spec => []LogComplete
<1>1. ASSUME LogInv
      PROVE  LogComplete
  <2> DEFINE whole == {a \in Slots : Readable(flash, a) /\ Whole(flash, a)}
  <2>1. SUFFICES ASSUME Sound
                 PROVE  /\ UNION {flash[a] : a \in whole} = logged
                        /\ \A a \in whole : a < Scan(flash)
                        /\ \A a, b \in whole : a < b =>
                             \A x \in flash[a], y \in flash[b] : x.id < y.id
    BY DEF LogComplete
  <2>2. LogGood
    BY <1>1, <2>1, SoundLog
  <2>3. \A a \in whole : \E x \in Entries : flash[a] = {x}
    BY <2>2, ReadableSlot
  <2>4. ASSUME NEW x \in Complete(flash)
        PROVE  \E a \in whole : flash[a] = {x}
    <3>1. PICK a \in Slots : \A i \in 0 .. EntryWords - 1 : flash[a + i] = {x}
      BY DEF Complete
    <3>2. flash[a] = {x}
      <4>1. a + 0 = a /\ 0 \in 0 .. EntryWords - 1
        BY SlotsApart, Sizes
      <4>. QED  BY <3>1, <4>1
    <3>3. Readable(flash, a)
      <4>1. x.magic \in {"A", "B"}
        BY DEF Complete, Entries
      <4>2. Magics({x}) = {x.magic}
        BY DEF Magics
      <4>. QED  BY <3>2, <4>1, <4>2 DEF Readable
    <3>4. Whole(flash, a)
      BY <3>1, <3>2, FS_Singleton DEF Whole
    <3>. QED  BY <3>2, <3>3, <3>4
  <2>5. ASSUME NEW a \in whole, NEW x \in flash[a]
        PROVE  x \in Complete(flash)
    <3>1. flash[a] = {x} /\ x \in Entries
      BY <2>3, <2>5
    <3>. QED  BY <3>1 DEF Whole, Complete
  <2>6. UNION {flash[a] : a \in whole} = Complete(flash)
    BY <2>4, <2>5
  <2>7. \A a \in whole : a < Scan(flash)
    BY <2>2, <2>3, UsedScanned
  <2>8. \A a, b \in whole : a < b =>
          \A x \in flash[a], y \in flash[b] : x.id < y.id
    BY <2>2, <2>3 DEF LogGood, IdsGrow
  <2>. QED  BY <2>2, <2>6, <2>7, <2>8 DEF LogGood, LogHistory
<1>. QED
  BY LogAlways, <1>1, PTL

\* CLI COUNT (FlashLog_CountSequences) is the number of sessions that logged
\* something, whatever was cut short.
THEOREM SessionsCounted == Spec => []SequencesCounted
<1>1. ASSUME LogInv
      PROVE  SequencesCounted
  <2>1. SUFFICES ASSUME Sound PROVE CountSequences(flash) = runs
    BY DEF SequencesCounted
  <2>2. LogGood
    BY <1>1, <2>1, SoundLog
  <2>3. Magics({}) # {"A"}
    BY DEF Magics
  <2>4. {a \in Slots : a < Scan(flash) /\ Magics(flash[a]) = {"A"}} = Firsts(flash)
    BY <2>2, <2>3, UsedScanned DEF Firsts
  <2>. QED  BY <2>2, <2>4 DEF CountSequences, LogGood, LogHistory
<1>. QED
  BY LogAlways, <1>1, PTL

-----------------------------------------------------------------------------
(* Saved settings. *)

Page == 1 .. SettingWords

\* The word that an undisturbed save is at has been programmed.
AtWord == step \in {"held", "lock"}

\* What an undisturbed save has made of the page: nothing certain until the
\* erase has been done, then a prefix of what it saves.
Progress ==
  /\ step \in {"unlock", "call", "busy", "held", "lock"}
  /\ step # "unlock" => ~crLock
  /\ k \in 0 .. SettingWords
  /\ step = "lock" => k \in {0, SettingWords}
  /\ k > 0 \/ AtWord =>
       \A w \in Page : blob[w] = IF w < k \/ (w = k /\ AtWord) THEN data ELSE {}

\* saved is forgotten when a save or clear begins, so only a save that no
\* command has crossed can set it again, and that one has the whole page.
SaveInv ==
  /\ SavedKept
  /\ blob = [w \in Page |-> blob[w]]
  /\ op \in {"save", "clear"} => saved = {}
  /\ op = "save" /\ ~crossed => Progress

LEMMA PageSize == SettingWords \in Nat /\ SettingWords > 0
  BY FlashAssumption

LEMMA SaveInit == Init => SaveInv
  BY DEF Init, SaveInv, SavedKept, Page

\* A step that leaves the page and what is saved alone, outside a save and
\* a clear.
LEMMA OtherWork ==
  ASSUME SaveInv, blob' = blob, saved' = saved, op' \notin {"save", "clear"}
  PROVE  SaveInv'
  BY DEF SaveInv, SavedKept, Page

\* A step of whatever the main loop is doing, which leaves them alone too.
LEMMA SameWork ==
  ASSUME SaveInv, blob' = blob, saved' = saved, op' = op, crossed' = crossed,
         op = "save" /\ ~crossed => Progress'
  PROVE  SaveInv'
  BY DEF SaveInv, SavedKept, Page

-----------------------------------------------------------------------------
(* The main loop, one lemma for each group of its actions. *)

LEMMA StartKeeps ==
  ASSUME SaveInv,
         \/ LogWrite \/ LogFull
         \/ KeySave \/ KeyClear \/ KeyErase \/ KeyLog \/ Trace
  PROVE  SaveInv'
<1>1. CASE LogWrite \/ KeyErase
  BY <1>1, OtherWork DEF LogWrite, KeyErase, Starts, history
<1>2. CASE KeySave
  BY <1>2, PageSize
     DEF KeySave, Starts, SaveInv, SavedKept, Progress, AtWord, Page
<1>3. CASE KeyClear
  BY <1>3 DEF KeyClear, Starts, SaveInv, SavedKept, Page
<1>4. CASE LogFull \/ KeyLog \/ Trace
  BY <1>4, OtherWork DEF LogFull, KeyLog, Trace, main, history
<1>. QED
  BY <1>1, <1>2, <1>3, <1>4

LEMMA ConsoleKeeps ==
  ASSUME SaveInv, Say \/ Said \/ BootSettings
  PROVE  SaveInv'
<1>1. CASE Say
  BY <1>1, SameWork DEF Say, history, SaveInv, Progress
<1>2. CASE Said
  BY <1>2, OtherWork DEF Said, Goes, Idle, history
<1>3. CASE BootSettings
  BY <1>3, OtherWork DEF BootSettings, Idle, history
<1>. QED
  BY <1>1, <1>2, <1>3

LEMMA UnlockKeeps ==
  ASSUME SaveInv, Unlock \/ Call
  PROVE  SaveInv'
<1>1. blob' = blob /\ saved' = saved /\ op' = op /\ crossed' = crossed
  BY DEF Unlock, Call, Goes, history
<1>2. ASSUME op = "save", ~crossed
      PROVE  Progress'
  <2>1. Progress
    BY <1>2 DEF SaveInv
  <2>. QED
    BY <2>1 DEF Unlock, Call, Goes, Progress, AtWord, Page
<1>. QED
  BY <1>1, <1>2, SameWork

\* The one step that changes the page from the main loop.
LEMMA OperateKeeps ==
  ASSUME SaveInv, Operate
  PROVE  SaveInv'
<1>1. /\ step = "busy" /\ step' = "held" /\ blob' = BlobAfter
      /\ UNCHANGED <<crLock, op, k, data, saved, crossed>>
  BY DEF Operate, Goes
<1>2. CASE op \notin {"save", "clear"}
  BY <1>1, <1>2, OtherWork DEF BlobAfter
<1>3. CASE op = "clear"
  BY <1>1, <1>3 DEF BlobAfter, SaveInv, SavedKept, Page
<1>4. CASE op = "save"
  <2>1. /\ saved = {} /\ blob = [w \in Page |-> blob[w]]
        /\ ~crossed => Progress
    BY <1>4 DEF SaveInv
  <2>2. blob' = [w \in Page |-> blob'[w]]
    <3>1. CASE k = 0
      BY <1>1, <1>4, <3>1 DEF BlobAfter, Page
    <3>2. CASE k # 0 /\ k > 0
      <4>1. blob' = [blob EXCEPT ![k] = @ \cup data]
        BY <1>1, <1>4, <3>2 DEF BlobAfter
      <4>2. blob' = [[w \in Page |-> blob[w]] EXCEPT ![k] = @ \cup data]
        BY <2>1, <4>1
      <4>. QED
        BY <4>2
    <3>3. CASE k # 0 /\ ~(k > 0)
      BY <1>1, <1>4, <2>1, <3>3 DEF BlobAfter
    <3>. QED
      BY <3>1, <3>2, <3>3
  <2>3. ASSUME ~crossed
        PROVE  Progress'
    <3>1. Progress
      BY <2>1, <2>3
    <3>2. CASE k = 0
      BY <1>1, <1>4, <3>1, <3>2, PageSize DEF BlobAfter, Progress, AtWord, Page
    <3>3. CASE k > 0
      <4>1. \A w \in Page :
              blob'[w] = IF w = k THEN blob[w] \cup data ELSE blob[w]
        BY <1>1, <1>4, <2>1, <3>3 DEF BlobAfter
      <4>. QED
        BY <1>1, <3>1, <3>3, <4>1, PageSize DEF Progress, AtWord, Page
    <3>. QED
      BY <3>1, <3>2, <3>3, PageSize DEF Progress
  <2>. QED
    BY <1>1, <1>4, <2>1, <2>2, <2>3 DEF SaveInv, SavedKept
<1>. QED
  BY <1>2, <1>3, <1>4

\* Only a command locks the controller under the main loop: an undisturbed
\* save is not refused.
LEMMA RefusedKeeps ==
  ASSUME SaveInv, Refused
  PROVE  SaveInv'
<1>1. blob' = blob /\ saved' = saved /\ op' = op /\ crossed' = crossed
  BY DEF Refused, Goes, history
<1>2. op = "save" => crossed
  BY DEF SaveInv, Progress, Refused
<1>. QED
  BY <1>1, <1>2, SameWork

LEMMA LeaveKeeps ==
  ASSUME SaveInv, Leave
  PROVE  SaveInv'
<1>1. blob' = blob /\ saved' = saved /\ op' = op /\ crossed' = crossed
  BY DEF Leave, history
<1>2. ASSUME op = "save", ~crossed
      PROVE  Progress'
  <2>1. Progress
    BY <1>2 DEF SaveInv
  <2>2. CASE step' = "lock" /\ k' = k
    BY <1>2, <2>1, <2>2 DEF Leave, LastCall, Progress, AtWord, Page
  <2>3. CASE step' = "call" /\ k' = k + 1
    BY <1>2, <2>1, <2>3, PageSize DEF Leave, LastCall, Progress, AtWord, Page
  <2>. QED
    BY <2>1, <2>2, <2>3 DEF Leave, Progress
<1>. QED
  BY <1>1, <1>2, SameWork

LEMMA LockKeeps ==
  ASSUME SaveInv,
         \/ LogWritten \/ LogLoad \/ LogStore \/ SaveErased \/ SaveDone
         \/ WriteFailed \/ ClearDone \/ EraseDone \/ EraseFailed
  PROVE  SaveInv'
<1>1. CASE LogWritten \/ LogLoad \/ LogStore \/ WriteFailed
  BY <1>1, OtherWork
     DEF LogWritten, LogLoad, LogStore, WriteFailed, Locks, Goes, Idle, history
<1>2. CASE ClearDone \/ EraseDone \/ EraseFailed
  BY <1>2, OtherWork
     DEF ClearDone, EraseDone, EraseFailed, Locks, Tells, Idle, history
<1>3. CASE SaveErased
  <2>1. /\ blob' = blob /\ saved' = saved /\ op' = op /\ crossed' = crossed
        /\ op = "save" /\ step = "lock" /\ k = 0 /\ step' = "unlock" /\ k' = 1
        /\ data' = data
    BY <1>3 DEF SaveErased, Locks, history
  <2>2. ~crossed => Progress'
    BY <2>1, PageSize DEF SaveInv, Progress, AtWord, Page
  <2>. QED
    BY <2>1, <2>2, SameWork
<1>4. CASE SaveDone
  <2>1. /\ op = "save" /\ step = "lock" /\ k > 0 /\ blob' = blob /\ op' = "idle"
        /\ saved' = IF crossed THEN {} ELSE data
    BY <1>4 DEF SaveDone, Locks, Idle
  <2>2. ~crossed => \A w \in Page : blob[w] = data
    BY <2>1, PageSize DEF SaveInv, Progress, AtWord, Page
  <2>. QED
    BY <2>1, <2>2 DEF SaveInv, SavedKept, Page
<1>. QED
  BY <1>1, <1>2, <1>3, <1>4

-----------------------------------------------------------------------------
(* Commands and power cuts. *)

LEMMA CommandKeeps ==
  ASSUME SaveInv, Command
  PROVE  SaveInv'
<1>1. CASE CliSave
  <2>1. op' \in {op, "stuck"}
    BY <1>1 DEF CliSave, Replies, Stick, main
  <2>2. crossed' = (crossed \/ op \in {"save", "clear"})
    BY <1>1 DEF CliSave, Disturbs
  <2>3. op' = "save" => crossed'
    BY <2>1, <2>2
  <2>4. CASE InHal
    BY <1>1, <2>1, <2>3, <2>4 DEF CliSave, SaveInv, SavedKept, Page
  <2>5. CASE ~InHal
    BY <1>1, <2>1, <2>3, <2>5 DEF CliSave, SaveInv, SavedKept, Page
  <2>. QED
    BY <2>4, <2>5
<1>2. CASE CliErase
  <2>1. blob' = blob /\ saved' = saved /\ op' = op
    BY <1>2 DEF CliErase, main
  <2>2. op = "save" => crossed'
    BY <1>2 DEF CliErase, Disturbs
  <2>. QED
    BY <2>1, <2>2 DEF SaveInv, SavedKept, Page
<1>3. CASE CliEraseStuck
  BY <1>3, OtherWork DEF CliEraseStuck, Stick, history
<1>4. CASE CliRset \/ CliDcan
  <2>1. /\ blob' = blob /\ saved' = saved /\ crossed' = crossed
        /\ crLock' = crLock
        /\ UNCHANGED main \/ op' = "stuck"
    BY <1>4 DEF CliRset, CliDcan, Replies, Stick, history
  <2>2. CASE op' = "stuck"
    BY <2>1, <2>2, OtherWork
  <2>3. CASE UNCHANGED main
    <3>1. SaveInv /\ Progress => Progress'
      BY <2>1, <2>3 DEF main, Progress, AtWord, Page
    <3>. QED
      BY <2>1, <2>3, <3>1, SameWork DEF main, SaveInv
  <2>. QED
    BY <2>1, <2>2, <2>3
<1>. QED
  BY <1>1, <1>2, <1>3, <1>4 DEF Command

LEMMA DmaKeeps ==
  ASSUME SaveInv, DmaDone
  PROVE  SaveInv'
  BY SameWork DEF DmaDone, main, history, SaveInv, Progress, AtWord, Page

\* A power cut inside a save or a clear finds nothing reported as saved; at
\* any other place it leaves the page alone.
LEMMA CutKeeps ==
  ASSUME SaveInv, PowerCut
  PROVE  SaveInv'
<1>1. CASE Cut
  BY <1>1, OtherWork DEF Cut, BootRam
<1>2. CASE CutInCliErase
  BY <1>2, OtherWork DEF CutInCliErase, BootRam
<1>3. CASE CutInCliSave
  BY <1>3 DEF CutInCliSave, BootRam, Lost, SaveInv, SavedKept, Page
<1>4. CASE CutOperating
  <2>1. op' = "boot" /\ saved' = saved
    BY <1>4 DEF CutOperating, BootRam
  <2>2. blob' = BlobAfter \/ blob' = blob
    BY <1>4 DEF CutOperating
  <2>3. CASE op \in {"save", "clear"}
    BY <2>1, <2>2, <2>3 DEF SaveInv, SavedKept, BlobAfter, Page
  <2>4. CASE op \notin {"save", "clear"}
    BY <2>1, <2>2, <2>4, OtherWork DEF BlobAfter
  <2>. QED
    BY <2>3, <2>4
<1>. QED
  BY <1>1, <1>2, <1>3, <1>4 DEF PowerCut

LEMMA StutterKeeps ==
  ASSUME SaveInv, UNCHANGED vars
  PROVE  SaveInv'
  BY SameWork DEF vars, main, history, SaveInv, Progress, AtWord, Page

LEMMA SaveNext == SaveInv /\ [Next]_vars => SaveInv'
  BY StartKeeps, ConsoleKeeps, UnlockKeeps, OperateKeeps, RefusedKeeps,
     LeaveKeeps, LockKeeps, CommandKeeps, DmaKeeps, CutKeeps, StutterKeeps
     DEF Next, MainStep

\* Settings reported as saved are in the page until another save or clear
\* begins (SettingsStore_Save, SettingsNvm_Write), for any flash layout.
THEOREM SavedSettingsKept == Spec => []SavedKept
<1>1. SaveInv => SavedKept
  BY DEF SaveInv
<1>. QED
  BY SaveInit, SaveNext, <1>1, PTL DEF Spec

-----------------------------------------------------------------------------
(* The UART, and what hangs on it. *)

\* Who the UART is busy for, unless a command hangs: a line of the trace, which
\* is on, or a message of the main loop.
UartInv ==
  Running => /\ uart = "dma" => debug
             /\ uart = "main" <=> step = "uart"

LEMMA UartMain == TypeInv /\ UartInv /\ MainStep => UartInv'
<1> SUFFICES ASSUME TypeInv, UartInv, MainStep PROVE UartInv'
  OBVIOUS
<1>0. op = "idle" => step = "call"
  BY DEF TypeInv, WorkInv
<1>1. CASE LogWrite \/ KeySave \/ KeyClear \/ KeyErase
  BY <1>0, <1>1 DEF UartInv, Running, LogWrite, KeySave, KeyClear, KeyErase, Starts, ram
<1>2. CASE LogFull
  BY <1>2 DEF UartInv, Running, LogFull, main
<1>3. CASE KeyLog
  <2>1. UNCHANGED <<uart, debug, op, step>>
    BY <1>3 DEF KeyLog, main
  <2>. QED
    BY <2>1 DEF UartInv, Running
<1>4. CASE Trace
  BY <1>4 DEF UartInv, Running, Trace, ram, main
<1>5. CASE Say \/ Said \/ BootSettings
  BY <1>5 DEF UartInv, Running, Say, Said, BootSettings, Goes, Idle, ram
<1>6. CASE Unlock \/ Call \/ Operate \/ Refused \/ Leave
  BY <1>6 DEF UartInv, Running, Unlock, Call, Operate, Refused, Leave, Goes, ram
<1>7. CASE LogWritten \/ LogLoad \/ LogStore \/ SaveErased \/ SaveDone
  BY <1>7 DEF UartInv, Running, LogWritten, LogLoad, LogStore, SaveErased,
              SaveDone, Locks, Goes, Idle, ram
<1>8. CASE WriteFailed \/ ClearDone \/ EraseDone \/ EraseFailed
  BY <1>8 DEF UartInv, Running, WriteFailed, ClearDone, EraseDone, EraseFailed,
              Locks, Idle, Tells
<1>. QED
  BY <1>1, <1>2, <1>3, <1>4, <1>5, <1>6, <1>7, <1>8 DEF MainStep

LEMMA UartNext == TypeInv /\ UartInv /\ [Next]_vars => UartInv'
<1>1. UartInv /\ Command => UartInv'
  BY DEF UartInv, Running, Command, CliSave, CliErase, CliEraseStuck, CliRset,
         CliDcan, Replies, Stick, ram, main
<1>2. UartInv /\ DmaDone => UartInv'
  BY DEF UartInv, Running, DmaDone, ram, main
<1>3. PowerCut => UartInv'
  BY DEF UartInv, Running, PowerCut, Cut, CutOperating, CutInCliErase,
         CutInCliSave, BootRam
<1>4. UartInv /\ UNCHANGED vars => UartInv'
  BY DEF UartInv, Running, vars, ram, main
<1>. QED
  BY UartMain, <1>1, <1>2, <1>3, <1>4 DEF Next

\* A command hangs the board (HAL_UART_Transmit from the UART interrupt) only
\* while a line of the trace is going out and the trace is on, or while the main
\* loop is transmitting its own message, at boot and around an erase by key.
THEOREM HangsExplained ==
  Spec => [][op # "stuck" /\ op' = "stuck"
               => (uart = "dma" /\ debug) \/ (uart = "main" /\ step = "uart")]_vars
<1>1. Init => UartInv
  BY DEF Init, UartInv, Running
<1>2. MainStep /\ op # "stuck" => op' # "stuck"
  BY DEF MainStep, LogWrite, LogFull, KeySave, KeyClear, KeyErase, KeyLog, Trace,
         Starts, Say, Said, BootSettings, Unlock, Call, Operate, Refused, Leave,
         LogWritten, LogLoad, LogStore, SaveErased, SaveDone, WriteFailed, ClearDone,
         EraseDone, EraseFailed, Goes, Idle, Tells, main
<1>3. DmaDone \/ PowerCut => op' # "stuck" \/ op = "stuck"
  BY DEF DmaDone, PowerCut, Cut, CutOperating, CutInCliErase, CutInCliSave,
         BootRam, main
<1>4. Command /\ op # "stuck" /\ op' = "stuck" => uart # "ready"
  BY DEF Command, CliSave, CliErase, CliEraseStuck, CliRset, CliDcan, Replies, main
<1>5. TypeOK => uart \in {"ready", "dma", "main"}
  BY DEF TypeOK
<1>6. ASSUME TypeInv, UartInv, Next, op # "stuck", op' = "stuck"
      PROVE  (uart = "dma" /\ debug) \/ (uart = "main" /\ step = "uart")
  <2>1. Command
    BY <1>2, <1>3, <1>6 DEF Next
  <2>2. uart # "ready" /\ uart \in {"ready", "dma", "main"}
    BY <1>4, <1>5, <1>6, <2>1 DEF TypeInv
  <2>3. /\ uart = "dma" => debug
        /\ uart = "main" => step = "uart"
    BY <1>6 DEF UartInv, Running
  <2>. QED
    BY <2>2, <2>3
<1>7. TypeInv /\ UartInv /\ [Next]_vars
        => (op # "stuck" /\ op' = "stuck"
              => (uart = "dma" /\ debug) \/ (uart = "main" /\ step = "uart"))
           \/ UNCHANGED vars
  BY <1>6
<1>. QED
  BY <1>1, <1>7, TypeInit, TypeNext, UartNext, PTL DEF Spec

=============================================================================
