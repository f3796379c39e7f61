------------------------------ MODULE FlashLog ------------------------------
(***************************************************************************)
(* The flash memory of the board and the two parts that write it: the CAN  *)
(* log (Core/Src/flash_writer.c) and the settings page                     *)
(* (settings_store.c, settings_nvm_stm32.c).  They share one flash         *)
(* controller, and each is used from two places: the main loop (frames     *)
(* logged, the keys of the flash screen) and the command line, which runs  *)
(* inside the UART interrupt and may come between any two steps of the     *)
(* main loop.  The power may be cut at any time.                           *)
(*                                                                         *)
(* Programming a flash word only clears bits, so a word is the set of what *)
(* has been programmed into it since the last erase: {} is 0xFFFFFFFF, and *)
(* two members are the AND of the two.  The controller is external: while  *)
(* it is locked a program fails, and an erase does nothing, whatever it    *)
(* reports.  A power cut leaves a sector erased or not erased, and a word  *)
(* programmed, not programmed or torn.                                     *)
(*                                                                         *)
(* A command that finds the UART transmitting never returns: its reply     *)
(* waits, inside the interrupt, for what it has interrupted.  Only a power *)
(* cut ends that.                                                          *)
(***************************************************************************)
EXTENDS Naturals, FiniteSetsExt

CONSTANTS
  Sectors,      \* sectors of the log area
  SectorWords,  \* words of a sector
  EntryWords,   \* FLASH_LOG_ENTRY_SIZE in words
  SettingWords, \* words of a SettingsBlob
  Settings,     \* values of the settings: the GbtRuntime and log_enabled
  NoLog,        \* those with log_enabled = false
  Default,      \* g_runtime_defaults, and log_enabled as it is at boot
  MaxWrites     \* bound: entries begun since the log was last erased

ASSUME FlashAssumption ==
  /\ {Sectors, SectorWords, EntryWords, SettingWords, MaxWrites}
       \subseteq Nat \ {0}
  /\ NoLog \subseteq Settings /\ Default \in Settings \ NoLog

LogEnd == Sectors * SectorWords
Words  == 0 .. LogEnd - 1
Slots  == {a \in Words : a % EntryWords = 0 /\ a + EntryWords <= LogEnd}

Entries  == [id : 1 .. MaxWrites, magic : {"A", "B"}]
Junk     == [id |-> 0, magic |-> "none"]
Blank    == [w \in Words |-> {}]

VARIABLES
  flash,     \* the log area
  blob,      \* the settings page
  crLock,    \* FLASH_CR_LOCK
  writeAddr, \* flash_log_write_addr
  magic,     \* current_flash_log_magic
  rxStarted, \* flash_log_rx_started
  cfg,       \* the settings in RAM, flash_log_enabled with them
  debug,     \* debug_can_enabled
  uart,      \* what the UART is transmitting for: nothing, DMA, the main loop
  op, step,  \* what the main loop does with the flash, and how far it is
  k,         \* word or sector it is at
  addr,      \* addr; the value loaded by the += after an entry
  data,      \* {what it programs}
  \* history:
  begun,     \* entries begun since the log was erased
  logged,    \* entries whose last word was programmed
  wrote, runs, \* this session has an entry; sessions that have one
  saved,     \* {settings reported as saved}
  spoiled,   \* what disturbed the log since it was erased
  crossed    \* a command disturbed the save or clear in progress

log     == <<writeAddr, magic, rxStarted>>
main    == <<op, step, k, addr, data>>
history == <<begun, logged, wrote, runs, saved, spoiled, crossed>>
ram     == <<log, cfg, debug>>
vars    == <<flash, blob, crLock, ram, uart, main, history>>

InHal == step \in {"busy", "held", "failed"}

TypeOK ==
  /\ flash \in [Words -> SUBSET (Entries \cup {Junk})]
  /\ blob \in [1 .. SettingWords -> SUBSET Settings]
  /\ crLock \in BOOLEAN /\ writeAddr \in 0 .. LogEnd /\ magic \in {"A", "B"}
  /\ rxStarted \in BOOLEAN /\ cfg \in Settings
  /\ debug \in BOOLEAN /\ uart \in {"ready", "dma", "main"}
  /\ op \in {"boot", "idle", "tell", "log", "save", "clear", "erase",
             "stuck"}
  /\ step \in {"stuck", "say", "uart", "unlock", "call", "busy", "held",
               "failed", "lock", "abort", "load", "store"}
  /\ k \in 0 .. EntryWords + Sectors + SettingWords /\ addr \in 0 .. LogEnd
  /\ data \subseteq Entries \cup Settings
  /\ begun \in 0 .. MaxWrites /\ logged \subseteq Entries
  /\ wrote \in BOOLEAN /\ runs \in 0 .. MaxWrites
  /\ saved \subseteq Settings /\ crossed \in BOOLEAN
  /\ spoiled \in {"no", "save", "erase"}

-----------------------------------------------------------------------------
(* Reading the log. *)

\* Variant with a fault: a slot is free if its last word is
Scan_LastWord(f) ==
  Min({a \in Slots : f[a + EntryWords - 1] = {}} \cup {LogEnd})

Scan(f) == Min({a \in Slots : f[a] = {}} \cup {LogEnd})

Magics(word) == {e.magic : e \in word}

CountSequences(f) ==
  Cardinality({a \in Slots : a < Scan(f) /\ Magics(f[a]) = {"A"}})

Readable(f, a) == Magics(f[a]) \in {{"A"}, {"B"}}

Held(f, a) == UNION {f[a + i] : i \in 0 .. EntryWords - 1}

Whole(f, a) == \A i \in 0 .. EntryWords - 1 :
                 f[a + i] = f[a] /\ Cardinality(f[a]) = 1

\* Variant with a fault: the magic is not set back
FreshLog_KeepMagic(f) ==
  writeAddr' = Scan(f) /\ rxStarted' = FALSE /\ UNCHANGED magic

FreshLog(f) == writeAddr' = Scan(f) /\ magic' = "A" /\ rxStarted' = FALSE

LogErased == /\ begun' = 0 /\ logged' = {} /\ runs' = 0 /\ spoiled' = "no"
             /\ wrote' = FALSE

-----------------------------------------------------------------------------
(* The flash memory after the operation the main loop has started. *)

\* Variant with a fault: one sector too far
EraseSector_Next(f, s) ==
  [w \in Words |-> IF w \div SectorWords = s + 1 THEN {} ELSE f[w]]

EraseSector(f, s) ==
  [w \in Words |-> IF w \div SectorWords = s THEN {} ELSE f[w]]

Erases == op \in {"clear", "erase"} \/ (op = "save" /\ k = 0)

LogAfter(word) ==
  CASE op = "log"   -> [flash EXCEPT ![addr + k] = @ \cup word]
    [] op = "erase" -> EraseSector(flash, k)
    [] OTHER        -> flash

\* Variant with a fault: the last sector of the log is taken to be sector 11
BlobAfter_LogSector ==
  CASE \/ op = "clear" \/ (op = "save" /\ k = 0)
       \/ (op = "erase" /\ k = Sectors - 1)
         -> [w \in 1 .. SettingWords |-> {}]
    [] op = "save" /\ k > 0 -> [blob EXCEPT ![k] = @ \cup data]
    [] OTHER -> blob

BlobAfter ==
  CASE op = "clear" \/ (op = "save" /\ k = 0)
         -> [w \in 1 .. SettingWords |-> {}]
    [] op = "save" /\ k > 0 -> [blob EXCEPT ![k] = @ \cup data]
    [] OTHER -> blob

\* what the history keeps of it
Recorded ==
  /\ logged' = IF op = "log" /\ k = EntryWords - 1 THEN logged \cup data
                                                   ELSE logged
  /\ LET first == op = "log" /\ k = 0 /\ ~wrote IN
     /\ wrote' = (wrote \/ first)
     /\ runs'  = IF first THEN runs + 1 ELSE runs

-----------------------------------------------------------------------------
(* Boot, and what the main loop starts. *)

BootRam(f) ==
  /\ FreshLog(f) /\ cfg' = Default /\ debug' = FALSE
  /\ crLock' = TRUE /\ uart' = "ready"
  /\ op' = "boot" /\ step' = "say" /\ k' = 0 /\ addr' = 0 /\ data' = {}

Init ==
  /\ flash = Blank /\ blob = [w \in 1 .. SettingWords |-> {}] /\ crLock = TRUE
  /\ writeAddr = 0 /\ magic = "A" /\ rxStarted = FALSE
  /\ cfg = Default /\ debug = FALSE
  /\ uart = "ready"
  /\ op = "boot" /\ step = "say" /\ k = 0 /\ addr = 0 /\ data = {}
  /\ begun = 0 /\ logged = {} /\ wrote = FALSE /\ runs = 0
  /\ saved = {} /\ spoiled = "no" /\ crossed = FALSE

Starts(o, s, d) == /\ op = "idle" /\ op' = o /\ step' = s /\ k' = 0 /\ data' = d
                   /\ UNCHANGED <<flash, blob, crLock, addr>>

\* Variant with a fault: off by one at the end of the log
Room_OffByOne == writeAddr <= LogEnd

Room == writeAddr + EntryWords <= LogEnd

LogWrite ==
  /\ cfg \notin NoLog /\ Room /\ begun < MaxWrites
  /\ \E tx \in BOOLEAN : rxStarted \/ ~tx
  /\ Starts("log", "unlock", {[id |-> begun + 1, magic |-> magic]})
  /\ rxStarted' = TRUE /\ magic' = "B" /\ begun' = begun + 1
  /\ UNCHANGED <<writeAddr, cfg, debug, uart, logged, wrote, runs,
                 saved, spoiled, crossed>>

\* a full log still notes that a frame was received
LogFull == /\ op = "idle" /\ cfg \notin NoLog /\ ~Room /\ rxStarted' = TRUE
           /\ UNCHANGED <<flash, blob, crLock, writeAddr, magic, cfg, debug,
                          uart, main, history>>

KeySave ==
  /\ Starts("save", "unlock", {cfg})
  /\ saved' = {} /\ crossed' = FALSE
  /\ UNCHANGED <<ram, uart, begun, logged, wrote, runs, spoiled>>

KeyClear ==
  /\ Starts("clear", "unlock", {})
  /\ saved' = {} /\ crossed' = FALSE
  /\ UNCHANGED <<ram, uart, begun, logged, wrote, runs, spoiled>>

KeyErase == Starts("erase", "say", {}) /\ UNCHANGED <<ram, uart, history>>

KeyLog == /\ op = "idle"
          /\ \E c \in Settings : (c \in NoLog) # (cfg \in NoLog) /\ cfg' = c
          /\ UNCHANGED <<flash, blob, crLock, log, debug, uart, main,
                         history>>

Trace == /\ op = "idle" /\ debug /\ uart = "ready" /\ uart' = "dma"
         /\ UNCHANGED <<flash, blob, crLock, ram, main, history>>

-----------------------------------------------------------------------------
(* The steps of the main loop. *)

Say == /\ step = "say" /\ uart = "ready"
       /\ step' = "uart" /\ uart' = "main"
       /\ UNCHANGED <<flash, blob, crLock, ram, op, k, addr, data, history>>

Goes(s) == step' = s /\ UNCHANGED <<op, k, addr, data>>

Idle == op' = "idle" /\ step' = "call" /\ k' = 0 /\ addr' = 0 /\ data' = {}

Said ==
  /\ step = "uart" /\ uart' = "ready"
  /\ \/ op = "erase" /\ Goes("unlock")
     \/ op = "boot" /\ Goes("load")
     \/ op = "tell" /\ Idle
  /\ UNCHANGED <<flash, blob, crLock, ram, history>>

BootSettings ==
  /\ op = "boot" /\ step = "load"
  /\ \/ \E c \in Settings : /\ \A w \in 1 .. SettingWords : blob[w] = {c}
                            /\ cfg' = c
     \/ /\ \A c \in Settings : \E w \in 1 .. SettingWords : blob[w] # {c}
        /\ UNCHANGED cfg
  /\ Idle
  /\ UNCHANGED <<flash, blob, crLock, log, debug, uart, history>>

Unlock ==
  /\ step = "unlock" /\ crLock' = FALSE
  /\ step' = "call" /\ addr' = (IF op = "log" THEN writeAddr ELSE addr)
  /\ UNCHANGED <<flash, blob, ram, uart, op, k, data, history>>

Call == /\ step = "call" /\ op # "idle" /\ Goes("busy")
        /\ UNCHANGED <<flash, blob, crLock, ram, uart, history>>

Operate ==
  /\ step = "busy" /\ ~crLock /\ Goes("held")
  /\ flash' = LogAfter(data) /\ blob' = BlobAfter /\ Recorded
  /\ UNCHANGED <<crLock, ram, uart, begun, saved, spoiled, crossed>>

Refused ==
  /\ step = "busy" /\ crLock
  /\ IF Erases THEN \E s \in {"held", "failed"} : Goes(s) ELSE Goes("failed")
  /\ UNCHANGED <<flash, blob, crLock, ram, uart, history>>

LastCall == \/ op = "log" /\ k = EntryWords - 1
            \/ op = "erase" /\ k = Sectors - 1
            \/ op = "clear"
            \/ op = "save" /\ k \in {0, SettingWords}

Leave ==
  /\ \/ step = "held" /\ ~LastCall /\ step' = "call" /\ k' = k + 1
     \/ step = "held" /\ LastCall /\ step' = "lock" /\ k' = k
     \/ step = "failed" /\ step' = "abort" /\ k' = k
  /\ UNCHANGED <<flash, blob, crLock, ram, uart, op, addr, data, history>>

-----------------------------------------------------------------------------
(* HAL_FLASH_Lock and what follows it. *)

Locks == crLock' = TRUE /\ UNCHANGED <<flash, blob, debug, uart>>

LogWritten == /\ op = "log" /\ step = "lock" /\ Locks /\ Goes("load")
              /\ UNCHANGED <<log, cfg, history>>

LogLoad == /\ op = "log" /\ step = "load"
           /\ addr' = writeAddr /\ step' = "store"
           /\ UNCHANGED <<flash, blob, crLock, ram, uart, op, k, data, history>>

LogStore == /\ op = "log" /\ step = "store"
            /\ writeAddr' = addr + EntryWords /\ Idle
            /\ UNCHANGED <<flash, blob, crLock, magic, rxStarted, cfg,
                           debug, uart, history>>

SaveErased == /\ op = "save" /\ step = "lock" /\ k = 0 /\ Locks
              /\ step' = "unlock" /\ k' = 1
              /\ UNCHANGED <<log, cfg, op, addr, data, history>>

SaveDone == /\ op = "save" /\ step = "lock" /\ k > 0 /\ Locks /\ Idle
            /\ saved' = (IF crossed THEN {} ELSE data)
            /\ UNCHANGED <<log, cfg, begun, logged, wrote, runs,
                           spoiled, crossed>>

WriteFailed == /\ op \in {"log", "save"} /\ step = "abort" /\ Locks /\ Idle
               /\ UNCHANGED <<log, cfg, history>>

ClearDone == /\ op = "clear" /\ step \in {"lock", "abort"} /\ Locks /\ Idle
             /\ cfg' = Default
             /\ UNCHANGED <<log, history>>

Tells == op' = "tell" /\ step' = "say" /\ UNCHANGED <<k, addr, data>>

EraseDone ==
  /\ op = "erase" /\ step = "lock" /\ Locks /\ Tells
  /\ FreshLog(flash)
  /\ IF flash = Blank THEN LogErased
     ELSE wrote' = FALSE /\ UNCHANGED <<begun, logged, runs, spoiled>>
  /\ UNCHANGED <<cfg, saved, crossed>>

EraseFailed == /\ op = "erase" /\ step = "abort" /\ Locks /\ Tells
               /\ UNCHANGED <<log, cfg, history>>

-----------------------------------------------------------------------------
(* The command line: each command is one interrupt.  A command that comes  *)
(* inside a HAL operation gets HAL_BUSY, and locks the controller all the  *)
(* same.                                                                   *)

Running == op # "stuck"

Stick == op' = "stuck" /\ step' = "stuck" /\ k' = 0 /\ addr' = 0 /\ data' = {}

Replies == IF uart = "ready" THEN UNCHANGED main ELSE Stick

Disturbs(what) ==
  /\ crossed' = (crossed \/ op \in {"save", "clear"})
  /\ spoiled' = IF op \in {"log", "erase"} /\ ~crLock /\ spoiled = "no"
                THEN what ELSE spoiled

CliSave ==
  /\ Running /\ crLock' = TRUE /\ Replies
  /\ IF InHal
     THEN UNCHANGED <<blob, saved>>
     ELSE /\ blob' = [w \in 1 .. SettingWords |-> {cfg}]
          /\ saved' = IF op \in {"save", "clear"} THEN {} ELSE {cfg}
  /\ Disturbs("save")
  /\ UNCHANGED <<flash, ram, uart, begun, logged, wrote, runs>>

CliErase ==
  /\ Running /\ uart = "ready" /\ crLock' = TRUE
  /\ IF InHal
     THEN /\ Disturbs("erase")
          /\ UNCHANGED <<flash, log, begun, logged, wrote, runs>>
     ELSE /\ flash' = Blank /\ FreshLog(flash')
          /\ IF op \in {"log", "erase"}
             THEN /\ spoiled' = "erase" /\ wrote' = FALSE
                  /\ UNCHANGED <<begun, logged, runs>>
             ELSE LogErased
          /\ crossed' = (crossed \/ op \in {"save", "clear"})
  /\ UNCHANGED <<blob, cfg, debug, uart, main, saved>>

CliEraseStuck ==
  /\ Running /\ uart # "ready" /\ Stick
  /\ UNCHANGED <<flash, blob, crLock, ram, uart, history>>

CliRset == /\ Running
           /\ \E c \in Settings : (c \in NoLog) = (cfg \in NoLog) /\ cfg' = c
           /\ Replies
           /\ UNCHANGED <<flash, blob, crLock, log, debug, uart, history>>

CliDcan == /\ Running /\ debug' = ~debug /\ Replies
           /\ UNCHANGED <<flash, blob, crLock, log, cfg, uart, history>>

DmaDone == /\ Running /\ uart = "dma" /\ uart' = "ready"
           /\ UNCHANGED <<flash, blob, crLock, ram, main, history>>

-----------------------------------------------------------------------------
(* The power cut, and the next boot.  It may come inside an operation of   *)
(* the main loop or of a command.                                          *)

Lost == /\ spoiled' = IF op = "erase" /\ step # "say" THEN "erase" ELSE spoiled
        /\ wrote' = FALSE /\ UNCHANGED <<begun, crossed>>

Cut == /\ BootRam(flash) /\ Lost
       /\ UNCHANGED <<flash, blob, logged, runs, saved>>

CutOperating ==
  /\ step = "busy" /\ ~crLock
  /\ \/ /\ flash' = LogAfter(data) /\ blob' = BlobAfter
        /\ logged' = IF op = "log" /\ k = EntryWords - 1 THEN logged \cup data
                                                         ELSE logged
        /\ runs' = IF op = "log" /\ k = 0 /\ ~wrote THEN runs + 1 ELSE runs
     \/ /\ op = "log" /\ flash' = LogAfter({Junk})
        /\ UNCHANGED <<blob, logged, runs>>
  /\ BootRam(flash') /\ Lost /\ UNCHANGED saved

CutInCliErase ==
  /\ Running /\ uart = "ready" /\ ~InHal
  /\ \E s \in 1 .. Sectors :
       flash' = [w \in Words |->
                   IF w \div SectorWords < s THEN {} ELSE flash[w]]
  /\ BootRam(flash') /\ spoiled' = "erase" /\ wrote' = FALSE
  /\ UNCHANGED <<blob, begun, logged, runs, saved, crossed>>

CutInCliSave ==
  /\ Running /\ ~InHal
  /\ \E n \in 0 .. SettingWords :
       blob' = [w \in 1 .. SettingWords |->
                  IF w <= n THEN {cfg} ELSE {}]
  /\ BootRam(flash) /\ Lost /\ saved' = {}
  /\ UNCHANGED <<flash, logged, runs>>

MainStep ==
  \/ LogWrite \/ LogFull
  \/ KeySave \/ KeyClear \/ KeyErase \/ KeyLog \/ Trace
  \/ Say \/ Said \/ BootSettings \/ Unlock \/ Call \/ Operate \/ Refused
  \/ Leave \/ LogWritten \/ LogLoad \/ LogStore \/ SaveErased \/ SaveDone
  \/ WriteFailed \/ ClearDone \/ EraseDone \/ EraseFailed

Command == CliSave \/ CliErase \/ CliEraseStuck \/ CliRset \/ CliDcan

PowerCut == Cut \/ CutOperating \/ CutInCliErase \/ CutInCliSave

Next == MainStep \/ Command \/ DmaDone \/ PowerCut

Spec == Init /\ [][Next]_vars

-----------------------------------------------------------------------------
(* Unless something that is known to do so has disturbed the log: a        *)
(* command between Unlock and Lock of the main loop, an ERASE inside a     *)
(* write, or an erase cut short.                                           *)
Sound == spoiled = "no" /\ op # "erase"

\* No slot that reads as an entry mixes two entries, through power cuts
\* between any two words and the scan at boot that must step over the torn
\* slot: FlashLog_Write never programs a word twice.
EntriesGenuine ==
  Sound => \A a \in Slots : Readable(flash, a) =>
                              Cardinality(Held(flash, a) \ {Junk}) = 1

\* The entries FlashLog_Write finished are those found whole before the first
\* free slot, in the order they were written: no boot, cut or erase of the
\* settings loses, hides or reorders one.
LogComplete ==
  Sound =>
    LET whole == {a \in Slots : Readable(flash, a) /\ Whole(flash, a)} IN
    /\ UNION {flash[a] : a \in whole} = logged
    /\ \A a \in whole : a < Scan(flash)
    /\ \A a, b \in whole : a < b =>
         \A x \in flash[a], y \in flash[b] : x.id < y.id

\* COUNT is the number of power-ons (and erases) after which something was
\* logged: the first entry of each has the magic 'LOGA' and no other has.
SequencesCounted == Sound => CountSequences(flash) = runs

\* Settings reported as saved are what the next boot loads, through power
\* cuts, logging, erasing the log and failed commands, until another save or
\* clear begins; unless a command came in the middle of that save.
SavedKept == saved # {} => \A w \in 1 .. SettingWords : blob[w] = saved

\* "saving/clearing settings never affects logging" (README.md:266): what
\* EntriesGenuine says, with commands that save settings allowed anywhere.
\* Refuted: a SAVE inside FlashLog_Write makes it stop in the middle of an
\* entry and write the next one into the same slot.
SavingSparesLog ==
  spoiled # "erase" /\ op # "erase" =>
    \A a \in Slots : Readable(flash, a) =>
                       Cardinality(Held(flash, a) \ {Junk}) = 1

\* A command is answered: "With no argument the device replies" and "While
\* enabled, every CAN frame is emitted as a CSV line" (CLI_RUNTIME.md:81, 90).
\* Refuted: a command that comes while a line of the trace goes out by DMA
\* waits for it in an interrupt that the end of the DMA cannot preempt.
TraceSparesCommands == op = "stuck" => uart # "dma"

=============================================================================
