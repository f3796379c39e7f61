# gbt-dc-receiver: verification of the BMS firmware in TLA+

The repository is the firmware of a small BMS that talks GB/T 27930 (CAN, J1939
framing) to a DC fast charger and makes it charge a battery: an STM32F405 build
(`Core/`) and a Linux build (`linux/`) of the same charge engine. This directory
models the parts of it that carry its logic, checks them with TLC, and proves
the most important facts with TLAPS for every value of the parameters.

Source paths below leave out `Core/Src/`. "the engine" is `gbt_27930_bms.c`.

## 1. Inventory

On the MCU there are one main loop, `while (1) { LoopCharge(); UI_Loop(); }`
(`main.c:121`), and three interrupts that run application code: CAN receive,
UART receive (a whole CLI command runs inside it) and the buttons. All of them
have the same priority, so they do not nest, but each may preempt the main loop
between any two instructions. On Linux there is one thread.

| Component | State | Operations | Interacts with |
|---|---|---|---|
| Charge engine (`gbt_27930_bms.c`) | `g_state`, `g_start_locked`, `g_cml_seen`, stop, BST and tail flags, `t_last_*`, `g_runtime` | `SetupCharge`, `LoopCharge`, `handle_rx_message`, `StopCharge`, `GbtManualStateNext`, `GbtRestoreDefaults`, `GbtSetRuntimeField` | pops the ring, sends over CAN; `g_runtime` is shared with CLI, display, settings |
| Transport sender (`tp_send_rts_cts`) | locals of one call | RTS, wait for CTS, data window, wait for EOM_ACK, abort | called from `LoopCharge`; pops the ring itself and hands frames to `handle_rx_message` |
| CAN receive ring (`can_buffer.c`) | slots, `RecvPos`, `SendPos` | `CanRingBufferPush` (interrupt), `CanRingBufferPop` (main loop) | CAN driver, engine |
| CAN driver (`can.c`) | mailboxes of the peripheral | `CanSendMsg`, receive callback | ring, flash log |
| Command line (`gbt_cli.c`, UART callback of `flash_writer.c`) | the line being typed | `RSET`, `RGET`, `RLIST`, `STATE`, `SAVE`, `DCAN`, `SEQ`, `COUNT`, `ERASE`, `INFO` | writes `g_runtime`, the log and the settings page from the interrupt |
| Display and buttons (`display_ui.c`) | screen, selection, pending confirmation, button queue | `UI_Loop`, key handlers, `UI_OnButtonInterrupt` | stop, manual step, parameter edit, save and clear |
| Flash log (`flash_writer.c`) | log sector, write address | `FlashLog_Write`, scan at boot, `FlashLog_EraseAll` | CAN callback and `CanSendMsg`, CLI, display |
| Settings (`settings_store.c`, `settings_nvm_*.c`) | one blob in flash or in a file | save, clear, init | display, `main` |
| Linux main loop, MQTT (`linux/main.c`, `mqtt_cli.c`) | connection, last published state | `MqttCli_Loop`, publish, command messages | engine, CLI, broker |
| Linux CAN back ends (`can_socketcan.c`, `can_socketcand.c`, `can_dispatch.c`) | socket, input buffer, reconnect time | init, pump, send, close | ring |
| Log decoders (`*.py`), CubeMX start-up code, vendor drivers | none of the program's own | | |

What is hard in this code, and what would make each part right (the lines are in
`PROJECT.json`, "hazards"):

- **engine**: frames of the charger, keys and CLI commands come in any order and
  at any point of a pass; `LoopCharge` uses one `now` for a pass that may last a
  quarter of a second; the state changes under a transport session. Right means:
  a locked or strict board is silent; BRO=0xAA is earned in its own session and
  not taken back; the host's permit and the operator's demand are theirs; a stop
  gets its BST out; no frame starves another.
- **transport sender**: windows that repeat or exceed the message, CTS(0) for
  ever, answers that come during the gap after a data frame, lost data frames.
  Right means: it always ends, reports success only for a message delivered, and
  delivers to a charger that follows the protocol.
- **ring**: an interrupt that writes while the main loop copies, and no test for
  a full ring. Right means: frames whole, in order, each once, or an overrun.
- **flash log, settings**: one flash controller used from the main loop and from
  commands in the interrupt; power cut between two words; a reply that waits for
  the UART. Right means: entries genuine, complete and in order, one sequence per
  session, and what was reported as saved is loaded at boot.
- **display**: a ring that the interrupt writes and, when it is full, also takes
  from; a flush that copies the tail with interrupts enabled; keys pressed while a
  save blocks the screen; a pending confirmation from another visit; a field read,
  changed and written back while the CLI writes it. Right means: presses are
  handled in order and at most once, nobody acts on a screen that he did not see,
  a popup ends, a save needs its second key.
- **Linux**: one thread that connecting and saving hold up; a parser buffer that is
  thrown away when full; connections that end, or vanish; a publish that fails
  after the state has been noted as published; a process killed between any two
  calls. Right means: frames whole and in order through reconnects, connections
  that come back, the last state known to the subscribers, settings all or nothing.
- **numbers**: fields have ranges and widths, frames have offsets and masks. Right
  means: no value a host, an operator or a charger sends leaves its field's width, and
  what a frame says is what the field holds.

## 2. Plan

Modules in the order of writing; those marked [done] exist.

1. `GbtBms` [done], the engine against an arbitrary charger, host and operator;
   `GbtBmsProofs` [done].
2. `RxQueue` [done], abstract specification of the ring, and `CanRing` [done],
   which implements it; `CanRingProofs` [done].
3. `TpSend` [done], the transport session against chargers arbitrary and orderly;
   `TpSendProofs` [done].
4. `FlashLog` [done], log and settings page in one flash, with commands in the
   interrupt and power cuts; `FlashLogProofs` [done].
5. `NvStore` [done], abstract specification of the settings store, and
   `SettingsFile` [done], the Linux back end, which implements it;
   `SettingsFileProofs` [done].
6. `ButtonQueue` [done], abstract specification of the button queue, and `DisplayUi`
   [done], queue, screens, popup and confirmation; `DisplayUiProofs` [done].
7. `Socketcand`, `MqttCli` [done], the two connections of the Linux program, and
   `LinuxHost` [done], which composes them with `SettingsFile` on one thread;
   `LinuxHostProofs` [done].
8. `GbtCodec` [done], the integers of fields, frames and identifiers;
   `GbtCodecProofs` [done], for all inputs.

Left: SEQ, which needs entries with time stamps.

## 3. Modules

### GbtBms: the charge engine

The state is that of the code: `state` (g_state), `locked` (g_start_locked),
`runtime` (the fields of g_runtime that control the engine), `cml`, `stopSeq`,
`bstSent`, `tailApplied`. `pc` is where the main loop is. A pass of `LoopCharge`
is cut exactly where something can come in between:

| `pc` | action | code |
|---|---|---|
| `Loop` | `EnterLocked`, `EnterUnlocked` | 637-648: the lock is tested |
| `Unlock` | `Unlock` (= `SetupCharge`) | 649-650 |
| `Drain` | `DrainRx`, `DrainDone` | 653-656: one frame per step |
| `Switch` | `SwitchWait` ... `SwitchEnd` | 658-727, one action per case |
| `TpBRM`, `TpBCP`, `TpBCS` | `TpRx`, `TpEnd` | inside `tp_send_rts_cts` |
| `Bro` | `Bro` | 684-687, after the BCP session of the same pass |
| `Ui` | `UiQuiet`, `StopChargeManual`, `GbtManualStateNext`, `GbtRestoreDefaults` | `UI_Loop`, one key at most |

`Rset` (a CLI command in the UART interrupt) and `Tick` may happen at any `pc`.
`HandleRx` is `handle_rx_message` with one operator per PGN.

*Time.* `age[X]` is `GetTS() - t_last_X`, saturating at `AgeCap`; `lag` is
`GetTS() - now`. So a period test sees `age - lag`, `t_last_X = now` makes the
age equal to `lag`, and a timestamp taken after `now` makes the unsigned
difference wrap: the frame is due. All three occur in the code, and the last one
matters (a CML handled during the BCP session). `t_last_X = 0` is "long ago": the
clock is assumed to have run for `AgeCap` ticks before the first `LoopCharge`.

*Data.* A CRM or CRO is confirmed (0xAA) or not; a CCS makes the tail condition
true or false; the demand is the operator's or the tail request. A transport
session is one transmission. `CanSendMsg` is the set `tx` of a step; that it may
drop a frame when no mailbox is free changes nothing in the engine, which does
not look at the result. The results of BRM, BCP and BCS are ignored as in the
code. `hist` is history: no action reads it.

*Not in the model:* `t_last_CCS_seen` (its timeout is commented out,
698-702), `last_crm_confirm` (never read), `SEND_BRO` (never assigned), the
debug switch of the trace, the layout of the frames.

### CanRing and RxQueue: the receive ring

A frame is the number of its reception; identifier, length and both halves of
the payload are separate copies in the code and separate components here. `Push`
is one step (it runs in the interrupt, which nothing preempts); `Pop` is the
test, three copies and the advance, and a Push may come between any two. Short
frames leave the second half of the slot as it was. `RxQueue` is what the engine
may rely on: a queue of whole frames in order, sure to hold `Size - 1`. The frame
that is one more makes the positions equal: "empty" to the next Pop, which loses
them all, or, when a Pop has passed its test already, a queue of `Size` frames.
Yet another one hits the slot being read; `broken` records it and nothing is
promised afterwards. On Linux `CanRxPump` pushes at the first line of Pop only,
so its behaviours are a subset.

### TpSend: the transport session

`tp_send_rts_cts` step by step: `Cts` and `Eom` are the two waits with their
1 ms sleeps, `Send` the window, `Gap` and `Poll` the `DelayMs` and the poll after
a data frame. Three kinds of charger: `any` sends any frame at any moment while
the clock runs at any pace; `early` and `late` follow the protocol (grant
windows, ask again for what is missing, acknowledge the whole), `early` answers
within `MaxAnswer`, `late` not before `Late` either. A data frame may be lost.
`packets_sent` is a `uint8_t`; the longest message has 7 packets, and a window is
sent only while packets are missing, so it does not wrap. History: `dts` is the set of
the packets sent in the session, `lost` how many of its data frames were lost.

### FlashLog: log, settings and command line on one flash controller

A flash word is the *set* of what was programmed into it since its erase, so an
entry programmed over another is visible; `Scan`, `CountSequences` and `Readable`
read such words as the code does. `op` is what the main loop is doing (an entry, a
save, a clear, an erase), `step` how far: `unlock`, then for each word or sector
`call`, `busy` (inside the HAL, before the operation), `held` or `failed` (inside,
after it), then `lock`, and the load and store of `+=`. A command runs between any
two of these: inside the HAL it gets HAL_BUSY, and it locks the controller in any
case. `uart` is who is transmitting; a command that finds it busy never returns
(`stuck`). `Cut` and its variants lose the RAM, possibly in the middle of an
operation of the main loop or of a command.

`spoiled`, `crossed` and the other history variables record what a property may
not claim any more: a command that came between Unlock and Lock of the main
loop, an ERASE during an entry, an erase cut short. A clean erase ends it.

*Not in the model:* SEQ and the time stamps it compares, hardware errors of the
flash, the fields of an entry, `settings_valid` (nobody reads it). A locked
controller refuses a program and ignores an erase, which then may report either
result; a word that a cut interrupts is programmed, not programmed or torn, and a
page whose words are not all of one blob fails its CRC. The copy of `g_runtime`
in a save is one step, though an RSET may come in the middle of it: the
fields are independent.

### DisplayUi and ButtonQueue: screens and buttons

`pc` cuts `UI_Loop` where an interrupt can come in: `Pop` (one step, interrupts are
off), `Handle` (the handler of the screen, one operator per handler), `Job` (the
save or clear that blocks the loop), `FlushLoad` and `FlushStore` (`head = tail`
in two steps, interrupts are on), `Timers` (dismissal and the automatic switch
between main and connect). `Press` may come at any of them. `ui_notif_active` is
`screen = "notif"`. `connecting` is free in every pass, as it depends on the charger.

`ButtonQueue` says what the handlers may rely on: presses come in order and at most
once, a full queue loses its oldest, and a flush loses all of them, or, if the queue
overflows in the middle of it, some of the newest only: `UI_FlushButtonEvents` has
read the tail that the interrupt then moves, and the older presses stay.

`effect` is what a key did outside of the display; `GbtBms` and `FlashLog` model
the other side of these calls. History: `banner` says that the last key was the first
`#` on the settings screen.

*Not in the model:* debouncing (any sequence of presses comes), drawing, the values
of the fields (`ApplyDelta` of `GbtCodec` says what an edit does to one), and that
the flash controller stalls the processor during a save on the MCU: presses then
come later, which is one of the interleavings here.

### SettingsFile and NvStore: the settings on Linux

`Fopen`, `Fwrite`, `Fclose`, `Rename`: each may fail, and `Kill` comes between any
two. `Fwrite` may leave the bytes in the stream's buffer. `NvStore` is a page that is
always a whole blob; a write replaces it or not and reports which. A machine that
loses its power is left out: the code has no `fsync`, so nothing is promised then.
`SettingsNvm_Erase` of this file has no caller on Linux.

### Socketcand, MqttCli and LinuxHost: the Linux program

`LinuxHost` has the `pc` of the single thread: `CanInit`, `Load` (once), then `Loop`,
`Pump`, `Drain` (`LoopCharge`'s pump), `Engine`, `Redial`, `Read`, `Save`
(`MqttCli_Loop`), `Publish`. Connecting to socketcand happens inside `Pump` (or
`CanInit`), writing the settings inside of a command; both hold up everything else.
The charge engine here is any sequence of states, one of which transmits in every
pass; `GbtBms` is its model.

`Socketcand` sees the stream as *pieces*, the one that begins with `<` and the one
that ends with `>`, cut into chunks anywhere. `Feed` empties the buffer when a chunk
does not fit and drops the chunk too; `Taken` and `Kept` are `sc_take_message`.
Connecting is two answers, each within `ReplyTicks` (an `< error >`, silence, or a
closed connection end it), tried again every `RetryTicks`. `server` and `peer` say
what the client can notice of the other side: it answers, refuses, closes, or
vanishes without a word. Frames that were received but not parsed when the other end
closes are lost, as the pump leaves at once.

`MqttCli`: `MqttCli_Publish` looks at nothing but `is_connected`, so a state may be
noted as published into a connection that is dead (`alive`), or before the answer of the
broker. The messages are retained. libmosquitto is external: its socket functions ignore
SIGPIPE, a write to a reset connection fails and disconnects, a loss is noticed at
the next read.

Every disturbance from outside is taken from `budget`, so that each behaviour has
finitely many, in any order and at any step; `Budgets` is a set of mixes.

*Not in the model:* options of the command line, the hexadecimal fields of a
message, the cut of an MQTT payload of 512 bytes and more, topics other than the
state's.

### GbtCodec: the integers

Pure operators, no run: all that there is to say of them is proved for all inputs.
`Stored` is `GbtSetRuntimeField`, `ApplyDelta` an edit on the display, `ReadCcs` what
CCS leaves in the pack fields, `BCL`, `BCS`, `BSM` the payloads as the integers that are
put together from bytes, `ApplyTail` the tail request, `MakeId` and `DecodePgn` the
identifiers. `int16_t` casts are `ToI16`. This is the arithmetic that `GbtBms`
abstracts: a CCS there makes the tail condition true or false at will.

## 4. Runs

| Run | Distinct states | What it shows |
|---|---|---|
| `bms_safety` | 1 650 000 | safety of the engine, below |
| `bms_live` | 771 000 | its liveness, below |
| `can_ring` | 13 000 | `FramesWhole`, `ImplementsRxQueue`, `AllDelivered` |
| `tp_send` | 748 000 | `UnsentPaidByLoss`, `SuccessIsReal`, `TpTerminates`, `Delivers` |
| `flash_log` | 990 000 | `EntriesGenuine`, `LogComplete`, `SequencesCounted`, `SavedKept` |
| `display_ui` | 339 000 | `ImplementsButtonQueue`, `PopupEnds` |
| `linux_host` | 200 000 | `StreamFaithful`, `ConnectedRaw`, `ImplementsNvStore`, `StateHeard`, `Reestablished` |
| `bro_withdrawn`, `bro_without_cml`, `save_spoils_log`, `trace_hangs`, `second_sharp` | few | five disagreements between code and documentation |

**bms_safety**: the board boots locked, in strict mode; any frames come; two
commands or keys come anywhere. `BootLockSilent`: nothing is sent before
`LOCK_BEFORE_START` has read 0. `StrictSilence`: nothing is sent before a CHM,
unless host or operator opened the bus. `BroReleaseEarned`: BRO=0xAA has a CML of
this session behind it, and the whole delay or a confirmation of this session
(the flash may hold `BRO_CONFIRM` 1: `Boot` sets it). `BroSteady`: repeated CMLs
do not take a released BRO back. `PermitHostOwned`: nothing the charger sends
changes `PERMIT_CHARGE`. `TailOnce`: the tail request does not override the
operator a second time.

**bms_live**: `StopSendsBst`, `BstRepeats` (until CST), `ChargingStreams` (BCL,
BSM and BCS all go on, though BCS may last several periods of BCL),
`DelayReleases` (the timed release comes even if CML is repeated for ever),
`LockReleases`.

**tp_send**: `UnsentPaidByLoss`: `packets_sent` counts data frames, so a window that
is asked for again makes the sender believe that packets have been sent which have
not, and it goes on to wait for the EOM_ACK with some of them unsent. The property
bounds the damage: at most `window` packets for each data frame that was lost, so
none without a loss. The bound is met (two packets, after one loss, with windows of
two). `SuccessIsReal`: the sender does not report success then; the charger must have
all packets. `Delivers` has a hypothesis, and it is needed: all frames that
arrive in the poll after a data frame, CTS and EOM_ACK among them, are given to
`handle_rx_message`, which drops them. A charger whose window is smaller than
the message and which answers within that gap never gets it. The property says
what is left: one window for all of it, or an answer after the gap.

**flash_log**: `EntriesGenuine`: no slot mixes two entries, torn ones included.
`LogComplete`: the finished entries are the whole slots before the first free one,
in order. `SequencesCounted`: COUNT is the number of sessions that logged.
`SavedKept`: what was reported as saved is in the page until another save or
clear begins.

**display_ui**: `ImplementsButtonQueue`: the ring refines the abstract queue.
`PopupEnds`: the popup goes away whatever is pressed.

**linux_host**: `StreamFaithful`: what is pushed to the ring are whole frames, in the
order of the bus, each at most once, the frames on their way are later than those, and
every frame of the bus was pushed or is on its way, unless the buffer overflowed or a
connection ended. `ConnectedRaw`: a connection counts as up only after the server has
answered both requests on it, so no answer is counted twice or for another connection.
`ImplementsNvStore`: a save is all or nothing and reports the
truth. `StateHeard`: if program and broker stay up and the state settles, the
retained state becomes that state for good. `Reestablished`: if program and server
stay up, the stream is connected in the end. Its premise has a reason: there is no
keep-alive, so a server whose machine lost its power is noticed only when the engine
sends something; a board that waits for CHM waits for ever.

**Findings** (violation runs, each with one property that quotes the text):
- `bro_withdrawn`: a CRO or CST handled inside the BCP session leaves SEND_BCP, but
  the BRO of the same pass still goes out, and as 0x00 after an 0xAA.
- `bro_without_cml`: the manual step from END back to WAIT_CHM keeps `g_cml_seen`;
  the next handshake sends BRO before its CML.
- `save_spoils_log`: SAVE over the command line locks the flash under
  `FlashLog_Write`, which leaves a torn slot for the next entry to be mixed into.
- `trace_hangs`: with the trace on, a command replies from the interrupt and waits
  for a DMA whose end has the same priority: the board hangs until a power cut.
- `second_sharp`: the keys of the CONNECT BATTERY screen go to the handler of the
  settings menu, without its banner: two `#` there, or one after a confirmation left
  pending, save or erase the settings.

Also seen, without a run:
- `LoopCharge` and `SetupCharge` both read `LOCK_BEFORE_START` (`gbt_27930_bms.c:645`,
  `:597`); an RSET in between locks the engine and the rest of the pass transmits.
  `BootLockSilent` does not cover this: the flag has read 0 by then.
- README.md:213: button events are queued, "so no presses are lost while the main loop is
  busy (e.g. during flash erase/write)", and `display_ui.c:32`, "no presses lost while main
  loop blocks". A save or clear of the settings ends in
  `UI_ShowNotification`, which empties the queue (`display_ui.c:392`, "drop
  queued/bouncing button events"): the presses made while it ran are lost, and those
  that were queued before it. No property takes either side; `ButtonQueue` has the flush
  as an operation of its own.
- `CLI_RUNTIME.md:153` has `GbtRestoreDefaults` release the lock; the default is 1, so
  it arms it.
- `CLI_RUNTIME.md:254` says that the echo of RSET "reflects the clamped result"; the
  code echoes the number as typed (`gbt_cli.c:44`). On Linux a `long` has 64 bits and is
  cut to 32 before the clamp (`gbt_cli.c:43`), so a number beyond 32 bits wraps.
- README.md:201: "browse and edit all runtime fields" on the parameter screen;
  `UI_ApplyDelta` writes the tail fields, the BRO modes and the flags back as they
  are. README.md:281: `*` there
  "returns to the main screen"; it goes on to the settings screen (`display_ui.c:755`).

**Bounds.** Engine: small ages and lags are enough because only the order of
age, `lag`, the periods (1 and 2) and the delays (0 and 2) matters: an age
beyond period plus lag behaves like any larger one (`BoundAssumption`). The coarse
clock (one tick for 250 ms, `MaxLag` 1, `AgeCap` 3) makes BCP twice as long as BRO, so
that both fall due in one pass; the fine clock (`bms_live`, `MaxLag` 2, `AgeCap` 4) tells
BCL from the slower frames, and a pass that sends BCS may last two periods of BCL. Frames
are not bounded. Two commands are enough to arm and disarm the lock, to set a
mode and confirm it, or to step and then write a field; the proofs below have no
such bound. `bms_live` has one command, so the race of the two reads of the lock is not
in it. Ring: three slots make every distance of the positions occur, seven
frames go round twice with an overrun in between. Transport: four packets and orderly chargers
that grant two of them or all, so a window asked for again can stand for a whole
one that is never sent; other chargers grant CTS(0) or two packets from 0, 2 or beyond
the message; two waiting frames, two lost data frames. `MaxAnswer + Gap < CtsTimeout` because the last sleep of a wait may
eat one gap of it. The code's overall limit of 200 ms is 14 ticks, nearly three CTS waits.
Flash: two sectors, three slots of two words, the middle one in both sectors (as
131072 is no multiple of 24); four entries begun, so that the log fills up with
and without torn slots; three settings, one of them with the log off. `Followed`
(`MCFlashLog`) stops behaviours early: a disturbed log after its first entry, a crossed
save or the trace before it, a full log with other settings than at boot.
Cuts, commands and keys are not bounded.
Display: a ring of three bytes overflows with the third press, also in a flush; up,
`#` and `*` reach every screen; one row above the stop row, a menu with one row that
needs confirmation and one that does not; `Grace` 1 and `Timeout` 2 ticks tell the
three phases of a popup apart. Presses are not bounded. Linux: a buffer of three
pieces is one message and a half, so a chunk may overflow it; five mixes of
disturbances (`MCLinuxHost`), each for one property: frames through a restart of
the server; restarts of server and program; a machine that vanishes with an engine
that changes; a broker that stops, drops and is late; an operator with calls that fail
and a process that is killed.

No run switches off the deadlock check.

**Fairness.** `WF(MainLoop)`, respectively `WF` of Pop and of the sender: the main
loop never blocks, as every loop in it ends by a timeout or by the ring running
empty, and interrupts are short. `WF(Tick)`: the clock is a hardware timer. Frames
of the charger, commands and keys have no fairness. That `LoopCharge` gets out of
the drain loop and of a transport session is thus assumed in `GbtBms`;
`TpTerminates` justifies it for the session, and a bus slower than the processor
for the drain. In `tp_send` an orderly charger must answer by `MaxAnswer`; `any` owes
nothing. Display: `WF(UI_Loop)` and `WF(Tick)`, nothing of the operator. Linux:
`WF(Program)`, as every call of it returns (connecting has deadlines, sockets do not
block); `WF(Tick)`; and a socketcand that runs answers what it owes. Nobody has to
restart a server or the program: the properties assume in their premises that they
stay up.

**Mutants.** Next to an action there may be variants of it "with a fault", named
`<Action>_<Fault>`: plausible bugs, one for each property, under which TLC finds
the property violated. No specification uses them.

## 5. Proofs

`tlapm` checks all of these, for all constants that satisfy the ASSUMEs.

`GbtBmsProofs` (assumption: `ConstantsAssumption`)
- `TypesHold`: `TypeOK`, one lemma per group of actions.
- `BootLockHolds`: `BootLockSilent` says nothing of where the program is; `LockInv`
  adds that while the lock has not been released the engine is locked, the flag
  is still set and the main loop is at `Loop` or `Ui`, where nothing is sent.
- `StrictSilenceHolds`: `SilenceInv` adds that while nothing has opened the bus the
  engine is in WAIT_CHM (or in END by a CST), no stop is pending, `wait` is set, and
  the main loop is in no transport session and not at the BRO.
- `BroReleaseHolds`: `BroInv` ties the flags to the history: `cml` holds if and only
  if a CML came in this session, the BRO phase is then as old as that CML, and
  `confirm` implies a confirmation in it. `BroViewKept` disposes of all actions that
  leave these variables alone.
- `BroStaysReleased`: `BroInv` also holds that after an 0xAA the release condition is
  met, and it stays met while fields and state do.
- `PermitStays`, `TailStaysOnce`: action properties straight from the actions.

`CanRingProofs` (assumption: `RingAssumption`; ring sizes from 2 up)
- `RingTypes`; `FramesStayWhole` with `WholeInv` (`SlotWhole`: every slot holds one
  frame; `CopyInv`: what Pop has copied so far agrees with the slot it reads).
- `RingImplementsQueue`: `Spec => ImplementsRxQueue`. The mapping takes the slots
  between the positions as the queue. `PushPuts`: a Push is a `Put` (or `Break`);
  `AdvanceGets`: the advance is a `Get`; `CopyStutters`: the rest stutters.

`FlashLogProofs` (assumption: `FlashAssumption`; any flash layout)
- `LogTypes`: `TypeOK` needs `WorkInv` (what the main loop does decides where it can be,
  and a write in progress has room for its entry, where the log begins anew too if a
  command erases it meanwhile) and `RunsInv` (an entry begins at most one session).
- `NoMixedEntries`, `LogKept`, `SessionsCounted`: `EntriesGenuine`, `LogComplete` and
  `SequencesCounted`, all three from `LogInv`. While nothing has spoiled the log, its
  slots are used from the front, each by one entry, torn words are junk, identities
  grow, and the two histories are what the flash says (`LogGood`); between two entries
  the write address is the first free slot (`Waiting`), and during one the words after
  it are a prefix of the entry and then nothing (`Writing`). `Operate` is the only
  step of the main loop that programs: `WordUsed` keeps the order of the slots,
  `WordBegins` counts a session, `WordCompletes` finishes an entry. A cut in the middle
  of a word leaves a used slot too, which is why `ScanStops` makes the next boot go on
  behind it (`BootLog`). `StartLog` to `LockLog` and `CommandLog` are the other steps.
- `HangsExplained`: what `trace_hangs` finds is, with its like at the messages of the
  main loop, the only way to hang: a command never returns only if a line of the trace
  is going out and the trace is on, or if the main loop is transmitting its message at
  boot or around an erase by key.
- `SavedSettingsKept`: `SavedKept` needs `SaveInv`: nothing counts as saved while a save
  or clear runs, and a save that no command has crossed keeps the controller
  unlocked and has programmed exactly a prefix of the page (`Progress`). `OperateKeeps`
  is the one step that writes it; `RefusedKeeps` shows that such a save is never
  refused; `CutKeeps` disposes of the power cuts.

`TpSendProofs` (assumption: `TpAssumption`; messages of up to 254 packets, the largest
a `uint8_t` counts)
- `TpTypes`: `TypeOK` needs `StepInv`: a window begins with less than `Total` counted
  and has at most `Total` packets, so `packets_sent` stays below twice that (14 for the
  longest message of the code) and does not wrap.
- `SuccessHolds`: `SuccessIsReal`, with `AckInv`: an EOM_ACK that is in the ring, or
  that the sender has taken, came from a charger that has every packet.
- `UnsentHolds`: `UnsentPaidByLoss`, with `OrderInv`. Packets are first sent in their
  order (`Agree`), there is at most one CTS on its way, and its window begins at the
  first packet the charger has not got (`Fits`). `Ahead` is the account: what
  `packets_sent` runs ahead of the packets sent is at most a window for each data frame
  that was lost and has arrived since. A window asked for again is paid for by its
  first packet (`Sending`): that one was sent and is missing, so it was lost, and when
  it arrives its loss covers the `Repeats` behind it; if it is lost again, so does the
  new loss.

`DisplayUiProofs` (assumption: `UiAssumption`; any ring, menu and delays)
- `UiTypes`: needs `ScreenInv`: a job begins on a screen that the popup can return
  to, and a press is in hand only while it is handled.
- `RingIsButtonQueue`: `Spec => ImplementsButtonQueue`. The mapping takes the bytes from
  tail to head as the queue. `PressWithRoom`, `PressWhenFull`, `PopGets`, `FlushEnds`
  map a step each, `RestKeepsQueue` the stutters. `FlushInv`: in the middle of a flush
  the tail has not moved, or the ring is full.

`SettingsFileProofs` (assumption: `FileAssumption`) and `LinuxHostProofs`
(`HostAssumption`)
- `FileImplementsStore`: with `WriteInv` (a write holds a blob, and the temporary file
  is that blob when it is renamed), every step is one of `NvStore` or a stutter.
- `SettingsAtomic`: the same of the composed program, `Spec => ImplementsNvStore`. With
  `HostInv`, `OthersKeep` disposes of the actions that leave the file alone, and
  `StepsOfStore` maps the others to those of `SettingsFile`.
- `HostTypes`: `TypeOK`, one lemma for each part of the program.
- `FramesFaithful`: `StreamFaithful`, for any buffer of two pieces or more. `StreamInv`
  looks at what is on its way, the input buffer and then the wire (`Coming`): whole
  messages but for its ends, numbered, in order and later than what was pushed
  (`Passage`); it ends with a whole message while the other end is there; while the
  client waits for an answer no frame is ahead of it, unless something was missed
  (`Answers`), so no message that `sc_wait_reply` takes is a frame; and nothing is
  lost (`Reached`). `TakenKept` says what `sc_take_message` takes and leaves: as the
  buffer has room for a whole message, it is never full of an unfinished one, which
  would be cleared. `StreamReceive`, `StreamMessage`, `StreamCutoff`
  and `StreamTakes` are the steps that move pieces. `Draining`: the pump runs only on
  a connection that is up.
- `RawHolds`: `ConnectedRaw`. `RawInv` adds that a connection which waits for its second
  answer has nothing on its way before the server gives it, and only errors after a
  refusal. `RawReplies` is the step that counts: with `Answers`, the first `< ok >`
  leaves the stream empty behind it, and the second is there only if the server sent it.

`GbtCodecProofs` (no assumptions)
- `RsetClamps`: a documented value is stored as it is, any other as a documented one.
- `RuntimesClosed`: commands, edits, CCS and the tail request keep every field in
  its width; only CCS leaves the pack fields outside of the documented range.
- `FramesUnderstood`: read as the charger reads them, BCL, BSM and BCS say what the
  fields hold (the cell voltage to half of its 10 mV).
- `CurrentEchoed`, `TailNotFooled`: a raw current of CCS above 36767 wraps around in
  `int16_t`. BCS then reports -400 A, but the tail condition is not fooled, because
  what it wraps to is larger than any threshold that RSET allows.
- `PgnKept`: decoding an identifier gives the PGN back.

*Only model-checked:* liveness (`StopSendsBst`, `BstRepeats`, `ChargingStreams`,
`DelayReleases`, `LockReleases`, `AllDelivered`, `TpTerminates`, `Delivers`, `PopupEnds`,
`StateHeard`, `Reestablished`), as it rests on fairness and ENABLED, which the
prover does not handle. Every invariant, action property and refinement that a
passing run checks is proved.

## 6. Not modelled

- **SEQ, RGET, RLIST, STATE, INFO**: they print. SEQ finds sessions by time stamps,
  which the entries of `FlashLog` do not have.
- **Payloads** of BHM, BRM and BCP: constants. Of the received frames, only what
  the engine reads.
- **Display**: drawing, glyphs, debouncing.
- **Settings**: the strength of the CRC (a torn page is taken to fail it), and on
  Linux a machine that loses its power without an `fsync`.
- **Linux**: options, MQTT topics that are only printed to, and of `can_socketcan.c`
  and `can_dispatch.c` the set-up of the socket; their pump is a Push at the first
  line of Pop, which `CanRing` covers.
- **Log decoders** (`*.py`): offline scripts that share no state with the firmware.
- **Vendor code** (HAL, CMSIS, CubeMX start-up): not the program's own, and most of the
  lines of the repository. What matters of it is assumed: the interrupt priorities,
  that nothing but the main loop and the interrupts touches the state, and what
  the flash controller and the UART do when they are busy (`FlashLog`).
