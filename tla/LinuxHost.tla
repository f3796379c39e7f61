----------------------------- MODULE LinuxHost -----------------------------
(***************************************************************************)
(* The Linux program (linux/main.c): one thread that starts, then runs     *)
(* LoopCharge, MqttCli_Loop and publish_state_if_changed over and over.    *)
(* Connecting to socketcand and writing the settings happen inside of it   *)
(* and hold up everything else.  Composed of the modules Socketcand,       *)
(* MqttCli and SettingsFile, which share that thread, the clock and the    *)
(* end of the process; the charge engine is what GbtBms models, here it is *)
(* any sequence of states, one of which transmits in every pass.           *)
(*                                                                         *)
(* The engine transmits while it is in a state of Busy.  Everything from   *)
(* outside is taken from `budget`, so that every behaviour has finitely    *)
(* many disturbances, in any order and at any step.                        *)
(***************************************************************************)
EXTENDS Naturals, Sequences

CONSTANTS
  States, NoState,     \* GbtChargeState
  Busy,                \* the states that transmit
  Blobs, Defaults,     \* settings, and those of a start without a file
  Absent,              \* no file
  Room, ReplyTicks, RetryTicks, BeatTicks,
  Budgets              \* how often each disturbance may come

Disturbances == {"frame", "turn", "server", "vanish", "slow", "broker", "drop",
                 "late", "command", "fail", "kill"}

VARIABLES
  pc,      \* where the program is, "down" if it does not run
  booting, \* it has not reached the loop yet
  state,   \* GbtGetChargeState
  runtime, \* the runtime fields, as a blob
  budget,  \* disturbances that may still come
  fd, sc_in, try, waited, wire, server, peer, frame, given, missed,
  sock, redial, last, beat, alive, broker, retained, inbox,
  file, tmp, saving, step

Can   == INSTANCE Socketcand
Mqtt  == INSTANCE MqttCli
Store == INSTANCE SettingsFile

ASSUME HostAssumption ==
  /\ Busy \subseteq States /\ States \ Busy # {} /\ Defaults \in Blobs
  /\ Budgets \subseteq [Disturbances -> Nat]
  /\ Can!SocketcandAssumption /\ Mqtt!MqttAssumption /\ Store!FileAssumption

can   == <<fd, sc_in, try, waited, wire, server, peer, frame, given, missed>>
mqtt  == <<sock, redial, last, beat, alive, broker, retained, inbox>>
store == <<file, tmp, saving, step>>
main  == <<pc, booting, state, runtime>>
vars  == <<main, budget, can, mqtt, store>>

TypeOK ==
  /\ pc \in {"down", "CanInit", "Load", "Loop", "Pump", "Drain", "Engine",
             "Redial", "Read", "Save", "Publish"}
  /\ booting \in BOOLEAN /\ state \in States /\ runtime \in Blobs
  /\ budget \in [Disturbances -> Nat]
  /\ Can!CanTypeOK /\ Mqtt!MqttTypeOK /\ Store!FileTypeOK

Init ==
  /\ pc = "down" /\ booting = TRUE /\ runtime = Defaults
  /\ state \in States \ Busy
  /\ budget \in Budgets
  /\ Can!Init /\ Mqtt!Init /\ Store!Init

Spend(d) == budget[d] > 0 /\ budget' = [budget EXCEPT ![d] = @ - 1]

-----------------------------------------------------------------------------
(* main *)

\* MqttCli_Init and MqttCli_Connect.
Start ==
  /\ pc = "down"
  /\ pc' = "CanInit" /\ booting' = TRUE
  /\ Mqtt!Connect
  /\ UNCHANGED <<state, runtime, budget, can, store>>

\* sc_init: one try.
CanInit ==
  /\ pc = "CanInit"
  /\ Can!Dial /\ UNCHANGED try
  /\ pc' = IF fd' = "opening" THEN "Pump" ELSE "Load"
  /\ UNCHANGED <<booting, state, runtime, budget, mqtt, store>>

\* SettingsStore_Init, SetupCharge.
Load ==
  /\ pc = "Load" /\ pc' = "Loop" /\ booting' = FALSE
  /\ runtime' = IF file = Absent THEN Defaults ELSE file
  /\ state' \in States \ Busy
  /\ UNCHANGED <<budget, can, mqtt, store>>

\* poll or DelayMs is over.
Awake == pc = "Loop" /\ pc' = "Pump"
         /\ UNCHANGED <<booting, state, runtime, budget, can, mqtt, store>>

\* sc_connect, called by sc_init or by sc_pump.
Connect ==
  /\ pc = "Pump" /\ Can!Connect
  /\ pc' = IF fd' \in {"opening", "rawing"} THEN "Pump"
           ELSE IF booting THEN "Load" ELSE "Engine"
  /\ UNCHANGED <<booting, state, runtime, budget, mqtt, store>>

\* sc_pump.
Pump ==
  /\ pc = "Pump"
  /\ \/ Can!Redial /\ pc' = IF fd' = "opening" THEN "Pump" ELSE "Engine"
     \/ Can!TooEarly /\ pc' = "Engine"
     \/ Can!PumpReceive /\ pc' = "Pump"
     \/ Can!PumpEmpty /\ pc' = "Drain"
     \/ Can!PumpClosed /\ pc' = "Engine"
  /\ UNCHANGED <<booting, state, runtime, budget, mqtt, store>>

Drain ==
  /\ pc = "Drain"
  /\ \/ Can!Drain /\ pc' = "Drain"
     \/ Can!DrainDone /\ pc' = "Engine"
  /\ UNCHANGED <<booting, state, runtime, budget, mqtt, store>>

\* The rest of LoopCharge: it may change the state, and transmits if it is busy.
Engine ==
  /\ pc = "Engine" /\ pc' = "Redial"
  /\ IF state \in Busy THEN Can!Send ELSE UNCHANGED can
  /\ \/ UNCHANGED <<state, budget>>
     \/ state' \in States \ {state} /\ Spend("turn")
  /\ UNCHANGED <<booting, runtime, mqtt, store>>

\* MqttCli_Loop.
Redial ==
  /\ pc = "Redial" /\ pc' = "Read"
  /\ Mqtt!Reconnect \/ Mqtt!NoSocket \/ Mqtt!HasSocket
  /\ UNCHANGED <<booting, state, runtime, budget, can, store>>

\* GbtCli_ProcessCommand: a field is set, or the settings are saved.
Command(c) ==
  /\ Mqtt!ReadCommand(c)
  /\ \/ c = "RSET" /\ runtime' \in Blobs /\ pc' = "Publish" /\ UNCHANGED store
     \/ c = "SAVE" /\ Store!Save(runtime) /\ pc' = "Save" /\ UNCHANGED runtime

Read ==
  /\ pc = "Read"
  /\ \/ /\ Mqtt!ReadClosed \/ Mqtt!ReadConnack \/ Mqtt!ReadNothing
        /\ pc' = "Publish" /\ UNCHANGED <<runtime, budget, store>>
     \/ /\ Mqtt!ReadRefused \/ Mqtt!ReadLater
        /\ Spend("late") /\ pc' = "Publish" /\ UNCHANGED <<runtime, store>>
     \/ /\ \E c \in Mqtt!Commands : Command(c)
        /\ UNCHANGED budget
  /\ UNCHANGED <<booting, state, can>>

\* SettingsNvm_Write, and the answer.
Save ==
  /\ pc = "Save" /\ UNCHANGED <<booting, state, runtime, can, mqtt>>
  /\ \/ /\ Store!Write /\ pc' = "Save"
        /\ IF step' = "false" THEN Spend("fail") ELSE UNCHANGED budget
     \/ /\ Store!Report /\ pc' = "Publish" /\ UNCHANGED budget

\* publish_state_if_changed.
Publish ==
  /\ pc = "Publish" /\ pc' = "Loop"
  /\ Mqtt!Publish(state)
  /\ UNCHANGED <<booting, state, runtime, budget, can, store>>

Program == CanInit \/ Load \/ Awake \/ Connect \/ Pump \/ Drain \/ Engine
             \/ Redial \/ Read \/ Save \/ Publish

-----------------------------------------------------------------------------
(* Everything else *)

\* Time passes anywhere, but sc_wait_reply takes what has arrived within the
\* tick; and an answer that is owed takes less than one, or "slow" is spent.
Tick ==
  /\ Can!Connecting => Can!Reply = <<>> /\ wire = <<>>
  /\ IF Can!Connecting /\ Can!Owes THEN Spend("slow") ELSE UNCHANGED budget
  /\ Can!Tick /\ Mqtt!Tick
  /\ UNCHANGED <<main, store>>

CanWorld ==
  /\ \/ Can!ServerStops /\ Spend("server")
     \/ Can!ServerVanishes /\ Spend("vanish")
     \/ Can!ServerStarts /\ UNCHANGED budget
     \/ Can!ServerAnswers(Can!Ok) /\ UNCHANGED budget
     \/ Can!ServerAnswers(Can!Error) /\ Spend("slow")
     \/ Can!BusFrame /\ Spend("frame")
  /\ UNCHANGED <<main, mqtt, store>>

MqttWorld ==
  /\ \/ Mqtt!Drops /\ Spend("drop")
     \/ Mqtt!BrokerStops /\ Spend("broker")
     \/ Mqtt!BrokerStarts /\ UNCHANGED budget
     \/ (\E c \in Mqtt!Commands : Mqtt!Operator(c)) /\ Spend("command")
  /\ UNCHANGED <<main, can, store>>

\* The process is killed, or told to stop.
Kill ==
  /\ pc # "down" /\ pc' = "down" /\ booting' = TRUE /\ Spend("kill")
  /\ Can!Killed /\ Mqtt!Killed /\ Store!Kill
  /\ UNCHANGED <<state, runtime>>

Next == Start \/ Program \/ Tick \/ CanWorld \/ MqttWorld \/ Kill

Spec == Init /\ [][Next]_vars

\* The program runs, the clock ticks, a server that runs answers.  Whoever
\* stops the servers or the program may leave them so.
FairSpec ==
  /\ Spec /\ WF_vars(Program) /\ WF_vars(Tick)
  /\ WF_vars(Can!ServerAnswers(Can!Ok) /\ UNCHANGED <<main, budget, mqtt, store>>)

-----------------------------------------------------------------------------

\* README: frames of the socketcand server reach the receive ring whole, in the
\* order of the bus and none twice, through reconnects; all of them do unless
\* the input buffer overflowed or a connection ended.
StreamFaithful == Can!Faithful

\* "connected (RAW mode)", as sc_connect says, is true: no answer is counted
\* twice, for the request after its own, or on the connection after its own,
\* whatever is slow, refused, dropped for want of room or cut off in between.
ConnectedRaw == Can!UpIsRaw

\* A save is all or nothing, and what it reports is true, whatever call fails
\* and whenever the process is killed: what a start reads is the last blob that
\* was saved.
ImplementsNvStore == Store!ImplementsNvStore

\* The state that subscribers see is that of the engine in the end, although a
\* publication may be lost without an error.
StateHeard ==
  \A s \in States :
    <>[](pc # "down" /\ broker = "up" /\ state = s) => <>[](retained = s)

\* README: the connection is retried and re-established after socketcand
\* restarts; if its machine went down without a word, when something is sent.
Reestablished ==
  <>[](pc # "down" /\ server = "up" /\ (peer = "vanished" => state \in Busy))
    => <>[]Can!Connected
=============================================================================
