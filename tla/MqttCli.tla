------------------------------ MODULE MqttCli ------------------------------
(***************************************************************************)
(* The MQTT client of the Linux program (linux/mqtt_cli.c) and the state   *)
(* that main.c publishes.  libmosquitto and the broker are outside of the  *)
(* code: a connection may die at any time, `alive`, and the client learns  *)
(* of it when it reads.  Until then what it publishes is lost, without an  *)
(* error: the messages have QoS 0.                                         *)
(***************************************************************************)
EXTENDS Naturals, Sequences, FiniteSetsExt

CONSTANTS
  States,     \* GbtChargeState, as far as subscribers tell them apart
  NoState,
  RetryTicks, \* RECONNECT_MS
  BeatTicks   \* 5000 ms

MqttAssumption ==
  NoState \notin States /\ RetryTicks \in Nat \ {0} /\ BeatTicks \in Nat \ {0}

VARIABLES
  sock,     \* "none", "tcp" (mosquitto_socket >= 0), "up" (is_connected too)
  redial,   \* ticks since last_connect_try
  last,     \* last_state
  beat,     \* ticks since last_pub
  alive,    \* the broker has the other end of sock
  broker,   \* "up" or "down"
  retained, \* what the broker tells subscribers
  inbox     \* commands on their way to the client

mqttvars == <<sock, redial, last, beat, alive, broker, retained, inbox>>

Commands == {"RSET", "SAVE"}

MqttTypeOK ==
  /\ sock \in {"none", "tcp", "up"} /\ redial \in 0 .. RetryTicks
  /\ last \in States \cup {NoState} /\ beat \in 0 .. BeatTicks
  /\ alive \in BOOLEAN /\ broker \in {"up", "down"}
  /\ retained \in States \cup {NoState} /\ inbox \in Seq(Commands)

Init ==
  /\ sock = "none" /\ redial = RetryTicks /\ last = NoState /\ beat = 0
  /\ alive = FALSE /\ broker = "up" /\ retained = NoState /\ inbox = <<>>

-----------------------------------------------------------------------------

\* mosquitto_connect, mosquitto_reconnect.
Connect ==
  /\ redial' = 0
  /\ sock' = (IF broker = "up" THEN "tcp" ELSE "none") /\ alive' = (broker = "up")
  /\ UNCHANGED <<last, beat, broker, retained, inbox>>

Reconnect == sock = "none" /\ redial = RetryTicks /\ Connect

NoSocket == sock = "none" /\ redial < RetryTicks /\ UNCHANGED mqttvars

HasSocket == sock # "none" /\ UNCHANGED mqttvars

\* mosquitto_loop_read.  The connection is gone: on_disconnect.
ReadClosed ==
  /\ sock # "none" /\ ~alive
  /\ sock' = "none" /\ inbox' = <<>>
  /\ UNCHANGED <<redial, last, beat, alive, broker, retained>>

\* on_connect: it subscribes.
ReadConnack ==
  /\ sock = "tcp" /\ alive /\ sock' = "up"
  /\ UNCHANGED <<redial, last, beat, alive, broker, retained, inbox>>

\* on_connect with a refusal; the library closes the socket.
ReadRefused ==
  /\ sock = "tcp" /\ alive /\ sock' = "none" /\ alive' = FALSE
  /\ UNCHANGED <<redial, last, beat, broker, retained, inbox>>

\* The answer of the broker is not there yet.
ReadLater == sock = "tcp" /\ alive /\ UNCHANGED mqttvars

\* on_message.
ReadCommand(c) ==
  /\ sock = "up" /\ alive /\ inbox # <<>> /\ c = Head(inbox)
  /\ inbox' = Tail(inbox)
  /\ UNCHANGED <<sock, redial, last, beat, alive, broker, retained>>

ReadNothing ==
  /\ sock = "none" \/ (sock = "up" /\ alive /\ inbox = <<>>)
  /\ UNCHANGED mqttvars

\* Variant with a fault: the state is published when it changes, only.
Publish_OnChange(st) ==
  /\ IF st = last THEN UNCHANGED <<last, beat, retained>>
     ELSE /\ last' = st /\ beat' = 0
          /\ retained' = IF sock = "up" /\ alive THEN st ELSE retained
  /\ UNCHANGED <<sock, redial, alive, broker, inbox>>

\* publish_state_if_changed and MqttCli_Publish: the state counts as published
\* whether or not there is a connection.
Publish(st) ==
  /\ IF st = last /\ beat < BeatTicks THEN UNCHANGED <<last, beat, retained>>
     ELSE /\ last' = st /\ beat' = 0
          /\ retained' = IF sock = "up" /\ alive THEN st ELSE retained
  /\ UNCHANGED <<sock, redial, alive, broker, inbox>>

-----------------------------------------------------------------------------
(* The broker, the operator, the clock *)

Drops ==
  /\ alive /\ alive' = FALSE
  /\ UNCHANGED <<sock, redial, last, beat, broker, retained, inbox>>

\* The broker stops; it keeps the retained state only if it has a database.
BrokerStops ==
  /\ broker = "up" /\ broker' = "down" /\ alive' = FALSE
  /\ retained' \in {retained, NoState}
  /\ UNCHANGED <<sock, redial, last, beat, inbox>>

BrokerStarts ==
  /\ broker = "down" /\ broker' = "up"
  /\ UNCHANGED <<sock, redial, last, beat, alive, retained, inbox>>

\* A command that is published while the client is not subscribed is lost.
Operator(c) ==
  /\ sock = "up" /\ alive
  /\ inbox' = Append(inbox, c)
  /\ UNCHANGED <<sock, redial, last, beat, alive, broker, retained>>

Tick ==
  /\ redial' = Min({redial + 1, RetryTicks}) /\ beat' = Min({beat + 1, BeatTicks})
  /\ UNCHANGED <<sock, last, alive, broker, retained, inbox>>

Killed ==
  /\ sock' = "none" /\ alive' = FALSE /\ inbox' = <<>>
  /\ redial' = RetryTicks /\ last' = NoState /\ beat' = 0
  /\ UNCHANGED <<broker, retained>>
=============================================================================
