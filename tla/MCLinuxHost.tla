---------------------------- MODULE MCLinuxHost ----------------------------
(* Instances of LinuxHost for TLC: each start of the model has its own mix *)
(* of disturbances.                                                        *)
EXTENDS LinuxHost

Nothing == [d \in Disturbances |-> 0]

With(d, n, rest) == [rest EXCEPT ![d] = n]

\* The stream: frames through a restart of the server.
Stream == With("frame", 3, With("server", 1, With("slow", 1, Nothing)))

\* Through restarts of the server and of the program.
Restarts == With("frame", 2, With("server", 2, With("kill", 1, Nothing)))

\* The server's machine, and an engine that transmits.
Machine == With("vanish", 1, With("server", 1, With("turn", 2,
                                                 With("frame", 1, Nothing))))

\* The broker.
Broker == With("turn", 2, With("broker", 1, With("drop", 1, With("late", 2, Nothing))))

\* The operator, and the process.
Operator == With("command", 3, With("fail", 1, With("kill", 2, Nothing)))

Mixes == {Stream, Restarts, Machine, Broker, Operator}
=============================================================================
