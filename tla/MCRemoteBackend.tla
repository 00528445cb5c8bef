-------------------------- MODULE MCRemoteBackend --------------------------
EXTENDS RemoteBackend

Option(endpoint, autostart, fixed, command, binary) ==
    [endpoint |-> endpoint, autostart |-> autostart, fixed |-> fixed,
     command |-> command, binary |-> binary]

\* An endpoint, the autostart without and with a port, a command, nothing.
MCOptions ==
    { Option(TRUE, TRUE, FALSE, FALSE, FALSE), Option(FALSE, TRUE, FALSE, FALSE, TRUE),
      Option(FALSE, TRUE, TRUE, FALSE, TRUE), Option(FALSE, FALSE, FALSE, TRUE, TRUE),
      Option(FALSE, FALSE, FALSE, FALSE, TRUE) }

CONSTANT h1

\* Where services are started one process runs, and only with a fixed port.
MCMaxRuns ==
    [o \in MCOptions |->
      [h \in Hosts |-> IF ~o.autostart \/ o.endpoint \/ (o.fixed /\ h = h1) THEN 1 ELSE 0]]
=============================================================================
