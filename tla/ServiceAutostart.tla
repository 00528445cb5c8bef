-------------------------- MODULE ServiceAutostart --------------------------
(***************************************************************************)
(* plugin/inference/PythonServiceAutostart.cpp, and the part of            *)
(* RemoteInferenceBackend.cpp that decides when a service is started: the  *)
(* plugin processes of a machine start Python services, learn their ports  *)
(* from files in the one directory for temporary files, and ask them       *)
(* whether they are ready.                                                 *)
(*                                                                         *)
(* A service that is given no port listens at one of its own, so its name  *)
(* stands for that port.                                                   *)
(***************************************************************************)
EXTENDS Integers, FiniteSets

CONSTANTS
    Hosts,      \* plugin processes
    Services,   \* the Python processes that may be started
    FixedPort,  \* the port of the options, when they name one
    NoPort,     \* 0, and a port file that is not there
    NoService,
    Options,    \* RuntimeOptions, as the configuration may be
    Deadline,   \* passes of the loops that fit into the 15 seconds
    MaxStarts,  \* bound on the port files one process names
    MaxCrashes  \* bound on the processes that end

ASSUME AutostartAssumption ==
    /\ Deadline \in Nat \ {0}
    /\ MaxStarts \in Nat
    /\ MaxCrashes \in Nat
    /\ Services \cap {FixedPort, NoPort, NoService} = {}
    /\ FixedPort # NoPort

Ports == Services \cup {FixedPort}
Names == 0..MaxStarts
NoName == -1

VARIABLES
    options,   \* options_, the same for all
    service,   \* [Services -> what became of the process]
    portFile,  \* [Names -> what ZSoda_RemoteServicePort_<name>.txt says]
    counter,   \* [Hosts -> g_temp_file_counter of the autostart]
    cached,    \* [Hosts -> g_cached_autostart_port]
    attempt,   \* [Hosts -> the locals of the last Initialize]
    adopted,   \* [Hosts -> services that answered it, as long as it lives]
    crashes

machineVars == <<service, portFile>>
hostVars == <<counter, cached, attempt, adopted>>
autostartVars == <<options, machineVars, hostVars, crashes>>

-----------------------------------------------------------------------------
(* The services: tools/distill_any_depth_remote_service.py.                *)

Alive(s) == service[s].state \in {"starting", "loading", "serving"}

\* A socket is bound to the port.
BoundTo(p) == { s \in Services : service[s].state \in {"loading", "serving"}
                                 /\ service[s].port = p }

\* GetEndpointText on /status at port p: a service that still loads its model
\* has the connection wait until the request times out.
Answers(p) == \E s \in BoundTo(p) : service[s].state = "serving"

\* main: bind the port, then tell it, then load the model.
Publish(s) ==
    LET c == service[s] IN
    /\ c.state = "starting"
    /\ IF BoundTo(c.port) # {}
         THEN /\ service' = [service EXCEPT ![s].state = "dead"]
              /\ UNCHANGED portFile
         ELSE /\ service' = [service EXCEPT ![s].state = "loading"]
              /\ portFile' = IF c.file = NoName THEN portFile
                             ELSE [portFile EXCEPT ![c.file] = c.port]
    /\ UNCHANGED <<options, hostVars, crashes>>

Serve(s) ==
    /\ service[s].state = "loading"
    /\ service' = [service EXCEPT ![s].state = "serving"]
    /\ UNCHANGED <<options, portFile, hostVars, crashes>>

ServiceDies(s) ==
    /\ Alive(s)
    /\ service' = [service EXCEPT ![s].state = "dead"]
    /\ UNCHANGED <<options, portFile, hostVars, crashes>>

-----------------------------------------------------------------------------
(* ResolveEndpointConfigurationLocked and the first look.                  *)

Idle == [pc |-> "idle", port |-> NoPort, file |-> NoName, own |-> NoService,
         passes |-> 0, outcome |-> "none", silent |-> FALSE]

InAttempt(h) == attempt[h].pc # "idle"

Goto(h, pc) == attempt' = [attempt EXCEPT ![h].pc = pc]

\* The port to look at first: resolved_service_port_.
PortToTry(h) == IF options.fixed THEN FixedPort ELSE cached[h]

Resolve(h) ==
    attempt' = [attempt EXCEPT
        ![h] = [Idle EXCEPT !.port = PortToTry(h),
                            !.pc = IF PortToTry(h) = NoPort THEN "launch" ELSE "status"]]

Forget(h) == cached' = IF options.fixed THEN cached ELSE [cached EXCEPT ![h] = NoPort]

RememberNothing(h, p) == UNCHANGED cached
Remember(h, p) == cached' = IF options.fixed THEN cached ELSE [cached EXCEPT ![h] = p]

\* The attempt ends with a service at port p, or without one.
Succeed(h, p) ==
    /\ attempt' = [attempt EXCEPT ![h].pc = "idle", ![h].port = p, ![h].outcome = "ready"]
    /\ adopted' = [adopted EXCEPT ![h] = @ \cup BoundTo(p)]

Fail(h, outcome) ==
    /\ attempt' = [attempt EXCEPT ![h].pc = "idle", ![h].outcome = outcome,
                                  ![h].port = IF options.fixed THEN @ ELSE NoPort]
    /\ Forget(h)
    /\ UNCHANGED adopted

CheckStatus(h) ==
    LET p == attempt[h].port IN
    /\ attempt[h].pc = "status"
    /\ \/ /\ Answers(p)
          /\ Succeed(h, p)
          /\ UNCHANGED cached
       \/ /\ ~Answers(p)
          /\ attempt' = [attempt EXCEPT ![h].pc = "launch",
                                        ![h].port = IF options.fixed THEN p ELSE NoPort]
          /\ Forget(h)
          /\ UNCHANGED adopted
    /\ UNCHANGED <<options, machineVars, counter, crashes>>

-----------------------------------------------------------------------------
(* StartDetachedPythonService.                                             *)

\* The path of the script, the Python or the log cannot be had.
LaunchImpossible(h) ==
    /\ attempt[h].pc = "launch"
    /\ Fail(h, "impossible")
    /\ UNCHANGED <<options, machineVars, counter, crashes>>

\* BuildAutostartPortFilePath: only a service without a port tells its own.
NameOf(h) == IF options.fixed THEN NoName ELSE counter[h]
TakeName(h) ==
    IF options.fixed THEN UNCHANGED counter
    ELSE counter[h] < MaxStarts /\ counter' = [counter EXCEPT ![h] = @ + 1]

SpawnFails(h) ==
    /\ attempt[h].pc = "launch"
    /\ TakeName(h)
    /\ Fail(h, "impossible")
    /\ UNCHANGED <<options, machineVars, crashes>>

Spawn(h, s) ==
    /\ attempt[h].pc = "launch"
    /\ service[s].state = "none"
    /\ TakeName(h)
    /\ service' = [service EXCEPT
                     ![s] = [state |-> "starting", file |-> NameOf(h),
                             port |-> IF options.fixed THEN FixedPort ELSE s]]
    /\ attempt' = [attempt EXCEPT ![h].pc = IF options.fixed THEN "health" ELSE "port",
                                  ![h].own = s, ![h].file = NameOf(h)]
    /\ UNCHANGED <<options, portFile, cached, adopted, crashes>>

KeepPortFile(h) == UNCHANGED portFile
RemovePortFile(h) ==
    portFile' = IF attempt[h].file = NoName THEN portFile
                ELSE [portFile EXCEPT ![attempt[h].file] = NoPort]

InTime(h) == attempt[h].passes < Deadline

\* One pass of a loop that did not get what it waits for.
WaitOn(h) ==
    /\ attempt' = [attempt EXCEPT ![h].passes = @ + 1,
                                  ![h].silent = service[attempt[h].own].state # "serving"]
    /\ UNCHANGED <<portFile, cached, adopted>>

\* ParsePortText of what the file says, if it is there.
PortNeverRead(h) == NoPort
PortRead(h) == portFile[attempt[h].file]

\* WaitForAutostartPortFile.
ReadPortFile(h) ==
    LET p == PortRead(h) IN
    /\ attempt[h].pc = "port"
    /\ \/ /\ InTime(h) /\ p # NoPort
          /\ attempt' = [attempt EXCEPT ![h].pc = "health", ![h].port = p]
          /\ UNCHANGED <<portFile, cached, adopted>>
       \/ InTime(h) /\ p = NoPort /\ WaitOn(h)
       \/ ~InTime(h) /\ Fail(h, "timeout") /\ RemovePortFile(h)
    /\ UNCHANGED <<options, service, counter, crashes>>

CheckHealth(h) ==
    LET p == attempt[h].port IN
    /\ attempt[h].pc = "health"
    /\ \/ InTime(h) /\ Answers(p) /\ Succeed(h, p) /\ RemovePortFile(h) /\ Remember(h, p)
       \/ InTime(h) /\ ~Answers(p) /\ WaitOn(h)
       \/ ~InTime(h) /\ Fail(h, "timeout") /\ RemovePortFile(h)
    /\ UNCHANGED <<options, service, counter, crashes>>

-----------------------------------------------------------------------------
\* A plugin process ends and another takes its place: the services and the
\* files stay, what the process knew does not.
HostEnds(h) ==
    /\ crashes < MaxCrashes
    /\ crashes' = crashes + 1
    /\ counter' = [counter EXCEPT ![h] = 0]
    /\ cached' = [cached EXCEPT ![h] = NoPort]
    /\ attempt' = [attempt EXCEPT ![h] = Idle]
    /\ adopted' = [adopted EXCEPT ![h] = {}]
    /\ UNCHANGED <<options, machineVars>>

AutostartInit ==
    /\ options \in Options
    /\ service = [s \in Services |-> [state |-> "none", port |-> NoPort, file |-> NoName]]
    /\ portFile = [n \in Names |-> NoPort]
    /\ counter = [h \in Hosts |-> 0]
    /\ cached = [h \in Hosts |-> NoPort]
    /\ attempt = [h \in Hosts |-> Idle]
    /\ adopted = [h \in Hosts |-> {}]
    /\ crashes = 0

\* What a process does within Initialize.
AttemptStep(h) ==
    \/ CheckStatus(h)
    \/ LaunchImpossible(h)
    \/ SpawnFails(h)
    \/ \E s \in Services : Spawn(h, s)
    \/ ReadPortFile(h)
    \/ CheckHealth(h)

ServiceStep(s) == Publish(s) \/ Serve(s) \/ ServiceDies(s)

-----------------------------------------------------------------------------
(* Properties.                                                             *)

\* Another service has been started with the port file of h's attempt.
NameIsShared(h) ==
    \E s \in Services \ {attempt[h].own} :
      attempt[h].file # NoName /\ service[s].file = attempt[h].file

\* StartDetachedPythonService gives up at the deadline only when the service
\* it started was not serving as it last looked, as long as no other process
\* has used the name of its port file.
GivesUpOnlyOnSilence ==
    \A h \in Hosts :
      attempt[h].outcome = "timeout" /\ ~NameIsShared(h) => attempt[h].silent

\* A process never has two of the services it got to use alive at once: the
\* port that g_cached_autostart_port remembers is tried before another
\* service is started.
OneServiceInUse ==
    \A h \in Hosts : Cardinality({ s \in adopted[h] : Alive(s) }) <= 1

\* A start that succeeds leaves no port file behind, as long as no other
\* process has used its name: a later process would take the port for its own.
SuccessLeavesNoFile ==
    \A h \in Hosts :
      attempt[h].outcome = "ready" /\ attempt[h].file # NoName /\ ~NameIsShared(h)
        => portFile[attempt[h].file] = NoPort
=============================================================================
