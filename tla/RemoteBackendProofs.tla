------------------------- MODULE RemoteBackendProofs ------------------------
(***************************************************************************)
(* Proofs about RemoteBackend and the autostart beneath it, for any number *)
(* of plugin processes and services, however long a start may wait, and    *)
(* wherever processes and services die.                                    *)
(***************************************************************************)
EXTENDS RemoteBackend, FiniteSetTheorems, TLAPS

-----------------------------------------------------------------------------
(* The types of the autostart.                                             *)

States == {"none", "starting", "loading", "serving", "dead"}
Bound == {"loading", "serving"}
Records == [state : States, port : Ports \cup {NoPort}, file : Names \cup {NoName}]

Attempts ==
    [pc : {"idle", "status", "launch", "port", "health"}, port : Ports \cup {NoPort},
     file : Names \cup {NoName}, own : Services \cup {NoService}, passes : Nat,
     outcome : {"none", "ready", "impossible", "timeout"}, silent : BOOLEAN]

AutoTypes ==
    /\ service \in [Services -> Records]
    /\ portFile \in [Names -> Ports \cup {NoPort}]
    /\ counter \in [Hosts -> Names]
    /\ cached \in [Hosts -> Ports \cup {NoPort}]
    /\ attempt \in [Hosts -> Attempts]
    /\ adopted \in [Hosts -> SUBSET Services]
    /\ crashes \in Nat
    /\ \A h \in Hosts : attempt[h].pc = "port" => attempt[h].file \in Names

\* Create begins an attempt.
Begins(h) ==
    /\ ~InAttempt(h) /\ Resolve(h)
    /\ UNCHANGED <<options, machineVars, counter, cached, adopted, crashes>>

AutostartNext ==
    \/ \E h \in Hosts : Begins(h) \/ AttemptStep(h) \/ HostEnds(h)
    \/ \E s \in Services : ServiceStep(s)

\* The backend takes steps of the autostart, or leaves it alone.
LEMMA StepsOfAutostart == [Next]_vars => [AutostartNext]_autostartVars
<1> SUFFICES ASSUME [Next]_vars PROVE [AutostartNext]_autostartVars
  OBVIOUS
<1>1. CASE UNCHANGED vars
  BY <1>1 DEF vars
<1>2. ASSUME NEW h \in Hosts, Create(h) PROVE [AutostartNext]_autostartVars
  BY <1>2 DEF Create, Configured, Free, Begins, AutostartNext
<1>3. ASSUME NEW h \in Hosts, Attempt(h) \/ Restart(h) PROVE [AutostartNext]_autostartVars
  BY <1>3 DEF Attempt, Restart, AutostartNext
<1>4. ASSUME NEW h \in Hosts, NEW x, SelectModel(h, x) \/ Run(h, x) \/ RunStep(h)
      PROVE  [AutostartNext]_autostartVars
  BY <1>4 DEF SelectModel, Run, RunStep, WriteFiles, Exchange, RunCommand, ReadResponse, Decode
<1>5. ASSUME NEW s \in Services, Service(s) PROVE [AutostartNext]_autostartVars
  BY <1>5 DEF Service, AutostartNext
<1> QED BY <1>1, <1>2, <1>3, <1>4, <1>5 DEF Next

\* What an attempt looks like when it begins.
LEMMA IdleIsAttempt ==
    /\ Idle \in Attempts
    /\ \A p \in Ports \cup {NoPort}, pc \in {"status", "launch"} :
         [Idle EXCEPT !.port = p, !.pc = pc] \in Attempts
BY DEF Idle, Attempts

\* The types hold as the processes begin.
LEMMA AutoTypesBegin == AutostartInit => AutoTypes
<1> SUFFICES ASSUME AutostartInit PROVE AutoTypes
  OBVIOUS
<1>1. [state |-> "none", port |-> NoPort, file |-> NoName] \in Records
  BY DEF Records, States
<1>2. 0 \in Names
  BY AutostartAssumption DEF Names
<1>3. Idle \in Attempts /\ Idle.pc = "idle"
  BY IdleIsAttempt DEF Idle
<1> QED BY <1>1, <1>2, <1>3 DEF AutostartInit, AutoTypes

\* The attempts of the other processes stay as they are.
OthersStay(h) ==
    /\ attempt' \in [Hosts -> Attempts]
    /\ \A k \in Hosts : k # h => attempt'[k] = attempt[k]

\* The attempt waits for the same service under the same name.
KeepsOwn(h) ==
    attempt'[h].file = attempt[h].file /\ attempt'[h].own = attempt[h].own

\* And has waited as long.
KeepsWait(h) ==
    attempt'[h].passes = attempt[h].passes /\ attempt'[h].silent = attempt[h].silent

\* An attempt begins with the port to try.
LEMMA BeginChanges ==
    ASSUME AutoTypes, NEW h \in Hosts, Begins(h)
    PROVE  /\ OthersStay(h)
           /\ attempt'[h].pc = IF PortToTry(h) = NoPort THEN "launch" ELSE "status"
           /\ attempt'[h].port = PortToTry(h) /\ attempt'[h].own = NoService
           /\ attempt'[h].file = NoName /\ attempt'[h].passes = 0 /\ attempt'[h].outcome = "none"
<1> DEFINE a == [Idle EXCEPT !.port = PortToTry(h),
                             !.pc = IF PortToTry(h) = NoPort THEN "launch" ELSE "status"]
<1>1. PortToTry(h) \in Ports \cup {NoPort}
  BY DEF PortToTry, AutoTypes, Ports
<1>2. /\ a \in Attempts /\ a.pc = (IF PortToTry(h) = NoPort THEN "launch" ELSE "status")
      /\ a.port = PortToTry(h) /\ a.own = NoService /\ a.file = NoName /\ a.passes = 0
      /\ a.outcome = "none"
  BY <1>1, IdleIsAttempt DEF Idle
<1>3. attempt' = [attempt EXCEPT ![h] = a]
  BY DEF Begins, Resolve
<1> HIDE DEF a
<1> QED BY <1>2, <1>3 DEF OthersStay, AutoTypes

\* A success ends the attempt, and the process uses who listens there.
LEMMA SuccessChanges ==
    ASSUME AutoTypes, NEW h \in Hosts, NEW p \in Ports \cup {NoPort}, Succeed(h, p)
    PROVE  /\ OthersStay(h) /\ KeepsOwn(h) /\ KeepsWait(h)
           /\ attempt'[h].pc = "idle" /\ attempt'[h].port = p /\ attempt'[h].outcome = "ready"
           /\ adopted' = [adopted EXCEPT ![h] = @ \cup BoundTo(p)]
           /\ adopted' \in [Hosts -> SUBSET Services]
<1> DEFINE b == [attempt[h] EXCEPT !.pc = "idle", !.port = p, !.outcome = "ready"]
<1>1. attempt[h] \in Attempts
  BY DEF AutoTypes
<1>2. /\ b \in Attempts /\ b.pc = "idle" /\ b.port = p /\ b.outcome = "ready"
      /\ b.file = attempt[h].file /\ b.own = attempt[h].own
      /\ b.passes = attempt[h].passes /\ b.silent = attempt[h].silent
  BY <1>1 DEF Attempts
<1>3. attempt' = [attempt EXCEPT ![h] = b] /\ adopted' = [adopted EXCEPT ![h] = @ \cup BoundTo(p)]
  BY DEF Succeed
<1> HIDE DEF b
<1>4. adopted' \in [Hosts -> SUBSET Services]
  BY <1>3 DEF BoundTo, AutoTypes
<1> QED BY <1>2, <1>3, <1>4 DEF AutoTypes, OthersStay, KeepsOwn, KeepsWait

\* A failure ends it and forgets the port.
LEMMA FailureChanges ==
    ASSUME AutoTypes, NEW h \in Hosts, NEW o \in {"impossible", "timeout"}, Fail(h, o)
    PROVE  /\ OthersStay(h) /\ KeepsOwn(h) /\ KeepsWait(h)
           /\ attempt'[h].pc = "idle" /\ attempt'[h].outcome = o
           /\ adopted' = adopted
           /\ cached' = IF options.fixed THEN cached ELSE [cached EXCEPT ![h] = NoPort]
<1> DEFINE port == IF options.fixed THEN attempt[h].port ELSE NoPort
           b == [attempt[h] EXCEPT !.pc = "idle", !.outcome = o, !.port = port]
<1>1. attempt[h] \in Attempts /\ port \in Ports \cup {NoPort}
  BY DEF AutoTypes, Attempts
<1>2. attempt' = [attempt EXCEPT ![h] = b]
  BY DEF Fail
<1> HIDE DEF port
<1>3. /\ b \in Attempts /\ b.pc = "idle" /\ b.outcome = o
      /\ b.file = attempt[h].file /\ b.own = attempt[h].own
      /\ b.passes = attempt[h].passes /\ b.silent = attempt[h].silent
  BY <1>1 DEF Attempts
<1> HIDE DEF b
<1>4. Forget(h) /\ UNCHANGED adopted
  BY DEF Fail
<1> QED BY <1>2, <1>3, <1>4 DEF Forget, AutoTypes, OthersStay, KeepsOwn, KeepsWait

\* When nobody answers at the port it is forgotten before a service is started.
LEMMA SilenceChanges ==
    ASSUME AutoTypes, NEW h \in Hosts, CheckStatus(h), ~Answers(attempt[h].port)
    PROVE  /\ OthersStay(h) /\ KeepsOwn(h) /\ KeepsWait(h) /\ attempt'[h].outcome = attempt[h].outcome
           /\ attempt'[h].pc = "launch" /\ adopted' = adopted
           /\ attempt'[h].port = IF options.fixed THEN attempt[h].port ELSE NoPort
           /\ cached' = IF options.fixed THEN cached ELSE [cached EXCEPT ![h] = NoPort]
<1>1. /\ attempt' = [attempt EXCEPT ![h].pc = "launch",
                                    ![h].port = IF options.fixed THEN attempt[h].port ELSE NoPort]
      /\ Forget(h) /\ UNCHANGED adopted
  BY DEF CheckStatus
<1> DEFINE port == IF options.fixed THEN attempt[h].port ELSE NoPort
           b == [attempt[h] EXCEPT !.pc = "launch", !.port = port]
<1>2. attempt[h] \in Attempts /\ port \in Ports \cup {NoPort}
  BY DEF AutoTypes, Attempts
<1>3. attempt' = [attempt EXCEPT ![h] = b]
  BY <1>1
<1> HIDE DEF port
<1>4. /\ b \in Attempts /\ b.pc = "launch" /\ b.outcome = attempt[h].outcome /\ b.port = port
      /\ b.file = attempt[h].file /\ b.own = attempt[h].own
      /\ b.passes = attempt[h].passes /\ b.silent = attempt[h].silent
  BY <1>2 DEF Attempts
<1> HIDE DEF b
<1>5. OthersStay(h) /\ attempt'[h] = b
  BY <1>3, <1>4 DEF AutoTypes, OthersStay
<1>6. adopted' = adopted /\ cached' = IF options.fixed THEN cached ELSE [cached EXCEPT ![h] = NoPort]
  BY <1>1 DEF Forget
<1> QED BY <1>4, <1>5, <1>6 DEF port, KeepsOwn, KeepsWait

\* A service that is started has the name the process waits for.
LEMMA SpawnChanges ==
    ASSUME AutoTypes, NEW h \in Hosts, NEW s \in Services, Spawn(h, s)
    PROVE  /\ OthersStay(h) /\ KeepsWait(h) /\ attempt'[h].port = attempt[h].port
           /\ attempt'[h].outcome = attempt[h].outcome
           /\ attempt'[h].pc = IF options.fixed THEN "health" ELSE "port"
           /\ attempt'[h].own = s /\ attempt'[h].file = NameOf(h)
           /\ NameOf(h) \in Names \cup {NoName} /\ (~options.fixed => NameOf(h) \in Names)
<1>1. NameOf(h) \in Names \cup {NoName} /\ (~options.fixed => NameOf(h) \in Names)
  BY DEF NameOf, AutoTypes
<1> DEFINE pc == IF options.fixed THEN "health" ELSE "port"
           b == [attempt[h] EXCEPT !.pc = pc, !.own = s, !.file = NameOf(h)]
<1>2. attempt' = [attempt EXCEPT ![h] = b]
  BY DEF Spawn
<1>3. attempt[h] \in Attempts /\ pc \in {"health", "port"}
  BY DEF AutoTypes
<1> HIDE DEF pc
<1>4. /\ b \in Attempts /\ b.pc = pc /\ b.own = s /\ b.file = NameOf(h)
      /\ b.port = attempt[h].port /\ b.outcome = attempt[h].outcome
      /\ b.passes = attempt[h].passes /\ b.silent = attempt[h].silent
  BY <1>1, <1>3 DEF Attempts
<1> HIDE DEF b
<1> QED BY <1>1, <1>2, <1>4 DEF pc, AutoTypes, OthersStay, KeepsWait

\* A pass of a loop counts, and sees whether the service is serving.
LEMMA WaitChanges ==
    ASSUME AutoTypes, NEW h \in Hosts, WaitOn(h)
    PROVE  /\ OthersStay(h) /\ KeepsOwn(h) /\ attempt'[h].pc = attempt[h].pc
           /\ attempt'[h].port = attempt[h].port /\ attempt'[h].outcome = attempt[h].outcome
           /\ attempt'[h].passes = attempt[h].passes + 1
           /\ attempt'[h].silent = (service[attempt[h].own].state # "serving")
<1> DEFINE silent == service[attempt[h].own].state # "serving"
           passes == attempt[h].passes + 1
           b == [attempt[h] EXCEPT !.passes = passes, !.silent = silent]
<1>1. attempt[h] \in Attempts /\ silent \in BOOLEAN /\ passes \in Nat
  BY DEF AutoTypes, Attempts
<1>2. attempt' = [attempt EXCEPT ![h] = b]
  BY DEF WaitOn
<1> HIDE DEF silent, passes
<1>3. /\ b \in Attempts /\ b.pc = attempt[h].pc /\ b.port = attempt[h].port
      /\ b.outcome = attempt[h].outcome
      /\ b.file = attempt[h].file /\ b.own = attempt[h].own
      /\ b.passes = passes /\ b.silent = silent
  BY <1>1 DEF Attempts
<1> HIDE DEF b
<1> QED BY <1>2, <1>3 DEF silent, passes, AutoTypes, OthersStay, KeepsOwn

\* A port that is read is asked for its health.
LEMMA ReadChanges ==
    ASSUME AutoTypes, NEW h \in Hosts, NEW p \in Ports \cup {NoPort},
           attempt' = [attempt EXCEPT ![h].pc = "health", ![h].port = p]
    PROVE  /\ OthersStay(h) /\ KeepsOwn(h) /\ KeepsWait(h) /\ attempt'[h].outcome = attempt[h].outcome
           /\ attempt'[h].pc = "health" /\ attempt'[h].port = p
<1> DEFINE b == [attempt[h] EXCEPT !.pc = "health", !.port = p]
<1>1. attempt' = [attempt EXCEPT ![h] = b] /\ attempt[h] \in Attempts
  BY DEF AutoTypes
<1>2. /\ b \in Attempts /\ b.pc = "health" /\ b.port = p /\ b.outcome = attempt[h].outcome
      /\ b.file = attempt[h].file /\ b.own = attempt[h].own
      /\ b.passes = attempt[h].passes /\ b.silent = attempt[h].silent
  BY <1>1 DEF Attempts
<1> HIDE DEF b
<1>3. attempt'[h] = b
  BY <1>1 DEF AutoTypes
<1>4. \A k \in Hosts : k # h => attempt'[k] = attempt[k]
  BY <1>1 DEF AutoTypes
<1>5. attempt' \in [Hosts -> Attempts]
  BY <1>1, <1>2 DEF AutoTypes
<1> QED BY <1>2, <1>3, <1>4, <1>5 DEF OthersStay, KeepsOwn, KeepsWait

\* A name is taken only as long as there are any.
LEMMA TakingKeepsCounters ==
    ASSUME AutoTypes, NEW h \in Hosts, TakeName(h)
    PROVE  counter' \in [Hosts -> Names]
<1>1. \A n \in Names : n < MaxStarts => n + 1 \in Names
  BY AutostartAssumption DEF Names
<1> QED BY <1>1 DEF TakeName, AutoTypes

\* A process changes its own attempt, and the types of it.
LEMMA AttemptKeepsTypes ==
    ASSUME AutoTypes, NEW h \in Hosts, Begins(h) \/ AttemptStep(h) \/ HostEnds(h)
    PROVE  AutoTypes'
<1>0. /\ attempt[h].port \in Ports \cup {NoPort} /\ cached[h] \in Ports \cup {NoPort}
      /\ attempt[h].pc = "port" => attempt[h].file \in Names
  BY DEF AutoTypes, Attempts
<1>1. ASSUME OthersStay(h), attempt'[h].pc = "port" => attempt'[h].file \in Names,
             UNCHANGED crashes,
             service' \in [Services -> Records],
             portFile' = portFile \/ RemovePortFile(h),
             counter' = counter \/ TakeName(h),
             adopted' \in [Hosts -> SUBSET Services],
             cached' \in [Hosts -> Ports \cup {NoPort}]
      PROVE  AutoTypes'
  <2>1. portFile' \in [Names -> Ports \cup {NoPort}]
    BY <1>1 DEF RemovePortFile, AutoTypes
  <2>2. counter' \in [Hosts -> Names]
    BY <1>1, TakingKeepsCounters DEF AutoTypes
  <2> QED BY <1>1, <2>1, <2>2 DEF AutoTypes, OthersStay
<1>2. \A p \in Ports \cup {NoPort} :
        [cached EXCEPT ![h] = p] \in [Hosts -> Ports \cup {NoPort}]
  BY DEF AutoTypes
<1>3. /\ service \in [Services -> Records] /\ adopted \in [Hosts -> SUBSET Services]
      /\ cached \in [Hosts -> Ports \cup {NoPort}]
  BY DEF AutoTypes
<1>4. CASE Begins(h)
  <2>1. attempt'[h].pc # "port"
    BY <1>4, BeginChanges
  <2> QED BY <1>1, <1>3, <1>4, <2>1, BeginChanges DEF Begins, machineVars
<1>5. ASSUME NEW o \in {"impossible", "timeout"}, Fail(h, o), UNCHANGED <<service, crashes>>,
             counter' = counter \/ TakeName(h), portFile' = portFile \/ RemovePortFile(h)
      PROVE  AutoTypes'
  <2>1. cached' \in [Hosts -> Ports \cup {NoPort}]
    BY <1>2, <1>3, <1>5, FailureChanges
  <2> QED BY <1>1, <1>3, <1>5, <2>1, FailureChanges
<1>6. CASE CheckStatus(h)
  <2>1. UNCHANGED <<service, portFile, counter, crashes>>
    BY <1>6 DEF CheckStatus, machineVars
  <2>2. CASE Answers(attempt[h].port)
    <3>1. Succeed(h, attempt[h].port) /\ cached' = cached
      BY <1>6, <2>2 DEF CheckStatus
    <3>2. OthersStay(h) /\ attempt'[h].pc = "idle" /\ adopted' \in [Hosts -> SUBSET Services]
      BY <1>0, <3>1, SuccessChanges
    <3> QED BY <1>1, <1>3, <2>1, <3>1, <3>2
  <2>3. CASE ~Answers(attempt[h].port)
    <3>1. cached' \in [Hosts -> Ports \cup {NoPort}]
      BY <1>2, <1>3, <1>6, <2>3, SilenceChanges
    <3> QED BY <1>1, <1>3, <1>6, <2>1, <2>3, <3>1, SilenceChanges
  <2> QED BY <2>2, <2>3
<1>7. CASE LaunchImpossible(h) \/ SpawnFails(h)
  BY <1>5, <1>7 DEF LaunchImpossible, SpawnFails, machineVars
<1>8. ASSUME NEW s \in Services, Spawn(h, s) PROVE AutoTypes'
  <2>1. service' \in [Services -> Records]
    <3>1. [state |-> "starting", file |-> NameOf(h),
           port |-> IF options.fixed THEN FixedPort ELSE s] \in Records
      BY <1>8, SpawnChanges DEF Records, States, Ports
    <3> QED BY <1>3, <1>8, <3>1 DEF Spawn
  <2>2. TakeName(h) /\ UNCHANGED <<portFile, cached, adopted, crashes>>
    BY <1>8 DEF Spawn
  <2>3. OthersStay(h) /\ (attempt'[h].pc = "port" => attempt'[h].file \in Names)
    BY <1>8, SpawnChanges
  <2> QED BY <1>1, <1>3, <2>1, <2>2, <2>3
<1>9. ASSUME WaitOn(h), UNCHANGED <<service, counter, crashes>> PROVE AutoTypes'
  <2>1. OthersStay(h) /\ attempt'[h].pc = attempt[h].pc /\ attempt'[h].file = attempt[h].file
    BY <1>9, WaitChanges DEF KeepsOwn
  <2>2. UNCHANGED <<portFile, cached, adopted>>
    BY <1>9 DEF WaitOn
  <2> QED BY <1>0, <1>1, <1>3, <1>9, <2>1, <2>2
<1>10. CASE ReadPortFile(h)
  <2>1. UNCHANGED <<service, counter, crashes>> /\ attempt[h].pc = "port"
    BY <1>10 DEF ReadPortFile
  <2>2. PortRead(h) \in Ports \cup {NoPort}
    BY <1>0, <2>1 DEF PortRead, AutoTypes
  <2>3. CASE /\ attempt' = [attempt EXCEPT ![h].pc = "health", ![h].port = PortRead(h)]
             /\ UNCHANGED <<portFile, cached, adopted>>
    BY <1>1, <1>3, <2>1, <2>2, <2>3, ReadChanges
  <2> QED BY <1>5, <1>9, <1>10, <2>1, <2>3 DEF ReadPortFile
<1>11. CASE CheckHealth(h)
  <2>1. UNCHANGED <<service, counter, crashes>>
    BY <1>11 DEF CheckHealth
  <2>2. CASE Succeed(h, attempt[h].port) /\ RemovePortFile(h) /\ Remember(h, attempt[h].port)
    <3>1. OthersStay(h) /\ attempt'[h].pc = "idle" /\ adopted' \in [Hosts -> SUBSET Services]
      BY <1>0, <2>2, SuccessChanges
    <3>2. cached' \in [Hosts -> Ports \cup {NoPort}]
      BY <1>0, <1>2, <1>3, <2>2 DEF Remember
    <3> QED BY <1>1, <1>3, <2>1, <2>2, <3>1, <3>2
  <2> QED BY <1>5, <1>9, <1>11, <2>1, <2>2 DEF CheckHealth
<1>12. CASE HostEnds(h)
  <2>1. 0 \in Names
    BY AutostartAssumption DEF Names
  <2>2. Idle \in Attempts /\ Idle.pc # "port"
    BY IdleIsAttempt DEF Idle
  <2> QED BY <1>12, <2>1, <2>2 DEF HostEnds, machineVars, AutoTypes
<1> QED BY <1>4, <1>6, <1>7, <1>8, <1>10, <1>11, <1>12 DEF AttemptStep

\* What a service does to itself and to the file of its port.
LEMMA ServiceKeepsTypes ==
    ASSUME AutoTypes, NEW s \in Services, ServiceStep(s)
    PROVE  AutoTypes'
<1>1. UNCHANGED <<hostVars, crashes>>
  BY DEF ServiceStep, Publish, Serve, ServiceDies
<1>2. \E x \in States : service' = [service EXCEPT ![s].state = x]
  BY DEF ServiceStep, Publish, Serve, ServiceDies, States
<1>3. service' \in [Services -> Records]
  BY <1>2 DEF AutoTypes, Records
<1>4. portFile' \in [Names -> Ports \cup {NoPort}]
  <2>1. \/ portFile' = portFile
        \/ portFile' = [portFile EXCEPT ![service[s].file] = service[s].port]
    BY DEF ServiceStep, Publish, Serve, ServiceDies
  <2>2. service[s].port \in Ports \cup {NoPort}
    BY DEF AutoTypes, Records
  <2> QED BY <2>1, <2>2 DEF AutoTypes
<1> QED BY <1>1, <1>3, <1>4 DEF hostVars, AutoTypes

\* The types are kept.
LEMMA AutoTypesKept == AutoTypes /\ [AutostartNext]_autostartVars => AutoTypes'
<1> SUFFICES ASSUME AutoTypes, [AutostartNext]_autostartVars PROVE AutoTypes'
  OBVIOUS
<1>1. CASE UNCHANGED autostartVars
  BY <1>1 DEF autostartVars, machineVars, hostVars, AutoTypes
<1> QED BY <1>1, AttemptKeepsTypes, ServiceKeepsTypes DEF AutostartNext

-----------------------------------------------------------------------------
(* What the services and the files of their ports say.                     *)

\* A service listens at the port it was started with, no two at one port, and
\* what a port file says was told by a service of that name.
MachineInv ==
    /\ \A s \in Services :
         /\ service[s].state = "none" => service[s].file = NoName
         /\ service[s].state # "none" => service[s].port = IF options.fixed THEN FixedPort ELSE s
    /\ \A r, s \in Services :
         /\ service[r].state \in Bound /\ service[s].state \in Bound
         /\ service[r].port = service[s].port
         => r = s
    /\ \A n \in Names : portFile[n] # NoPort =>
         \E s \in Services : /\ service[s].file = n /\ service[s].port = portFile[n]
                             /\ service[s].state \notin {"none", "starting"}

\* A process waits for a service that it has started itself.
OwnInv ==
    /\ \A h \in Hosts :
         LET a == attempt[h] IN
         /\ a.own # NoService => service[a.own].state # "none" /\ service[a.own].file = a.file
         /\ a.own = NoService => a.file = NoName /\ a.pc \notin {"port", "health"}
                                 /\ a.outcome # "timeout"
         /\ a.pc \in {"status", "launch"} => a.own = NoService /\ a.passes = 0
         /\ a.pc # "idle" => a.outcome = "none"
         /\ a.pc = "port" => ~options.fixed
         /\ a.pc # "idle" /\ options.fixed => a.port = FixedPort
    /\ \A h, k \in Hosts :
         attempt[h].own = attempt[k].own /\ attempt[h].own # NoService => h = k

\* As long as nobody else has used the name, the port file says what the
\* service told, and so does the port the process asks.
WaitInv(h) ==
    LET a == attempt[h]
        c == service[a.own]
    IN  ~NameIsShared(h) =>
          /\ a.pc = "port" /\ c.state \in Bound => portFile[a.file] = c.port
          /\ a.pc = "health" => a.port = c.port /\ (a.file # NoName => c.state # "starting")
          /\ a.pc \in {"port", "health"} /\ a.passes > 0 => a.silent
          /\ a.outcome = "timeout" => a.silent
          /\ a.outcome = "ready" /\ a.file # NoName =>
               portFile[a.file] = NoPort /\ c.state # "starting"

\* What a process uses and is alive listens at the port it would try first; it
\* starts a service only when nothing of that is left.
UseInv(h) ==
    /\ \A s \in adopted[h] :
         \/ service[s].state = "dead"
         \/ service[s].state = "serving" /\ service[s].port = PortToTry(h)
    /\ attempt[h].pc = "status" => attempt[h].port = PortToTry(h)
    /\ attempt[h].pc \in {"launch", "port", "health"} => \A s \in adopted[h] : service[s].state = "dead"

AutoInv == MachineInv /\ OwnInv /\ \A h \in Hosts : WaitInv(h) /\ UseInv(h)

\* Whatever happens to a service, it keeps its name and its port.
Ages ==
    \A s \in Services :
      /\ service[s].state # "none" =>
           /\ service'[s].file = service[s].file /\ service'[s].port = service[s].port
           /\ service'[s].state # "none"
      /\ service[s].state \notin {"none", "starting"} => service'[s].state # "starting"

\* The steps of a service.
LEMMA ServiceChanges ==
    ASSUME AutoTypes, NEW s \in Services, ServiceStep(s)
    PROVE  /\ UNCHANGED <<options, counter, cached, attempt, adopted, crashes>>
           /\ \A r \in Services : r # s => service'[r] = service[r]
           /\ service'[s].file = service[s].file /\ service'[s].port = service[s].port
           /\ service[s].state # "none"
           /\ \/ service'[s].state = "dead" /\ portFile' = portFile
              \/ /\ service[s].state = "loading" /\ service'[s].state = "serving"
                 /\ portFile' = portFile
              \/ /\ service[s].state = "starting" /\ service'[s].state = "loading"
                 /\ BoundTo(service[s].port) = {}
                 /\ portFile' = IF service[s].file = NoName THEN portFile
                                ELSE [portFile EXCEPT ![service[s].file] = service[s].port]
<1>1. UNCHANGED <<options, counter, cached, attempt, adopted, crashes>>
  BY DEF ServiceStep, Publish, Serve, ServiceDies, hostVars
<1>2. service \in [Services -> Records] /\ service[s] \in Records
  BY DEF AutoTypes
<1>3. CASE Publish(s)
  BY <1>1, <1>2, <1>3 DEF Publish, Records
<1>4. CASE Serve(s)
  BY <1>1, <1>2, <1>4 DEF Serve, Records
<1>5. CASE ServiceDies(s)
  BY <1>1, <1>2, <1>5 DEF ServiceDies, Alive, Records
<1> QED BY <1>3, <1>4, <1>5 DEF ServiceStep

\* A service ages.
LEMMA ServiceStepAges ==
    ASSUME AutoTypes, NEW s \in Services, ServiceStep(s)
    PROVE  Ages
BY ServiceChanges DEF Ages

\* Nobody binds a port that is bound, and a file is told by a service of its name.
LEMMA ServiceKeepsMachine ==
    ASSUME AutoTypes, MachineInv, NEW s \in Services, ServiceStep(s)
    PROVE  MachineInv'
<1>1. options' = options /\ Ages
  BY ServiceChanges, ServiceStepAges
<1>2. \A r \in Services :
        /\ service'[r].state = "none" => service'[r].file = NoName
        /\ service'[r].state # "none" => service'[r].port = IF options'.fixed THEN FixedPort ELSE r
  BY <1>1, ServiceChanges DEF MachineInv
<1>3. ASSUME NEW r \in Services, NEW q \in Services, service'[r].state \in Bound,
             service'[q].state \in Bound, service'[r].port = service'[q].port
      PROVE  r = q
  <2>1. \A u \in Services : u # s => (service'[u].state \in Bound <=> service[u].state \in Bound)
                                     /\ service'[u].port = service[u].port
    BY ServiceChanges
  <2>2. CASE service[s].state = "starting" /\ service'[s].state = "loading"
    <3>1. \A u \in Services : service[u].state \in Bound => service[u].port # service[s].port
      BY <2>2, ServiceChanges DEF BoundTo, Bound
    <3> QED BY <1>3, <2>1, <3>1, ServiceChanges DEF MachineInv
  <2>3. CASE ~(service[s].state = "starting" /\ service'[s].state = "loading")
    <3>1. service'[s].state \in Bound => service[s].state \in Bound
      BY <2>3, ServiceChanges DEF Bound
    <3> QED BY <1>3, <2>1, <3>1, ServiceChanges DEF MachineInv
  <2> QED BY <2>2, <2>3
<1>4. ASSUME NEW n \in Names, portFile'[n] # NoPort
      PROVE  \E r \in Services : /\ service'[r].file = n /\ service'[r].port = portFile'[n]
                                 /\ service'[r].state \notin {"none", "starting"}
  <2>1. CASE portFile'[n] = portFile[n]
    <3>1. PICK r \in Services : /\ service[r].file = n /\ service[r].port = portFile[n]
                                /\ service[r].state \notin {"none", "starting"}
      BY <1>4, <2>1 DEF MachineInv
    <3> QED BY <1>1, <2>1, <3>1 DEF Ages
  <2>2. CASE portFile'[n] # portFile[n]
    <3>1. /\ service'[s].state = "loading" /\ service[s].file = n
          /\ portFile'[n] = service[s].port
      BY <1>4, <2>2, ServiceChanges DEF AutoTypes
    <3> QED BY <3>1, ServiceChanges
  <2> QED BY <2>1, <2>2
<1> QED BY <1>2, <1>3, <1>4 DEF MachineInv

\* What a service that is started is.
LEMMA SpawnedChanges ==
    ASSUME AutoTypes, MachineInv, NEW h \in Hosts, NEW s \in Services, Spawn(h, s)
    PROVE  /\ service[s].state = "none" /\ service'[s].state = "starting"
           /\ service'[s].file = NameOf(h)
           /\ service'[s].port = IF options.fixed THEN FixedPort ELSE s
           /\ \A r \in Services : r # s => service'[r] = service[r]
           /\ UNCHANGED <<options, portFile, cached, adopted, crashes>>
           /\ Ages /\ MachineInv'
<1> DEFINE new == [state |-> "starting", file |-> NameOf(h),
                   port |-> IF options.fixed THEN FixedPort ELSE s]
<1>1. /\ service[s].state = "none" /\ service' = [service EXCEPT ![s] = new]
      /\ UNCHANGED <<options, portFile, cached, adopted, crashes>>
  BY DEF Spawn
<1>2. /\ new.state = "starting" /\ new.file = NameOf(h)
      /\ new.port = IF options.fixed THEN FixedPort ELSE s
  OBVIOUS
<1> HIDE DEF new
<1>3. service'[s] = new /\ \A r \in Services : r # s => service'[r] = service[r]
  BY <1>1 DEF AutoTypes
<1>4. Ages
  BY <1>1, <1>3 DEF Ages
<1>5. MachineInv'
  <2>1. \A r \in Services :
          /\ service'[r].state = "none" => service'[r].file = NoName
          /\ service'[r].state # "none" => service'[r].port = IF options'.fixed THEN FixedPort ELSE r
    BY <1>1, <1>2, <1>3 DEF MachineInv
  <2>2. \A r, q \in Services :
          /\ service'[r].state \in Bound /\ service'[q].state \in Bound
          /\ service'[r].port = service'[q].port
          => r = q
    BY <1>1, <1>2, <1>3 DEF MachineInv, Bound
  <2>3. \A n \in Names : portFile'[n] # NoPort =>
          \E r \in Services : /\ service'[r].file = n /\ service'[r].port = portFile'[n]
                              /\ service'[r].state \notin {"none", "starting"}
    BY <1>1, <1>3 DEF MachineInv
  <2> QED BY <2>1, <2>2, <2>3 DEF MachineInv
<1> QED BY <1>1, <1>2, <1>3, <1>4, <1>5

\* A file that is removed says nothing.
LEMMA RemovalKeepsMachine ==
    ASSUME AutoTypes, MachineInv, NEW h \in Hosts, UNCHANGED <<options, service>>,
           portFile' = portFile \/ RemovePortFile(h)
    PROVE  MachineInv'
<1>1. \A n \in Names : portFile'[n] # NoPort => portFile'[n] = portFile[n]
  BY DEF RemovePortFile, AutoTypes
<1> QED BY <1>1 DEF MachineInv

-----------------------------------------------------------------------------
(* The waiting.                                                            *)

\* A name that is shared stays so for as long as the process waits under it.
LEMMA NamesStayShared ==
    ASSUME MachineInv, Ages, NEW h \in Hosts, KeepsOwn(h), NameIsShared(h)
    PROVE  NameIsShared(h)'
<1>1. PICK s \in Services \ {attempt[h].own} :
        attempt[h].file # NoName /\ service[s].file = attempt[h].file
  BY DEF NameIsShared
<1>2. service'[s].file = service[s].file
  BY <1>1 DEF MachineInv, Ages
<1> QED BY <1>1, <1>2 DEF NameIsShared, KeepsOwn

\* An attempt that does not move keeps what it waits for, when nobody else
\* touches its port file and its own service tells its port.
LEMMA WaitStays ==
    ASSUME AutoTypes, MachineInv, OwnInv, Ages, NEW h \in Hosts, WaitInv(h),
           attempt'[h] = attempt[h],
           ASSUME ~NameIsShared(h)', attempt[h].file # NoName
           PROVE  LET own == attempt[h].own
                  IN  \/ portFile'[attempt[h].file] = portFile[attempt[h].file]
                         /\ (service'[own].state \in Bound => service[own].state \in Bound)
                      \/ portFile'[attempt[h].file] = service[own].port
                         /\ service[own].state = "starting"
    PROVE  WaitInv(h)'
<1> DEFINE a == attempt[h]
           own == a.own
<1>1. SUFFICES ASSUME ~NameIsShared(h)'
               PROVE  /\ a.pc = "port" /\ service'[own].state \in Bound
                           => portFile'[a.file] = service'[own].port
                      /\ a.pc = "health" => a.port = service'[own].port
                                            /\ (a.file # NoName => service'[own].state # "starting")
                      /\ a.pc \in {"port", "health"} /\ a.passes > 0 => a.silent
                      /\ a.outcome = "timeout" => a.silent
                      /\ a.outcome = "ready" /\ a.file # NoName =>
                           portFile'[a.file] = NoPort /\ service'[own].state # "starting"
  BY DEF WaitInv
<1>2. ~NameIsShared(h)
  BY <1>1, NamesStayShared DEF KeepsOwn
<1>3. a \in Attempts /\ NoService \notin Services
  BY AutostartAssumption DEF AutoTypes
<1>4. own # NoService => /\ own \in Services /\ service[own].state # "none"
                         /\ service'[own].file = service[own].file
                         /\ service'[own].port = service[own].port
                         /\ service[own].state # "starting" => service'[own].state # "starting"
  BY <1>3 DEF OwnInv, Attempts, Ages
<1>5. /\ a.pc \in {"port", "health"} => own # NoService
      /\ a.file # NoName => own # NoService
  BY DEF OwnInv
<1>6. a.pc = "port" => a.file # NoName
  BY AutostartAssumption DEF AutoTypes, Names, NoName
<1>7. a.pc = "port" /\ service'[own].state \in Bound => portFile'[a.file] = service'[own].port
  <2> SUFFICES ASSUME a.pc = "port", service'[own].state \in Bound
               PROVE  portFile'[a.file] = service'[own].port
    OBVIOUS
  <2>1. own # NoService /\ a.file # NoName
    BY <1>5, <1>6
  <2>2. CASE portFile'[a.file] = service[own].port
    BY <1>4, <2>1, <2>2
  <2>3. CASE portFile'[a.file] # service[own].port
    <3>1. portFile'[a.file] = portFile[a.file] /\ service[own].state \in Bound
      BY <1>1, <2>1, <2>3
    <3> QED BY <1>2, <1>4, <2>1, <3>1 DEF WaitInv
  <2> QED BY <2>2, <2>3
<1>8. a.pc = "health" => a.port = service'[own].port
                         /\ (a.file # NoName => service'[own].state # "starting")
  BY <1>2, <1>4, <1>5 DEF WaitInv
<1>9. a.outcome = "ready" /\ a.file # NoName =>
        portFile'[a.file] = NoPort /\ service'[own].state # "starting"
  BY <1>1, <1>2, <1>4, <1>5 DEF WaitInv
<1> QED BY <1>2, <1>7, <1>8, <1>9 DEF WaitInv

\* Services keep what the processes wait for.
LEMMA ServiceKeepsOwn ==
    ASSUME AutoTypes, MachineInv, OwnInv, NEW s \in Services, ServiceStep(s)
    PROVE  OwnInv' /\ \A h \in Hosts : WaitInv(h) => WaitInv(h)'
<1>1. Ages /\ options' = options /\ attempt' = attempt
  BY ServiceChanges, ServiceStepAges
<1>2. OwnInv'
  BY <1>1 DEF OwnInv, Ages, AutoTypes, Attempts
<1>3. ASSUME NEW h \in Hosts, WaitInv(h) PROVE WaitInv(h)'
  <2> DEFINE a == attempt[h]
             own == a.own
  <2>1. ASSUME ~NameIsShared(h)', a.file # NoName
        PROVE  \/ portFile'[a.file] = portFile[a.file]
                  /\ (service'[own].state \in Bound => service[own].state \in Bound)
               \/ portFile'[a.file] = service[own].port /\ service[own].state = "starting"
    <3>1. \A r \in Services : r # own => service'[r].file # a.file
      BY <1>1, <2>1 DEF NameIsShared
    <3>2. a.file \in Names /\ own \in Services
      BY <2>1 DEF AutoTypes, Attempts, OwnInv
    <3>3. CASE s # own
      <4>1. service[s].file # a.file
        BY <3>1, <3>3, ServiceChanges
      <4>2. portFile'[a.file] = portFile[a.file]
        BY <3>2, <4>1, ServiceChanges DEF AutoTypes
      <4> QED BY <3>2, <3>3, <4>2, ServiceChanges
    <3>4. CASE s = own
      <4>1. service[s].file = a.file
        BY <3>2, <3>4, AutostartAssumption DEF OwnInv
      <4> QED BY <2>1, <3>2, <3>4, <4>1, ServiceChanges DEF AutoTypes, Bound
    <3> QED BY <3>3, <3>4
  <2> QED BY <1>1, <1>3, <2>1, WaitStays
<1> QED BY <1>2, <1>3

\* A process that only moves its attempt, with the service it has started, keeps
\* the others waiting for theirs.
LEMMA MovingKeepsOthers ==
    ASSUME AutoTypes, MachineInv, OwnInv, NEW h \in Hosts, OthersStay(h),
           UNCHANGED <<options, service>>, portFile' = portFile \/ RemovePortFile(h),
           NEW k \in Hosts, k # h, WaitInv(k)
    PROVE  WaitInv(k)'
<1>1. attempt'[k] = attempt[k] /\ Ages
  BY DEF OthersStay, Ages
<1>2. ASSUME ~NameIsShared(k)', attempt[k].file # NoName
      PROVE  portFile'[attempt[k].file] = portFile[attempt[k].file]
  <2>1. /\ attempt[k].file \in Names /\ attempt[k].own \in Services
        /\ attempt[h] \in Attempts
    BY <1>2 DEF AutoTypes, Attempts, OwnInv
  <2>2. CASE attempt[h].file = attempt[k].file
    <3>1. attempt[h].own \in Services \ {attempt[k].own}
      BY <1>2, <2>1, <2>2 DEF OwnInv, Attempts
    <3>2. service[attempt[h].own].file = attempt[h].file
      BY <3>1, AutostartAssumption DEF OwnInv
    <3> QED BY <1>1, <1>2, <2>2, <3>1, <3>2 DEF NameIsShared
  <2>3. CASE attempt[h].file # attempt[k].file
    BY <2>1, <2>3 DEF RemovePortFile, AutoTypes
  <2> QED BY <2>2, <2>3
<1> QED BY <1>1, <1>2, WaitStays

\* So does one that starts a service.
LEMMA SpawningKeepsOthers ==
    ASSUME AutoTypes, MachineInv, OwnInv, NEW h \in Hosts, NEW s \in Services, Spawn(h, s),
           NEW k \in Hosts, k # h, WaitInv(k)
    PROVE  WaitInv(k)'
<1>1. attempt'[k] = attempt[k] /\ Ages /\ UNCHANGED portFile
  BY SpawnChanges, SpawnedChanges DEF OthersStay
<1>2. ASSUME attempt[k].file # NoName
      PROVE  service'[attempt[k].own] = service[attempt[k].own]
  <2>1. attempt[k].own \in Services /\ service[attempt[k].own].state # "none"
    BY <1>2 DEF AutoTypes, Attempts, OwnInv
  <2> QED BY <2>1, SpawnedChanges
<1> QED BY <1>1, <1>2, WaitStays

\* What there is to show of a process that waits for the same service.
LEMMA OwnMoves ==
    ASSUME AutoTypes, OwnInv, NEW h \in Hosts, OthersStay(h), KeepsOwn(h),
           UNCHANGED <<options, service>>,
           attempt'[h].pc \in {"idle", "status", "launch"}
             \/ attempt[h].pc \in {"port", "health"},
           attempt'[h].pc = "launch" => attempt[h].pc = "status" /\ attempt'[h].passes = attempt[h].passes,
           attempt'[h].pc # "status",
           attempt'[h].pc # "idle" => attempt'[h].outcome = attempt[h].outcome /\ attempt[h].pc # "idle",
           attempt'[h].pc = "port" => attempt[h].pc = "port",
           attempt'[h].outcome = "timeout" => attempt[h].pc \in {"port", "health"},
           options.fixed /\ attempt'[h].pc # "idle" => attempt'[h].port = attempt[h].port
    PROVE  OwnInv'
<1>1. ASSUME NEW k \in Hosts
      PROVE  LET a == attempt'[k]
             IN  /\ a.own # NoService => service'[a.own].state # "none" /\ service'[a.own].file = a.file
                 /\ a.own = NoService => a.file = NoName /\ a.pc \notin {"port", "health"}
                                         /\ a.outcome # "timeout"
                 /\ a.pc \in {"status", "launch"} => a.own = NoService /\ a.passes = 0
                 /\ a.pc # "idle" => a.outcome = "none"
                 /\ a.pc = "port" => ~options'.fixed
                 /\ a.pc # "idle" /\ options'.fixed => a.port = FixedPort
  <2>1. CASE k # h
    BY <2>1 DEF OwnInv, OthersStay
  <2>2. CASE k = h
    BY <2>2 DEF OwnInv, KeepsOwn
  <2> QED BY <2>1, <2>2
<1>2. \A k, j \in Hosts :
        attempt'[k].own = attempt'[j].own /\ attempt'[k].own # NoService => k = j
  BY DEF OwnInv, OthersStay, KeepsOwn
<1> QED BY <1>1, <1>2 DEF OwnInv

\* A process that waits for no service of its own yet, or no longer.
LEMMA OwnBegins ==
    ASSUME AutoTypes, MachineInv, OwnInv, NEW h \in Hosts, OthersStay(h),
           UNCHANGED <<options, service>>, portFile' = portFile,
           attempt'[h].own = NoService, attempt'[h].file = NoName, attempt'[h].passes = 0,
           attempt'[h].outcome = "none", attempt'[h].pc \in {"idle", "status", "launch"},
           options.fixed /\ attempt'[h].pc # "idle" => attempt'[h].port = FixedPort,
           \A k \in Hosts : WaitInv(k)
    PROVE  OwnInv' /\ \A k \in Hosts : WaitInv(k)'
<1>1. OwnInv'
  <2>1. \A k \in Hosts : k # h => attempt'[k] = attempt[k]
    BY DEF OthersStay
  <2> QED BY <2>1 DEF OwnInv
<1>2. WaitInv(h)'
  BY DEF WaitInv
<1>3. \A k \in Hosts : k # h => WaitInv(k)'
  BY MovingKeepsOthers
<1> QED BY <1>1, <1>2, <1>3

\* A start that ends without a service: the deadline has passed, and the last
\* look was at a service that did not serve, or there was nothing to wait for.
LEMMA FailingWaits ==
    ASSUME AutoTypes, MachineInv, OwnInv, NEW h \in Hosts, NEW o \in {"impossible", "timeout"},
           Fail(h, o), UNCHANGED <<options, service>>, portFile' = portFile \/ RemovePortFile(h),
           o = "timeout" => attempt[h].pc \in {"port", "health"} /\ ~InTime(h),
           \A k \in Hosts : WaitInv(k)
    PROVE  OwnInv' /\ \A k \in Hosts : WaitInv(k)'
<1>1. /\ OthersStay(h) /\ KeepsOwn(h) /\ KeepsWait(h)
      /\ attempt'[h].pc = "idle" /\ attempt'[h].outcome = o
  BY FailureChanges
<1>2. OwnInv'
  BY <1>1, OwnMoves
<1>3. ASSUME o = "timeout", ~NameIsShared(h) PROVE attempt[h].silent
  <2>1. attempt[h].passes > 0
    BY <1>3, AutostartAssumption DEF InTime, AutoTypes, Attempts
  <2> QED BY <1>3, <2>1 DEF WaitInv
<1>4. NameIsShared(h)' = NameIsShared(h)
  BY <1>1 DEF NameIsShared, KeepsOwn
<1>5. WaitInv(h)'
  BY <1>1, <1>3, <1>4 DEF WaitInv, KeepsWait
<1>6. \A k \in Hosts : k # h => WaitInv(k)'
  BY <1>1, MovingKeepsOthers
<1> QED BY <1>2, <1>5, <1>6

\* One that finds a service, at the first look or after it has started one.
LEMMA SucceedingWaits ==
    ASSUME AutoTypes, MachineInv, OwnInv, NEW h \in Hosts, Succeed(h, attempt[h].port),
           UNCHANGED <<options, service>>,
           \/ attempt[h].pc = "status" /\ portFile' = portFile
           \/ attempt[h].pc = "health" /\ RemovePortFile(h),
           \A k \in Hosts : WaitInv(k)
    PROVE  OwnInv' /\ \A k \in Hosts : WaitInv(k)'
<1>1. /\ OthersStay(h) /\ KeepsOwn(h) /\ KeepsWait(h)
      /\ attempt'[h].pc = "idle" /\ attempt'[h].outcome = "ready"
  BY SuccessChanges DEF AutoTypes, Attempts
<1>2. OwnInv'
  BY <1>1, OwnMoves
<1>3. NameIsShared(h)' = NameIsShared(h)
  BY <1>1 DEF NameIsShared, KeepsOwn
<1>4. ASSUME ~NameIsShared(h), attempt[h].file # NoName
      PROVE  portFile'[attempt[h].file] = NoPort /\ service[attempt[h].own].state # "starting"
  <2>1. attempt[h].pc = "health" /\ RemovePortFile(h)
    BY <1>4 DEF OwnInv
  <2>2. attempt[h].file \in Names
    BY <1>4 DEF AutoTypes, Attempts
  <2> QED BY <1>4, <2>1, <2>2 DEF RemovePortFile, AutoTypes, WaitInv
<1>5. WaitInv(h)'
  BY <1>1, <1>3, <1>4 DEF WaitInv, KeepsOwn
<1>6. \A k \in Hosts : k # h => WaitInv(k)'
  BY <1>1, MovingKeepsOthers
<1> QED BY <1>2, <1>5, <1>6

\* One that goes on waiting: it found no port in the file, or nobody answered.
LEMMA WaitingWaits ==
    ASSUME AutoTypes, MachineInv, OwnInv, NEW h \in Hosts, WaitOn(h), UNCHANGED <<options, service>>,
           \/ attempt[h].pc = "port" /\ PortRead(h) = NoPort
           \/ attempt[h].pc = "health" /\ ~Answers(attempt[h].port),
           \A k \in Hosts : WaitInv(k)
    PROVE  OwnInv' /\ \A k \in Hosts : WaitInv(k)'
<1>1. /\ OthersStay(h) /\ KeepsOwn(h) /\ attempt'[h].pc = attempt[h].pc
      /\ attempt'[h].port = attempt[h].port /\ attempt'[h].outcome = attempt[h].outcome
      /\ attempt'[h].silent = (service[attempt[h].own].state # "serving")
      /\ portFile' = portFile
  BY WaitChanges DEF WaitOn
<1>2. OwnInv'
  BY <1>1, OwnMoves DEF OwnInv
<1>3. NameIsShared(h)' = NameIsShared(h)
  BY <1>1 DEF NameIsShared, KeepsOwn
<1>4. attempt[h].own \in Services /\ service[attempt[h].own].state # "none"
  BY DEF OwnInv, AutoTypes, Attempts
<1>5. ASSUME ~NameIsShared(h) PROVE service[attempt[h].own].state # "serving"
  <2>1. CASE attempt[h].pc = "port" /\ PortRead(h) = NoPort
    <3>1. service[attempt[h].own].port # NoPort
      BY <1>4, AutostartAssumption DEF MachineInv
    <3> QED BY <1>5, <2>1, <3>1 DEF WaitInv, PortRead, Bound
  <2>2. CASE attempt[h].pc = "health" /\ ~Answers(attempt[h].port)
    <3>1. attempt[h].port = service[attempt[h].own].port
      BY <1>5, <2>2 DEF WaitInv
    <3> QED BY <1>4, <2>2, <3>1 DEF Answers, BoundTo
  <2> QED BY <2>1, <2>2
<1>6. attempt[h].outcome = "none"
  BY DEF OwnInv
<1>7. WaitInv(h)'
  BY <1>1, <1>3, <1>5, <1>6 DEF WaitInv, KeepsOwn
<1>8. \A k \in Hosts : k # h => WaitInv(k)'
  BY <1>1, MovingKeepsOthers
<1> QED BY <1>2, <1>7, <1>8

\* One that reads a port: nobody but its own service can have told it.
LEMMA ReadingWaits ==
    ASSUME AutoTypes, MachineInv, OwnInv, NEW h \in Hosts, attempt[h].pc = "port",
           PortRead(h) # NoPort,
           attempt' = [attempt EXCEPT ![h].pc = "health", ![h].port = PortRead(h)],
           UNCHANGED <<options, service, portFile>>,
           \A k \in Hosts : WaitInv(k)
    PROVE  OwnInv' /\ \A k \in Hosts : WaitInv(k)'
<1>0. attempt[h].file \in Names /\ attempt[h].own \in Services
  BY DEF AutoTypes, OwnInv, Attempts
<1>1. PortRead(h) \in Ports \cup {NoPort}
  BY <1>0 DEF PortRead, AutoTypes
<1>2. /\ OthersStay(h) /\ KeepsOwn(h) /\ KeepsWait(h) /\ attempt'[h].outcome = attempt[h].outcome
      /\ attempt'[h].pc = "health" /\ attempt'[h].port = PortRead(h)
  BY <1>1, ReadChanges
<1>3. OwnInv'
  BY <1>2, OwnMoves DEF OwnInv
<1>4. NameIsShared(h)' = NameIsShared(h)
  BY <1>2 DEF NameIsShared, KeepsOwn
<1>5. ASSUME ~NameIsShared(h)
      PROVE  /\ PortRead(h) = service[attempt[h].own].port
             /\ service[attempt[h].own].state # "starting"
  <2>1. PICK s \in Services : /\ service[s].file = attempt[h].file /\ service[s].port = PortRead(h)
                              /\ service[s].state # "starting"
    BY <1>0 DEF PortRead, MachineInv
  <2>2. s = attempt[h].own
    BY <1>0, <1>5, <2>1, AutostartAssumption DEF NameIsShared, Names, NoName
  <2> QED BY <2>1, <2>2
<1>6. attempt[h].outcome = "none"
  BY DEF OwnInv
<1>7. WaitInv(h)'
  BY <1>2, <1>4, <1>5, <1>6 DEF WaitInv, KeepsOwn, KeepsWait
<1>8. \A k \in Hosts : k # h => WaitInv(k)'
  BY <1>2, MovingKeepsOthers
<1> QED BY <1>3, <1>7, <1>8

\* One that starts a service, which nobody else waits for.
LEMMA SpawningWaits ==
    ASSUME AutoTypes, MachineInv, OwnInv, NEW h \in Hosts, NEW s \in Services, Spawn(h, s),
           \A k \in Hosts : WaitInv(k)
    PROVE  OwnInv' /\ \A k \in Hosts : WaitInv(k)'
<1>1. attempt[h].pc = "launch" /\ attempt[h].outcome = "none" /\ attempt[h].passes = 0
      /\ (options.fixed => attempt[h].port = FixedPort)
  BY DEF Spawn, OwnInv
<1>2. /\ OthersStay(h) /\ KeepsWait(h) /\ attempt'[h].port = attempt[h].port
      /\ attempt'[h].outcome = "none"
      /\ attempt'[h].pc = IF options.fixed THEN "health" ELSE "port"
      /\ attempt'[h].own = s /\ attempt'[h].file = NameOf(h) /\ (options.fixed => NameOf(h) = NoName)
  BY <1>1, SpawnChanges DEF NameOf
<1>3. /\ service[s].state = "none" /\ service'[s].state = "starting"
      /\ service'[s].file = NameOf(h)
      /\ service'[s].port = IF options.fixed THEN FixedPort ELSE s
      /\ \A r \in Services : r # s => service'[r] = service[r]
      /\ options' = options
  BY SpawnedChanges
<1>4. \A k \in Hosts : attempt[k].own # s /\ attempt[k].own \in Services \cup {NoService}
  BY <1>3, AutostartAssumption DEF OwnInv, AutoTypes, Attempts
<1>5. s # NoService
  BY AutostartAssumption
<1>6. OwnInv'
  <2>1. ASSUME NEW k \in Hosts
        PROVE  LET a == attempt'[k]
               IN  /\ a.own # NoService => service'[a.own].state # "none" /\ service'[a.own].file = a.file
                   /\ a.own = NoService => a.file = NoName /\ a.pc \notin {"port", "health"}
                                           /\ a.outcome # "timeout"
                   /\ a.pc \in {"status", "launch"} => a.own = NoService /\ a.passes = 0
                   /\ a.pc # "idle" => a.outcome = "none"
                   /\ a.pc = "port" => ~options'.fixed
                   /\ a.pc # "idle" /\ options'.fixed => a.port = FixedPort
    <3>1. CASE k = h
      BY <1>1, <1>2, <1>3, <1>5, <3>1
    <3>2. CASE k # h
      BY <1>2, <1>3, <1>4, <3>2 DEF OwnInv, OthersStay
    <3> QED BY <3>1, <3>2
  <2>2. \A k, j \in Hosts :
          attempt'[k].own = attempt'[j].own /\ attempt'[k].own # NoService => k = j
    BY <1>2, <1>4 DEF OwnInv, OthersStay
  <2> QED BY <2>1, <2>2 DEF OwnInv
<1>7. WaitInv(h)'
  BY <1>1, <1>2, <1>3 DEF WaitInv, KeepsWait, Bound
<1>8. \A k \in Hosts : k # h => WaitInv(k)'
  BY SpawningKeepsOthers
<1> QED BY <1>6, <1>7, <1>8

\* The steps of an attempt, one by one.
LEMMA HostKeepsOwn ==
    ASSUME AutoTypes, MachineInv, OwnInv, NEW h \in Hosts,
           Begins(h) \/ AttemptStep(h) \/ HostEnds(h),
           \A k \in Hosts : WaitInv(k)
    PROVE  MachineInv' /\ OwnInv' /\ \A k \in Hosts : WaitInv(k)'
<1>0. UNCHANGED <<options, service>> /\ (portFile' = portFile \/ RemovePortFile(h)) => MachineInv'
  BY RemovalKeepsMachine
<1>1. CASE Begins(h)
  <2>1. UNCHANGED <<options, service, portFile>>
    BY <1>1 DEF Begins, machineVars
  <2>2. options.fixed => attempt'[h].port = FixedPort
    BY <1>1, BeginChanges DEF PortToTry
  <2> QED BY <1>0, <1>1, <2>1, <2>2, BeginChanges, OwnBegins
<1>2. CASE HostEnds(h)
  <2>1. UNCHANGED <<options, service, portFile>>
    BY <1>2 DEF HostEnds, machineVars
  <2>2. attempt' = [attempt EXCEPT ![h] = Idle] /\ Idle \in Attempts
    BY <1>2, IdleIsAttempt DEF HostEnds
  <2>3. OthersStay(h) /\ attempt'[h] = Idle
    BY <2>2 DEF AutoTypes, OthersStay
  <2>4. /\ attempt'[h].own = NoService /\ attempt'[h].file = NoName /\ attempt'[h].passes = 0
        /\ attempt'[h].outcome = "none" /\ attempt'[h].pc = "idle"
    BY <2>3 DEF Idle
  <2> QED BY <1>0, <2>1, <2>3, <2>4, OwnBegins
<1>3. CASE CheckStatus(h)
  <2>1. UNCHANGED <<options, service, portFile>> /\ attempt[h].pc = "status"
    BY <1>3 DEF CheckStatus, machineVars
  <2>2. CASE Answers(attempt[h].port)
    <3>1. Succeed(h, attempt[h].port)
      BY <1>3, <2>2 DEF CheckStatus
    <3> QED BY <1>0, <2>1, <3>1, SucceedingWaits
  <2>3. CASE ~Answers(attempt[h].port)
    <3>1. /\ OthersStay(h) /\ KeepsOwn(h) /\ KeepsWait(h)
          /\ attempt'[h].outcome = attempt[h].outcome /\ attempt'[h].pc = "launch"
          /\ options.fixed => attempt'[h].port = attempt[h].port
      BY <1>3, <2>3, SilenceChanges
    <3>2. /\ attempt'[h].own = NoService /\ attempt'[h].file = NoName /\ attempt'[h].passes = 0
          /\ attempt'[h].outcome = "none" /\ (options.fixed => attempt'[h].port = FixedPort)
      BY <2>1, <3>1 DEF OwnInv, KeepsOwn, KeepsWait
    <3> QED BY <1>0, <2>1, <3>1, <3>2, OwnBegins
  <2> QED BY <2>2, <2>3
<1>4. CASE LaunchImpossible(h) \/ SpawnFails(h)
  <2>1. UNCHANGED <<options, service, portFile>> /\ Fail(h, "impossible")
    BY <1>4 DEF LaunchImpossible, SpawnFails, machineVars
  <2> QED BY <1>0, <2>1, FailingWaits
<1>5. ASSUME NEW s \in Services, Spawn(h, s)
      PROVE  MachineInv' /\ OwnInv' /\ \A k \in Hosts : WaitInv(k)'
  BY <1>5, SpawnedChanges, SpawningWaits
<1>6. CASE ReadPortFile(h)
  <2>1. UNCHANGED <<options, service>> /\ attempt[h].pc = "port"
    BY <1>6 DEF ReadPortFile
  <2>2. CASE /\ PortRead(h) # NoPort
             /\ attempt' = [attempt EXCEPT ![h].pc = "health", ![h].port = PortRead(h)]
             /\ UNCHANGED <<portFile, cached, adopted>>
    BY <1>0, <2>1, <2>2, ReadingWaits
  <2>3. CASE PortRead(h) = NoPort /\ WaitOn(h)
    <3>1. portFile' = portFile
      BY <2>3 DEF WaitOn
    <3> QED BY <1>0, <2>1, <2>3, <3>1, WaitingWaits
  <2>4. CASE ~InTime(h) /\ Fail(h, "timeout") /\ RemovePortFile(h)
    BY <1>0, <2>1, <2>4, FailingWaits
  <2> QED BY <1>6, <2>2, <2>3, <2>4 DEF ReadPortFile
<1>7. CASE CheckHealth(h)
  <2>1. UNCHANGED <<options, service>> /\ attempt[h].pc = "health"
    BY <1>7 DEF CheckHealth
  <2>2. CASE Succeed(h, attempt[h].port) /\ RemovePortFile(h)
    BY <1>0, <2>1, <2>2, SucceedingWaits
  <2>3. CASE ~Answers(attempt[h].port) /\ WaitOn(h)
    <3>1. portFile' = portFile
      BY <2>3 DEF WaitOn
    <3> QED BY <1>0, <2>1, <2>3, <3>1, WaitingWaits
  <2>4. CASE ~InTime(h) /\ Fail(h, "timeout") /\ RemovePortFile(h)
    BY <1>0, <2>1, <2>4, FailingWaits
  <2> QED BY <1>7, <2>2, <2>3, <2>4 DEF CheckHealth
<1> QED BY <1>1, <1>2, <1>3, <1>4, <1>5, <1>6, <1>7 DEF AttemptStep

-----------------------------------------------------------------------------
(* The services in use.                                                    *)

\* All that listens at a port where somebody answers is serving.
LEMMA ListenersServe ==
    ASSUME MachineInv, NEW p, Answers(p)
    PROVE  \A s \in BoundTo(p) : s \in Services /\ service[s].state = "serving" /\ service[s].port = p
BY DEF MachineInv, Answers, BoundTo, Bound

\* A process that looks at its own attempt only keeps what the others use.
LEMMA OthersUse ==
    ASSUME AutoTypes, NEW h \in Hosts, NEW k \in Hosts, k # h, OthersStay(h), UNCHANGED options,
           \/ service' = service
           \/ \E s \in Services : service[s].state = "none"
                /\ \A r \in Services : r # s => service'[r] = service[r],
           cached'[k] = cached[k], adopted'[k] = adopted[k], UseInv(k)
    PROVE  UseInv(k)'
<1>1. adopted[k] \subseteq Services
  BY DEF AutoTypes
<1>2. \A s \in adopted[k] : service'[s] = service[s]
  BY <1>1 DEF UseInv
<1> QED BY <1>2 DEF UseInv, OthersStay, PortToTry

\* A service that is in use does not change, but that it may die.
LEMMA ServicesStayUsed ==
    ASSUME AutoTypes, NEW s \in Services, ServiceStep(s), NEW h \in Hosts, UseInv(h)
    PROVE  UseInv(h)'
<1>1. adopted[h] \subseteq Services
  BY DEF AutoTypes
<1>2. UNCHANGED <<options, cached, attempt, adopted>>
  BY ServiceChanges
<1>3. ASSUME NEW r \in adopted[h]
      PROVE  \/ service'[r].state = "dead"
             \/ service'[r].state = service[r].state /\ service'[r].port = service[r].port
  <2>1. r \in Services /\ service[r].state \in {"dead", "serving"}
    BY <1>1 DEF UseInv
  <2> QED BY <2>1, ServiceChanges
<1> QED BY <1>2, <1>3 DEF UseInv, PortToTry

\* A process starts a service only when all it has used are dead, and tries the
\* port of the one it uses first.
LEMMA HostKeepsUse ==
    ASSUME AutoTypes, MachineInv, OwnInv, NEW h \in Hosts,
           Begins(h) \/ AttemptStep(h) \/ HostEnds(h),
           \A k \in Hosts : UseInv(k)
    PROVE  \A k \in Hosts : UseInv(k)'
<1>0. adopted[h] \subseteq Services /\ attempt[h] \in Attempts
  BY DEF AutoTypes
<1>1. ASSUME OthersStay(h), UNCHANGED options,
             \/ service' = service
             \/ \E s \in Services : service[s].state = "none"
                  /\ \A r \in Services : r # s => service'[r] = service[r],
             \A k \in Hosts : k # h => cached'[k] = cached[k] /\ adopted'[k] = adopted[k],
             UseInv(h)'
      PROVE  \A k \in Hosts : UseInv(k)'
  BY <1>1, OthersUse
<1>2. CASE Begins(h)
  <2>1. UNCHANGED <<options, service, cached, adopted>>
    BY <1>2 DEF Begins, machineVars
  <2>2. /\ attempt'[h].pc = IF PortToTry(h) = NoPort THEN "launch" ELSE "status"
        /\ attempt'[h].port = PortToTry(h) /\ OthersStay(h)
    BY <1>2, BeginChanges
  <2>3. PortToTry(h) = NoPort => \A s \in adopted[h] : service[s].state = "dead"
    BY <1>0, AutostartAssumption DEF UseInv, MachineInv
  <2>4. UseInv(h)'
    BY <2>1, <2>2, <2>3 DEF UseInv, PortToTry
  <2> QED BY <1>1, <2>1, <2>2, <2>4
<1>3. CASE HostEnds(h)
  <2>1. /\ UNCHANGED <<options, service>> /\ attempt' = [attempt EXCEPT ![h] = Idle]
        /\ adopted' = [adopted EXCEPT ![h] = {}] /\ cached' = [cached EXCEPT ![h] = NoPort]
    BY <1>3 DEF HostEnds, machineVars
  <2>2. /\ OthersStay(h) /\ attempt'[h] = Idle /\ Idle.pc = "idle" /\ adopted'[h] = {}
        /\ \A k \in Hosts : k # h => cached'[k] = cached[k] /\ adopted'[k] = adopted[k]
    BY <2>1, IdleIsAttempt DEF AutoTypes, OthersStay, Idle
  <2>3. UseInv(h)'
    BY <2>2 DEF UseInv
  <2> QED BY <1>1, <2>1, <2>2, <2>3
<1>4. ASSUME NEW o \in {"impossible", "timeout"}, Fail(h, o), UNCHANGED <<options, service>>,
             attempt[h].pc \in {"launch", "port", "health"}
      PROVE  \A k \in Hosts : UseInv(k)'
  <2>1. /\ OthersStay(h) /\ attempt'[h].pc = "idle" /\ adopted' = adopted
        /\ cached' = IF options.fixed THEN cached ELSE [cached EXCEPT ![h] = NoPort]
    BY <1>4, FailureChanges
  <2>2. \A k \in Hosts : k # h => cached'[k] = cached[k]
    BY <2>1
  <2>3. UseInv(h)'
    BY <1>4, <2>1 DEF UseInv
  <2> QED BY <1>1, <1>4, <2>1, <2>2, <2>3
<1>5. CASE CheckStatus(h)
  <2> DEFINE p == attempt[h].port
  <2>1. UNCHANGED <<options, service>> /\ attempt[h].pc = "status" /\ p = PortToTry(h)
    BY <1>5 DEF CheckStatus, machineVars, UseInv
  <2>2. CASE Answers(p)
    <3>1. Succeed(h, p) /\ cached' = cached
      BY <1>5, <2>2 DEF CheckStatus
    <3>2. /\ OthersStay(h) /\ attempt'[h].pc = "idle"
          /\ adopted' = [adopted EXCEPT ![h] = @ \cup BoundTo(p)]
      BY <1>0, <3>1, SuccessChanges DEF Attempts
    <3>3. /\ adopted'[h] = adopted[h] \cup BoundTo(p)
          /\ \A k \in Hosts : k # h => adopted'[k] = adopted[k]
      BY <3>2 DEF AutoTypes
    <3>4. \A s \in adopted'[h] : \/ service'[s].state = "dead"
                                 \/ service'[s].state = "serving" /\ service'[s].port = PortToTry(h)
      BY <2>1, <2>2, <3>3, ListenersServe DEF UseInv
    <3>5. UseInv(h)'
      BY <2>1, <3>1, <3>2, <3>4 DEF UseInv, PortToTry
    <3> QED BY <1>1, <2>1, <3>1, <3>2, <3>3, <3>5
  <2>3. CASE ~Answers(p)
    <3>1. /\ OthersStay(h) /\ attempt'[h].pc = "launch" /\ adopted' = adopted
          /\ cached' = IF options.fixed THEN cached ELSE [cached EXCEPT ![h] = NoPort]
      BY <1>5, <2>3, SilenceChanges
    <3>2. \A s \in adopted[h] : service[s].state = "dead"
      BY <1>0, <2>1, <2>3 DEF UseInv, Answers, BoundTo
    <3>3. UseInv(h)'
      BY <2>1, <3>1, <3>2 DEF UseInv
    <3>4. \A k \in Hosts : k # h => cached'[k] = cached[k]
      BY <3>1
    <3> QED BY <1>1, <2>1, <3>1, <3>3, <3>4
  <2> QED BY <2>2, <2>3
<1>6. CASE LaunchImpossible(h) \/ SpawnFails(h)
  BY <1>4, <1>6 DEF LaunchImpossible, SpawnFails, machineVars
<1>7. ASSUME NEW s \in Services, Spawn(h, s) PROVE \A k \in Hosts : UseInv(k)'
  <2>0. OthersStay(h) /\ attempt'[h].pc # "status"
    BY <1>7, SpawnChanges
  <2>1. /\ service[s].state = "none" /\ \A r \in Services : r # s => service'[r] = service[r]
        /\ UNCHANGED <<options, cached, adopted>> /\ OthersStay(h)
        /\ attempt'[h].pc # "status" /\ attempt[h].pc = "launch"
    <3>1. /\ service[s].state = "none" /\ \A r \in Services : r # s => service'[r] = service[r]
          /\ UNCHANGED <<options, cached, adopted>>
      BY <1>7, SpawnedChanges
    <3>2. attempt[h].pc = "launch"
      BY <1>7 DEF Spawn
    <3> QED BY <2>0, <3>1, <3>2
  <2>2. \A r \in adopted[h] : service[r].state = "dead" /\ service'[r] = service[r]
    BY <1>0, <2>1 DEF UseInv
  <2>3. UseInv(h)'
    BY <2>1, <2>2 DEF UseInv
  <2> QED BY <1>1, <2>1, <2>3
<1>8. ASSUME UNCHANGED <<options, service, cached, adopted>>, OthersStay(h),
             attempt'[h].pc # "status", attempt[h].pc \in {"port", "health"}
      PROVE  \A k \in Hosts : UseInv(k)'
  <2>1. UseInv(h)'
    BY <1>8 DEF UseInv
  <2> QED BY <1>1, <1>8, <2>1
<1>9. CASE ReadPortFile(h)
  <2>1. UNCHANGED <<options, service>> /\ attempt[h].pc = "port" /\ attempt[h].file \in Names
    BY <1>9 DEF ReadPortFile, AutoTypes
  <2>2. CASE /\ attempt' = [attempt EXCEPT ![h].pc = "health", ![h].port = PortRead(h)]
             /\ UNCHANGED <<portFile, cached, adopted>>
    <3>1. PortRead(h) \in Ports \cup {NoPort}
      BY <2>1 DEF PortRead, AutoTypes
    <3> QED BY <1>8, <2>1, <2>2, <3>1, ReadChanges
  <2>3. CASE WaitOn(h)
    <3>1. UNCHANGED <<cached, adopted>>
      BY <2>3 DEF WaitOn
    <3> QED BY <1>8, <2>1, <2>3, <3>1, WaitChanges
  <2>4. CASE Fail(h, "timeout")
    BY <1>4, <2>1, <2>4
  <2> QED BY <1>9, <2>2, <2>3, <2>4 DEF ReadPortFile
<1>10. CASE CheckHealth(h)
  <2> DEFINE p == attempt[h].port
  <2>1. UNCHANGED <<options, service>> /\ attempt[h].pc = "health"
    BY <1>10 DEF CheckHealth
  <2>2. CASE Answers(p) /\ Succeed(h, p) /\ Remember(h, p)
    <3>1. /\ OthersStay(h) /\ attempt'[h].pc = "idle"
          /\ adopted' = [adopted EXCEPT ![h] = @ \cup BoundTo(p)]
      BY <1>0, <2>2, SuccessChanges DEF Attempts
    <3>2. /\ adopted'[h] = adopted[h] \cup BoundTo(p)
          /\ \A k \in Hosts : k # h => adopted'[k] = adopted[k] /\ cached'[k] = cached[k]
      BY <2>2, <3>1 DEF AutoTypes, Remember
    <3>3. p = IF options.fixed THEN FixedPort ELSE cached'[h]
      BY <2>1, <2>2 DEF OwnInv, Remember, AutoTypes
    <3>4. \A s \in adopted'[h] : \/ service'[s].state = "dead"
                                 \/ service'[s].state = "serving" /\ service'[s].port = p
      BY <2>1, <2>2, <3>2, ListenersServe DEF UseInv
    <3>5. UseInv(h)'
      BY <2>1, <3>1, <3>3, <3>4 DEF UseInv, PortToTry
    <3> QED BY <1>1, <2>1, <3>1, <3>2, <3>5
  <2>3. CASE WaitOn(h)
    <3>1. UNCHANGED <<cached, adopted>>
      BY <2>3 DEF WaitOn
    <3> QED BY <1>8, <2>1, <2>3, <3>1, WaitChanges
  <2>4. CASE Fail(h, "timeout")
    BY <1>4, <2>1, <2>4
  <2> QED BY <1>10, <2>2, <2>3, <2>4 DEF CheckHealth
<1> QED BY <1>2, <1>3, <1>5, <1>6, <1>7, <1>9, <1>10 DEF AttemptStep

-----------------------------------------------------------------------------
(* The autostart keeps its promises.                                       *)

\* It holds of the processes as they begin.
LEMMA AutoInvBegins == AutostartInit => AutoInv
<1> SUFFICES ASSUME AutostartInit PROVE AutoInv
  OBVIOUS
<1>1. \A h \in Hosts : attempt[h] = Idle /\ adopted[h] = {}
  BY DEF AutostartInit
<1>2. \A s \in Services : service[s].state = "none" /\ service[s].file = NoName
  BY DEF AutostartInit
<1>3. \A n \in Names : portFile[n] = NoPort
  BY DEF AutostartInit
<1>4. MachineInv
  BY <1>2, <1>3 DEF MachineInv, Bound
<1>5. OwnInv
  BY <1>1 DEF OwnInv, Idle
<1>6. \A h \in Hosts : WaitInv(h) /\ UseInv(h)
  BY <1>1 DEF WaitInv, UseInv, Idle
<1> QED BY <1>4, <1>5, <1>6 DEF AutoInv

\* And of every step of theirs and of the services.
LEMMA AutoInvKept == AutoTypes /\ AutoInv /\ [AutostartNext]_autostartVars => AutoInv'
<1> SUFFICES ASSUME AutoTypes, AutoInv, [AutostartNext]_autostartVars PROVE AutoInv'
  OBVIOUS
<1>0. MachineInv /\ OwnInv /\ \A h \in Hosts : WaitInv(h) /\ UseInv(h)
  BY DEF AutoInv
<1>1. CASE UNCHANGED autostartVars
  BY <1>0, <1>1 DEF autostartVars, machineVars, hostVars, AutoInv, MachineInv, OwnInv, WaitInv,
                    UseInv, NameIsShared, PortToTry
<1>2. ASSUME NEW h \in Hosts, Begins(h) \/ AttemptStep(h) \/ HostEnds(h) PROVE AutoInv'
  BY <1>0, <1>2, HostKeepsOwn, HostKeepsUse DEF AutoInv
<1>3. ASSUME NEW s \in Services, ServiceStep(s) PROVE AutoInv'
  BY <1>0, <1>3, ServiceKeepsMachine, ServiceKeepsOwn, ServicesStayUsed DEF AutoInv
<1> QED BY <1>1, <1>2, <1>3 DEF AutostartNext

\* In every state of the backends the port files, the services and the attempts
\* fit together.
THEOREM AutostartInvariant == Spec => [](AutoTypes /\ AutoInv)
<1>1. Init => AutoTypes /\ AutoInv
  BY AutoTypesBegin, AutoInvBegins DEF Init
<1>2. AutoTypes /\ AutoInv /\ [Next]_vars => (AutoTypes /\ AutoInv)'
  BY StepsOfAutostart, AutoTypesKept, AutoInvKept
<1> QED BY <1>1, <1>2, PTL DEF Spec

\* StartDetachedPythonService gives up at the deadline only when the service it
\* started was not serving as it last looked, as long as no other process has
\* used the name of its port file.
THEOREM StartsGiveUpOnSilence == Spec => []GivesUpOnlyOnSilence
<1>1. AutoInv => GivesUpOnlyOnSilence
  BY DEF AutoInv, WaitInv, GivesUpOnlyOnSilence
<1> QED BY <1>1, AutostartInvariant, PTL

\* A process never has two services that it got to use alive at once.
THEOREM ProcessesUseOneService == Spec => []OneServiceInUse
<1>1. ASSUME AutoTypes, AutoInv PROVE OneServiceInUse
  <2> SUFFICES ASSUME NEW h \in Hosts PROVE Cardinality({ s \in adopted[h] : Alive(s) }) <= 1
    BY DEF OneServiceInUse
  <2> DEFINE alive == { s \in adopted[h] : Alive(s) }
  <2>1. \A s, r \in alive : s = r
    <3>1. \A s \in alive : s \in Services /\ service[s].state = "serving"
                           /\ service[s].port = PortToTry(h)
      BY <1>1 DEF AutoTypes, AutoInv, UseInv, Alive
    <3> QED BY <1>1, <3>1 DEF AutoInv, MachineInv, Bound
  <2> HIDE DEF alive
  <2>2. CASE alive = {}
    BY <2>2, FS_EmptySet DEF alive
  <2>3. ASSUME NEW s \in alive PROVE Cardinality(alive) <= 1
    <3>1. alive = {s}
      BY <2>1, <2>3
    <3> QED BY <3>1, FS_Singleton
  <2> QED BY <2>2, <2>3 DEF alive
<1> QED BY <1>1, AutostartInvariant, PTL

\* A start that succeeds leaves no port file behind, as long as no other process
\* has used its name.
THEOREM StartsRemoveTheirFile == Spec => []SuccessLeavesNoFile
<1>1. AutoInv => SuccessLeavesNoFile
  BY DEF AutoInv, WaitInv, SuccessLeavesNoFile
<1> QED BY <1>1, AutostartInvariant, PTL

-----------------------------------------------------------------------------
(* Runs.                                                                   *)

Targets == Ports \cup {NoPort, Endpoint, CommandTarget}
Depths == [frame : Frames \cup {NoFrame}, model : Models \cup {NoModel}, flaw : Flaws \cup {"none"}]
FileNames == Hosts \X Nat \X Nat
Backends == [ready : BOOLEAN, target : Targets, model : Models \cup {NoModel}]
RunRecords ==
    [pc : {"idle", "write", "send", "read", "decode"}, frame : Frames \cup {NoFrame},
     model : Models \cup {NoModel}, target : Targets, name : FileNames \cup {<<>>},
     reply : Depths, status : {"none", "failed", "done"}]
Files == [name : FileNames, kind : {"source", "request", "response"},
          frame : Frames \cup {NoFrame}, model : Models \cup {NoModel},
          flaw : Flaws \cup {"none"}]

RunTypes ==
    /\ backend \in [Hosts -> Backends]
    /\ run \in [Hosts -> RunRecords]
    /\ depth \in [Hosts -> Depths]
    /\ temp \subseteq Files
    /\ runs \in [Hosts -> Nat]

\* A file of the run has the run's frame or its model.
IsOfRun(t, r) ==
    /\ t.kind \in {"source", "response"} => t.frame = r.frame
    /\ t.kind \in {"request", "response"} => t.model = r.model

\* The files of a run are of its own names, and hold what it was given.
RunInv(h) ==
    LET r == run[h] IN
    /\ r.pc # "idle" => r.name \in FileNames /\ r.name[1] = h /\ r.status = "none"
    /\ r.pc \in {"write", "read"} => ~Binary(r)
    /\ (r.pc \in {"send", "read", "decode"} /\ ~Binary(r))
         => \A t \in temp : t.name = r.name => IsOfRun(t, r)
    /\ r.pc = "decode" => /\ r.reply.frame = r.frame /\ r.reply.model = r.model
                          /\ Binary(r) => r.reply.flaw # "refused"
    /\ r.status = "done" => /\ depth[h].frame = r.frame /\ depth[h].model = r.model
                            /\ depth[h].flaw = "none"
    /\ r.status # "done" => depth[h] = NoDepth

\* As long as nobody has crashed, the files of a process are those of its run.
FilesInv(h) ==
    crashes = 0 => \A t \in temp : t.name[1] = h => run[h].pc # "idle" /\ run[h].name = t.name

RunsInv == \A h \in Hosts : RunInv(h) /\ FilesInv(h)

\* Nobody changes the options.
LEMMA OptionsStay == [AutostartNext]_autostartVars => options' = options
<1>1. ASSUME NEW h \in Hosts, AttemptStep(h) PROVE options' = options
  BY <1>1 DEF AttemptStep, CheckStatus, LaunchImpossible, SpawnFails, Spawn, ReadPortFile, CheckHealth
<1>2. ASSUME NEW s \in Services, ServiceStep(s) PROVE options' = options
  BY <1>2 DEF ServiceStep, Publish, Serve, ServiceDies
<1> QED BY <1>1, <1>2 DEF AutostartNext, Begins, HostEnds, autostartVars

\* A step of h's run touches its own locals, its own buffer and its own files.
OnlyItsOwn(h) ==
    /\ \A k \in Hosts : k # h => run'[k] = run[k] /\ depth'[k] = depth[k]
    /\ \A t : t.name # run[h].name => (t \in temp' <=> t \in temp)
    /\ UNCHANGED <<options, crashes>>

\* So the runs of the others go on as they were.
LEMMA OtherRunsStay ==
    ASSUME RunTypes, NEW h \in Hosts, NEW k \in Hosts, k # h, RunInv(h), RunInv(k), FilesInv(k),
           OnlyItsOwn(h), temp' = temp \/ run[h].pc # "idle"
    PROVE  RunInv(k)' /\ FilesInv(k)'
<1>1. run'[k] = run[k] /\ depth'[k] = depth[k] /\ UNCHANGED <<options, crashes>>
  BY DEF OnlyItsOwn
<1>2. ASSUME NEW t \in temp', t.name[1] = k PROVE t \in temp
  BY <1>2 DEF OnlyItsOwn, RunInv
<1>3. ASSUME NEW t \in temp', t.name = run[k].name, run[k].pc # "idle" PROVE t \in temp
  BY <1>2, <1>3 DEF RunInv
<1>4. RunInv(k)'
  <2>1. Binary(run[k])' = Binary(run[k])
    BY <1>1 DEF Binary
  <2> QED BY <1>1, <1>3, <2>1 DEF RunInv, Binary
<1>5. FilesInv(k)'
  BY <1>1, <1>2 DEF FilesInv
<1> QED BY <1>4, <1>5

\* A depth buffer that was not written, and a run that is not one.
LEMMA NothingIsTyped ==
    /\ NoDepth \in Depths
    /\ NoRun.pc = "idle" /\ NoRun.status = "none"
    /\ NoBackend \in Backends
    /\ NoRun \in RunRecords
<1>1. NoDepth \in Depths
  BY DEF NoDepth, Depths
<1> QED BY <1>1 DEF NoRun, NoBackend, Targets, RunRecords, Backends

\* A step of a run: it stays in its own files, and keeps what it was given.
Advances(h) ==
    /\ run' \in [Hosts -> RunRecords] /\ depth' \in [Hosts -> Depths] /\ temp' \subseteq Files
    /\ OnlyItsOwn(h) /\ RunInv(h)' /\ FilesInv(h)'

\* A run that goes on with files that hold its frame and its model.
LEMMA GoingOnAdvances ==
    ASSUME RunTypes, NEW h \in Hosts, RunInv(h), FilesInv(h), run[h].pc # "idle",
           NEW r \in RunRecords, run' = [run EXCEPT ![h] = r],
           r.frame = run[h].frame, r.model = run[h].model, r.target = run[h].target,
           r.name = run[h].name, r.status = run[h].status,
           r.pc \in {"send", "read", "decode"}, r.pc = "read" => ~Binary(r),
           r.pc = "decode" => /\ r.reply.frame = r.frame /\ r.reply.model = r.model
                              /\ Binary(r) => r.reply.flaw # "refused",
           temp' \subseteq Files, \A t : t.name # run[h].name => (t \in temp' <=> t \in temp),
           ~Binary(r) => \A t \in temp' : t.name = r.name => IsOfRun(t, r),
           UNCHANGED <<options, crashes, depth>>
    PROVE  Advances(h)
<1>1. /\ run' \in [Hosts -> RunRecords] /\ run'[h] = r
      /\ \A k \in Hosts : k # h => run'[k] = run[k]
  BY DEF RunTypes
<1>2. OnlyItsOwn(h)
  BY <1>1 DEF OnlyItsOwn
<1>3. RunInv(h)'
  <2>1. Binary(r)' = Binary(r)
    BY DEF Binary
  <2> QED BY <1>1, <2>1 DEF RunInv, Binary
<1>4. FilesInv(h)'
  <2>1. ASSUME crashes = 0, NEW t \in temp', t.name[1] = h PROVE r.pc # "idle" /\ r.name = t.name
    BY <2>1 DEF FilesInv
  <2> QED BY <1>1, <2>1 DEF FilesInv
<1> QED BY <1>1, <1>2, <1>3, <1>4 DEF Advances, RunTypes

\* A run that ends removes its files.
LEMMA EndingAdvances ==
    ASSUME RunTypes, NEW h \in Hosts, RunInv(h), FilesInv(h), run[h].pc # "idle",
           NEW r \in RunRecords, NEW d \in Depths, r.pc = "idle",
           run' = [run EXCEPT ![h] = r], depth' = [depth EXCEPT ![h] = d],
           \/ r.status = "failed" /\ d = NoDepth
           \/ r.status = "done" /\ d.frame = r.frame /\ d.model = r.model /\ d.flaw = "none",
           RemoveTempFiles(h), UNCHANGED <<options, crashes>>
    PROVE  Advances(h)
<1>1. /\ run' \in [Hosts -> RunRecords] /\ run'[h] = r
      /\ depth' \in [Hosts -> Depths] /\ depth'[h] = d
      /\ \A k \in Hosts : k # h => run'[k] = run[k] /\ depth'[k] = depth[k]
  BY DEF RunTypes
<1>2. temp' \subseteq Files /\ \A t \in temp' : t \in temp /\ t.name # run[h].name
  BY DEF RemoveTempFiles, RunTypes
<1>3. OnlyItsOwn(h)
  BY <1>1 DEF OnlyItsOwn, RemoveTempFiles
<1>4. RunInv(h)'
  BY <1>1 DEF RunInv
<1>5. FilesInv(h)'
  BY <1>2 DEF FilesInv
<1> QED BY <1>1, <1>2, <1>3, <1>4, <1>5 DEF Advances

\* A run that fails leaves the buffer alone, which nobody has written yet.
LEMMA FailingAdvances ==
    ASSUME RunTypes, NEW h \in Hosts, RunInv(h), FilesInv(h), run[h].pc # "idle",
           RunFails(h), UNCHANGED <<options, crashes>>
    PROVE  Advances(h)
<1> DEFINE r == [NoRun EXCEPT !.status = "failed"]
<1>1. r \in RunRecords /\ r.pc = "idle" /\ r.status = "failed"
  BY NothingIsTyped DEF NoRun, RunRecords, Targets
<1>2. depth[h] = NoDepth
  BY DEF RunInv
<1>3. depth' = [depth EXCEPT ![h] = NoDepth]
  BY <1>2 DEF RunFails, RunTypes
<1>4. RemoveTempFiles(h) /\ run' = [run EXCEPT ![h] = r]
  BY DEF RunFails
<1> HIDE DEF r
<1> QED BY <1>1, <1>3, <1>4, NothingIsTyped, EndingAdvances

\* What is written in the name of a run.
LEMMA WrittenIsFile ==
    ASSUME NEW r \in RunRecords, r.name \in FileNames, NEW k \in {"source", "request", "response"},
           NEW f \in Frames \cup {NoFrame}, NEW m \in Models \cup {NoModel}, NEW x \in Flaws \cup {"none"}
    PROVE  LET t == Written(r, k, f, m, x)
           IN  /\ t \in Files /\ t.name = r.name /\ t.kind = k
               /\ t.frame = f /\ t.model = m /\ t.flaw = x
BY DEF Written, Files

\* A reply to a request is of its frame and its model.
LEMMA ReplyIsOfRequest ==
    ASSUME NEW R, NEW F \in SUBSET Flaws, NEW f \in Frames \cup {NoFrame},
           NEW m \in Models \cup {NoModel}, \A q \in R : q = Request(f, m),
           NEW a \in Replies(R, F)
    PROVE  a \in Depths /\ a.frame = f /\ a.model = m /\ a.flaw \in F \cup {"none"}
<1>1. PICK x \in F \cup {"none"} : a = [Request(f, m) EXCEPT !.flaw = x]
  BY DEF Replies
<1>2. x \in Flaws \cup {"none"}
  OBVIOUS
<1> QED BY <1>1, <1>2 DEF Request, Depths

\* What is read from the files of a run is its frame and its model.
LEMMA FilesAreOfRun ==
    ASSUME NEW r, \A t \in temp : t.name = r.name => IsOfRun(t, r)
    PROVE  \A q \in ReadFromFiles(r) : q = Request(r.frame, r.model)
BY DEF ReadFromFiles, FilesOf, IsOfRun

\* WriteFiles: what a process before has left under the name is replaced.
LEMMA WritingAdvances ==
    ASSUME RunTypes, NEW h \in Hosts, RunInv(h), FilesInv(h), WriteFiles(h), UNCHANGED <<options, crashes>>
    PROVE  Advances(h)
<1> DEFINE r == run[h]
           b == [r EXCEPT !.pc = "send"]
           new == {WritePortablePixmap(r), SerializeRequestPayload(r)}
<1>1. /\ r \in RunRecords /\ r.pc = "write" /\ ~Binary(r) /\ r.name \in FileNames
      /\ r.frame \in Frames \cup {NoFrame} /\ r.model \in Models \cup {NoModel}
  BY DEF RunTypes, WriteFiles, RunInv, RunRecords
<1>2. CASE RunFails(h)
  BY <1>1, <1>2, FailingAdvances
<1>3. CASE /\ temp' = { t \in temp : t.name # r.name } \cup new
           /\ run' = [run EXCEPT ![h] = b] /\ UNCHANGED depth
  <2>1. /\ b \in RunRecords /\ b.frame = r.frame /\ b.model = r.model /\ b.target = r.target
        /\ b.name = r.name /\ b.status = r.status /\ b.pc = "send"
    BY <1>1 DEF RunRecords
  <2> HIDE DEF b
  <2>2. \A t \in new : t \in Files /\ t.name = r.name /\ IsOfRun(t, b)
    <3>1. LET t == WritePortablePixmap(r)
          IN  t \in Files /\ t.name = r.name /\ t.kind = "source" /\ t.frame = r.frame
      BY <1>1 DEF WritePortablePixmap, Written, Files
    <3>2. LET t == SerializeRequestPayload(r)
          IN  t \in Files /\ t.name = r.name /\ t.kind = "request" /\ t.model = r.model
      BY <1>1 DEF SerializeRequestPayload, Written, Files
    <3> QED BY <2>1, <3>1, <3>2 DEF IsOfRun
  <2> HIDE DEF new
  <2>3. temp' \subseteq Files /\ \A t \in temp' : t.name = b.name => IsOfRun(t, b)
    BY <1>3, <2>1, <2>2 DEF RunTypes
  <2>4. \A t : t.name # r.name => (t \in temp' <=> t \in temp)
    BY <1>3, <2>2
  <2> QED BY <1>1, <1>3, <2>1, <2>3, <2>4, GoingOnAdvances
<1> QED BY <1>2, <1>3 DEF WriteFiles, RunGoto

\* Exchange: the reply is to what was sent, or to what the files of the run say.
LEMMA ExchangeAdvances ==
    ASSUME RunTypes, NEW h \in Hosts, RunInv(h), FilesInv(h), Exchange(h), UNCHANGED <<options, crashes>>
    PROVE  Advances(h)
<1> DEFINE r == run[h]
<1>1. /\ r \in RunRecords /\ r.pc = "send"
      /\ r.frame \in Frames \cup {NoFrame} /\ r.model \in Models \cup {NoModel}
      /\ ~Binary(r) => \A t \in temp : t.name = r.name => IsOfRun(t, r)
  BY DEF RunTypes, Exchange, RunInv, RunRecords
<1>2. CASE RunFails(h)
  BY <1>1, <1>2, FailingAdvances
<1>3. ASSUME NEW reply \in IF Binary(r) THEN PostBinaryToEndpoint(r) ELSE PostJsonToEndpoint(r),
             run' = [run EXCEPT ![h].pc = "decode", ![h].reply = reply],
             UNCHANGED <<depth, temp>>
      PROVE  Advances(h)
  <2> DEFINE b == [r EXCEPT !.pc = "decode", !.reply = reply]
  <2>1. /\ reply \in Depths /\ reply.frame = r.frame /\ reply.model = r.model
        /\ Binary(r) => reply.flaw # "refused"
    <3>1. CASE Binary(r)
      <4> DEFINE F == { x \in Flaws : x # "refused" /\ ParsePositiveHeaderValue(x) }
      <4>1. F \in SUBSET Flaws /\ "refused" \notin F \cup {"none"}
        OBVIOUS
      <4>2. reply \in Replies({Request(r.frame, r.model)}, F)
        BY <1>3, <3>1 DEF PostBinaryToEndpoint, EncodeRgb8Payload
      <4> HIDE DEF F
      <4> QED BY <1>1, <4>1, <4>2, ReplyIsOfRequest
    <3>2. CASE ~Binary(r)
      <4>1. reply \in Replies(ReadFromFiles(r), Flaws)
        BY <1>3, <3>2 DEF PostJsonToEndpoint
      <4>2. \A q \in ReadFromFiles(r) : q = Request(r.frame, r.model)
        BY <1>1, <3>2, FilesAreOfRun
      <4> QED BY <1>1, <3>2, <4>1, <4>2, ReplyIsOfRequest
    <3> QED BY <3>1, <3>2
  <2>2. /\ b \in RunRecords /\ b.frame = r.frame /\ b.model = r.model /\ b.target = r.target
        /\ b.name = r.name /\ b.status = r.status /\ b.pc = "decode" /\ b.reply = reply
    BY <1>1, <2>1 DEF RunRecords
  <2>3. run' = [run EXCEPT ![h] = b]
    BY <1>3
  <2> HIDE DEF b
  <2>4. /\ Binary(b) => b.reply.flaw # "refused"
        /\ ~Binary(b) => \A t \in temp' : t.name = b.name => IsOfRun(t, b)
    <3>1. Binary(b) <=> Binary(r)
      BY <2>2 DEF Binary
    <3> QED BY <1>1, <1>3, <2>1, <2>2, <3>1 DEF IsOfRun
  <2>5. temp' \subseteq Files
    BY <1>3 DEF RunTypes
  <2> QED BY <1>1, <1>3, <2>1, <2>2, <2>3, <2>4, <2>5, GoingOnAdvances
<1> QED BY <1>2, <1>3 DEF Exchange

\* RunCommand: the response is made from the files of the run.
LEMMA CommandAdvances ==
    ASSUME RunTypes, NEW h \in Hosts, RunInv(h), FilesInv(h), RunCommand(h), UNCHANGED <<options, crashes>>
    PROVE  Advances(h)
<1> DEFINE r == run[h]
           b == [r EXCEPT !.pc = "read"]
<1>1. /\ r \in RunRecords /\ r.pc = "send" /\ ~Binary(r) /\ r.name \in FileNames
      /\ r.frame \in Frames \cup {NoFrame} /\ r.model \in Models \cup {NoModel}
      /\ \A t \in temp : t.name = r.name => IsOfRun(t, r)
  BY DEF RunTypes, RunCommand, RunInv, RunRecords, Binary
<1>2. CASE RunFails(h)
  BY <1>1, <1>2, FailingAdvances
<1>3. ASSUME temp' \subseteq Files, \A t : t.name # r.name => (t \in temp' <=> t \in temp),
             \A t \in temp' : t.name = r.name => IsOfRun(t, r),
             run' = [run EXCEPT ![h] = b], depth' = depth
      PROVE  Advances(h)
  <2>1. /\ b \in RunRecords /\ b.frame = r.frame /\ b.model = r.model /\ b.target = r.target
        /\ b.name = r.name /\ b.status = r.status /\ b.pc = "read"
    BY <1>1 DEF RunRecords
  <2> HIDE DEF b
  <2>2. ~Binary(b) /\ \A t \in temp' : t.name = b.name => IsOfRun(t, b)
    BY <1>1, <1>3, <2>1 DEF Binary, IsOfRun
  <2> QED BY <1>1, <1>3, <2>1, <2>2, GoingOnAdvances
<1>4. ASSUME NEW q \in Replies(ReadFromFiles(r), Flaws),
             temp' = temp \cup {Written(r, "response", q.frame, q.model, q.flaw)},
             run' = [run EXCEPT ![h] = b], depth' = depth
      PROVE  Advances(h)
  <2> DEFINE new == Written(r, "response", q.frame, q.model, q.flaw)
  <2>1. \A x \in ReadFromFiles(r) : x = Request(r.frame, r.model)
    BY <1>1, FilesAreOfRun
  <2>2. q.frame = r.frame /\ q.model = r.model /\ q.flaw \in Flaws \cup {"none"}
    BY <1>1, <1>4, <2>1, ReplyIsOfRequest
  <2>3. new \in Files /\ new.name = r.name /\ new.frame = r.frame /\ new.model = r.model
    BY <1>1, <2>2 DEF Written, Files
  <2>4. temp' = temp \cup {new}
    BY <1>4
  <2> HIDE DEF new
  <2>5. IsOfRun(new, r)
    BY <2>3 DEF IsOfRun
  <2>6. /\ temp' \subseteq Files /\ \A t : t.name # r.name => (t \in temp' <=> t \in temp)
        /\ \A t \in temp' : t.name = r.name => IsOfRun(t, r)
    BY <1>1, <2>3, <2>4, <2>5 DEF RunTypes
  <2> QED BY <1>3, <1>4, <2>6
<1>5. CASE run' = [run EXCEPT ![h] = b] /\ UNCHANGED <<depth, temp>>
  <2>1. temp' \subseteq Files
    BY <1>5 DEF RunTypes
  <2> QED BY <1>1, <1>3, <1>5, <2>1
<1> QED BY <1>2, <1>4, <1>5 DEF RunCommand, RunGoto

\* ReadResponse: the response is what the command has made from them.
LEMMA ReadingAdvances ==
    ASSUME RunTypes, NEW h \in Hosts, RunInv(h), FilesInv(h), ReadResponse(h), UNCHANGED <<options, crashes>>
    PROVE  Advances(h)
<1> DEFINE r == run[h]
<1>1. /\ r \in RunRecords /\ r.pc = "read" /\ ~Binary(r)
      /\ \A t \in temp : t.name = r.name => IsOfRun(t, r)
  BY DEF RunTypes, ReadResponse, RunInv, RunRecords
<1>2. CASE RunFails(h)
  BY <1>1, <1>2, FailingAdvances
<1>3. ASSUME NEW t \in FilesOf(r, "response"),
             run' = [run EXCEPT ![h].pc = "decode",
                       ![h].reply = [frame |-> t.frame, model |-> t.model, flaw |-> t.flaw]],
             UNCHANGED <<depth, temp>>
      PROVE  Advances(h)
  <2> DEFINE reply == [frame |-> t.frame, model |-> t.model, flaw |-> t.flaw]
             b == [r EXCEPT !.pc = "decode", !.reply = reply]
  <2>1. t \in temp /\ t \in Files /\ t.name = r.name /\ t.kind = "response"
    BY <1>3 DEF FilesOf, RunTypes
  <2>2. t.frame = r.frame /\ t.model = r.model
    BY <1>1, <2>1 DEF IsOfRun
  <2>3. reply \in Depths /\ reply.frame = r.frame /\ reply.model = r.model
    BY <2>1, <2>2 DEF Files, Depths
  <2>4. run' = [run EXCEPT ![h] = b]
    BY <1>3
  <2> HIDE DEF reply
  <2>5. /\ b \in RunRecords /\ b.frame = r.frame /\ b.model = r.model /\ b.target = r.target
        /\ b.name = r.name /\ b.status = r.status /\ b.pc = "decode" /\ b.reply = reply
    BY <1>1, <2>3 DEF RunRecords
  <2> HIDE DEF b
  <2>6. ~Binary(b) /\ temp' \subseteq Files /\ \A u \in temp' : u.name = b.name => IsOfRun(u, b)
    BY <1>1, <1>3, <2>5 DEF Binary, IsOfRun, RunTypes
  <2> QED BY <1>1, <1>3, <2>3, <2>4, <2>5, <2>6, GoingOnAdvances
<1> QED BY <1>2, <1>3 DEF ReadResponse

\* Decode: a depth that is written has passed the checks of its protocol.
LEMMA DecodingAdvances ==
    ASSUME RunTypes, NEW h \in Hosts, RunInv(h), FilesInv(h), Decode(h), UNCHANGED <<options, crashes>>
    PROVE  Advances(h)
<1> DEFINE r == run[h]
           d == WriteNormalizedDepthToOutput(r)
           b == [NoRun EXCEPT !.status = "done", !.frame = r.frame, !.model = r.model]
<1>1. /\ r \in RunRecords /\ r.pc = "decode" /\ r.reply \in Depths
      /\ r.frame \in Frames \cup {NoFrame} /\ r.model \in Models \cup {NoModel}
      /\ r.reply.frame = r.frame /\ r.reply.model = r.model
      /\ Binary(r) => r.reply.flaw # "refused"
  BY DEF RunTypes, Decode, RunInv, RunRecords
<1>2. CASE RunFails(h)
  BY <1>1, <1>2, FailingAdvances
<1>3. CASE /\ Acceptable(r) /\ depth' = [depth EXCEPT ![h] = d]
           /\ run' = [run EXCEPT ![h] = b] /\ RemoveTempFiles(h)
  <2>1. d \in Depths /\ d.frame = r.frame /\ d.model = r.model /\ d.flaw = "none"
    <3>1. CASE Sanitized(r)
      BY <1>1, <3>1 DEF WriteNormalizedDepthToOutput, Depths
    <3>2. CASE ~Sanitized(r)
      <4>1. r.reply.flaw \in Flaws \cup {"none"} /\ r.reply.flaw # "infinite"
            /\ r.reply.flaw \notin {"dimensions", "count"}
        BY <1>1, <1>3, <3>2 DEF Acceptable, AllFinite, Depths, ParseDepthObject,
                                ParseBinaryDepthResponse
      <4>2. r.reply.flaw # "refused"
        BY <1>1, <1>3 DEF Acceptable, ParseDepthResponsePayload
      <4> QED BY <1>1, <3>2, <4>1, <4>2 DEF WriteNormalizedDepthToOutput, Flaws
    <3> QED BY <3>1, <3>2
  <2>2. /\ b \in RunRecords /\ b.pc = "idle" /\ b.status = "done"
        /\ b.frame = r.frame /\ b.model = r.model
    BY <1>1, NothingIsTyped DEF NoRun, RunRecords
  <2> HIDE DEF b, d
  <2> QED BY <1>1, <1>3, <2>1, <2>2, EndingAdvances
<1> QED BY <1>2, <1>3 DEF Decode

\* Run: the locals are fresh, and so is the name of the files.
LEMMA RunningAdvances ==
    ASSUME RunTypes, crashes \in Nat, NEW h \in Hosts, RunInv(h), FilesInv(h),
           NEW f \in Frames \cup {NoFrame}, Run(h, f)
    PROVE  Advances(h)
<1> DEFINE r == [NoRun EXCEPT !.frame = f, !.model = backend[h].model,
                              !.target = backend[h].target, !.name = FileName(h)]
           pc == IF Binary(r) THEN "send" ELSE "write"
           going == [r EXCEPT !.pc = pc]
           failed == [NoRun EXCEPT !.status = "failed"]
<1>1. /\ run[h].pc = "idle" /\ depth' = [depth EXCEPT ![h] = NoDepth] /\ temp' = temp
      /\ UNCHANGED <<options, crashes>>
      /\ run' = [run EXCEPT ![h] = failed] \/ run' = [run EXCEPT ![h] = going]
  BY DEF Run, Free, autostartVars
<1>2. /\ backend[h].model \in Models \cup {NoModel} /\ backend[h].target \in Targets
      /\ FileName(h) \in FileNames /\ FileName(h)[1] = h
  BY DEF RunTypes, Backends, FileName, FileNames
<1>3. failed \in RunRecords /\ failed.pc = "idle" /\ failed.status = "failed"
  BY NothingIsTyped DEF NoRun, RunRecords
<1>4. /\ going \in RunRecords /\ going.pc = pc /\ going.name = FileName(h)
      /\ going.status = "none" /\ going.target = r.target
  <2>1. r \in RunRecords /\ r.name = FileName(h) /\ r.status = "none"
    BY <1>2, NothingIsTyped DEF NoRun, RunRecords
  <2> HIDE DEF r
  <2> QED BY <2>1 DEF RunRecords
<1>5. going.pc = "send" => Binary(going)
  BY <1>4 DEF Binary
<1>6. going.pc = "write" => ~Binary(going)
  BY <1>4 DEF Binary
<1>7. going.pc \in {"send", "write"}
  BY <1>4
<1> HIDE DEF going, failed
<1>8. ASSUME NEW b \in {going, failed}, run' = [run EXCEPT ![h] = b] PROVE Advances(h)
  <2>1. /\ run' \in [Hosts -> RunRecords] /\ run'[h] = b
        /\ depth' \in [Hosts -> Depths] /\ depth'[h] = NoDepth
        /\ \A k \in Hosts : k # h => run'[k] = run[k] /\ depth'[k] = depth[k]
    BY <1>1, <1>3, <1>4, <1>8, NothingIsTyped DEF RunTypes
  <2>2. OnlyItsOwn(h) /\ temp' \subseteq Files
    BY <1>1, <2>1 DEF OnlyItsOwn, RunTypes
  <2>3. RunInv(h)'
    <3>1. CASE b = failed
      BY <1>3, <2>1, <3>1 DEF RunInv
    <3>2. CASE b = going
      <4>1. /\ run'[h].pc \in {"send", "write"} /\ run'[h].status = "none"
            /\ run'[h].name = FileName(h)
            /\ run'[h].pc = "send" => run'[h].target # CommandTarget /\ options'.binary
            /\ run'[h].pc = "write" => ~(run'[h].target # CommandTarget /\ options'.binary)
        BY <1>1, <1>4, <1>5, <1>6, <1>7, <2>1, <3>2 DEF Binary
      <4> QED BY <1>2, <2>1, <4>1 DEF RunInv, Binary
    <3> QED BY <1>8, <3>1, <3>2
  <2>4. FilesInv(h)'
    BY <1>1 DEF FilesInv
  <2> QED BY <2>1, <2>2, <2>3, <2>4 DEF Advances
<1> QED BY <1>1, <1>8

\* A run that nobody touches.
LEMMA RunStays ==
    ASSUME NEW h \in Hosts, RunInv(h), run'[h] = run[h], depth'[h] = depth[h],
           UNCHANGED <<temp, options>>
    PROVE  RunInv(h)'
BY DEF RunInv, Binary

\* Creating a backend, waiting for its service and selecting a model leave the
\* runs alone.
LEMMA BackendKeepsRuns ==
    ASSUME AutoTypes, AutoTypes', RunTypes, RunsInv, options' = options,
           NEW h \in Hosts, Create(h) \/ Attempt(h) \/ \E m \in Models : SelectModel(h, m)
    PROVE  RunTypes' /\ RunsInv'
<1>1. UNCHANGED <<run, depth, temp, runs>>
  BY DEF Create, Configured, Attempt, SelectModel
<1>2. crashes' = crashes
  BY DEF Create, Configured, Attempt, SelectModel, AttemptStep, CheckStatus, LaunchImpossible,
         SpawnFails, Spawn, ReadPortFile, CheckHealth, autostartVars
<1>3. backend' \in [Hosts -> Backends]
  <2>1. backend \in [Hosts -> Backends]
    BY DEF RunTypes
  <2>2. ASSUME NEW p \in Targets
        PROVE  [backend EXCEPT ![h] = [NoBackend EXCEPT !.ready = TRUE, !.target = p]]
                 \in [Hosts -> Backends]
    BY <2>1, NothingIsTyped DEF Backends
  <2>3. [backend EXCEPT ![h] = NoBackend] \in [Hosts -> Backends]
    BY <2>1, NothingIsTyped
  <2>4. CASE Create(h)
    BY <2>2, <2>3, <2>4 DEF Create, Configured, Targets
  <2>5. CASE Attempt(h)
    <3>1. attempt'[h].port \in Targets
      BY DEF AutoTypes, Attempts, Targets
    <3> QED BY <2>1, <2>2, <2>5, <3>1 DEF Attempt
  <2>6. ASSUME NEW m \in Models, SelectModel(h, m) PROVE backend' \in [Hosts -> Backends]
    BY <2>1, <2>6 DEF SelectModel, Backends
  <2> QED BY <2>4, <2>5, <2>6
<1>4. RunTypes'
  BY <1>1, <1>3 DEF RunTypes
<1>5. \A k \in Hosts : RunInv(k)' /\ FilesInv(k)'
  BY <1>1, <1>2, RunStays DEF RunsInv, FilesInv
<1> QED BY <1>4, <1>5 DEF RunsInv

\* A run changes what is its own.
LEMMA RunsKeepRuns ==
    ASSUME AutoTypes, RunTypes, RunsInv, NEW h \in Hosts,
           RunStep(h) \/ \E f \in Frames \cup {NoFrame} : Run(h, f)
    PROVE  RunTypes' /\ RunsInv'
<1>0. crashes \in Nat /\ \A k \in Hosts : RunInv(k) /\ FilesInv(k)
  BY DEF AutoTypes, RunsInv
<1>1. UNCHANGED backend /\ runs' \in [Hosts -> Nat]
  <2>1. CASE RunStep(h)
    <3>1. UNCHANGED <<backend, runs>>
      BY <2>1 DEF RunStep, WriteFiles, Exchange, RunCommand, ReadResponse, Decode
    <3> QED BY <3>1 DEF RunTypes
  <2>2. ASSUME NEW f, Run(h, f) PROVE UNCHANGED backend /\ runs' \in [Hosts -> Nat]
    <3>1. UNCHANGED backend /\ runs' = [runs EXCEPT ![h] = runs[h] + 1]
      BY <2>2 DEF Run
    <3>2. runs \in [Hosts -> Nat] /\ runs[h] + 1 \in Nat
      BY DEF RunTypes
    <3> QED BY <3>1, <3>2
  <2> QED BY <2>1, <2>2
<1>2. temp' = temp \/ run[h].pc # "idle"
  BY DEF RunStep, WriteFiles, Exchange, RunCommand, ReadResponse, Decode, Run
<1>3. Advances(h)
  <2>1. CASE RunStep(h)
    <3>1. UNCHANGED <<options, crashes>>
      BY <2>1 DEF RunStep, WriteFiles, Exchange, RunCommand, ReadResponse, Decode, autostartVars
    <3> QED BY <1>0, <2>1, <3>1, WritingAdvances, ExchangeAdvances, CommandAdvances,
               ReadingAdvances, DecodingAdvances DEF RunStep
  <2>2. ASSUME NEW f \in Frames \cup {NoFrame}, Run(h, f) PROVE Advances(h)
    BY <1>0, <2>2, RunningAdvances
  <2> QED BY <2>1, <2>2
<1>4. \A k \in Hosts : k # h => RunInv(k)' /\ FilesInv(k)'
  BY <1>0, <1>2, <1>3, OtherRunsStay DEF Advances
<1> QED BY <1>1, <1>3, <1>4 DEF Advances, RunTypes, RunsInv

\* A process that ends takes its run along, and leaves its files.
LEMMA RestartKeepsRuns ==
    ASSUME AutoTypes, RunTypes, RunsInv, NEW h \in Hosts, Restart(h)
    PROVE  RunTypes' /\ RunsInv'
<1>1. /\ backend' = [backend EXCEPT ![h] = NoBackend]
      /\ run' = [run EXCEPT ![h] = NoRun]
      /\ depth' = [depth EXCEPT ![h] = NoDepth]
      /\ runs' = [runs EXCEPT ![h] = 0]
      /\ temp' = temp /\ options' = options /\ crashes' = crashes + 1
  BY DEF Restart, HostEnds
<1>2. RunTypes'
  BY <1>1, NothingIsTyped DEF RunTypes
<1>3. /\ run'[h] = NoRun /\ depth'[h] = NoDepth
      /\ \A k \in Hosts : k # h => run'[k] = run[k] /\ depth'[k] = depth[k]
  BY <1>1 DEF RunTypes
<1>4. RunInv(h)'
  BY <1>3, NothingIsTyped DEF RunInv
<1>5. \A k \in Hosts : k # h => RunInv(k)'
  BY <1>1, <1>3, RunStays DEF RunsInv
<1>6. crashes' # 0
  BY <1>1 DEF AutoTypes
<1> QED BY <1>2, <1>4, <1>5, <1>6 DEF RunsInv, FilesInv

\* The runs keep their invariant.
LEMMA RunsKept == AutoTypes /\ AutoTypes' /\ RunTypes /\ RunsInv /\ [Next]_vars => RunTypes' /\ RunsInv'
<1> SUFFICES ASSUME AutoTypes, AutoTypes', RunTypes, RunsInv, [Next]_vars PROVE RunTypes' /\ RunsInv'
  OBVIOUS
<1>0. options' = options
  BY StepsOfAutostart, OptionsStay
<1>1. ASSUME UNCHANGED <<remoteVars, crashes>> PROVE RunTypes' /\ RunsInv'
  <2>1. RunTypes'
    BY <1>1 DEF remoteVars, RunTypes
  <2> QED BY <1>0, <1>1, <2>1, RunStays DEF remoteVars, RunsInv, FilesInv
<1>2. CASE UNCHANGED vars
  BY <1>1, <1>2 DEF vars, autostartVars
<1>3. ASSUME NEW s \in Services, Service(s) PROVE RunTypes' /\ RunsInv'
  BY <1>1, <1>3, ServiceChanges DEF Service
<1>4. ASSUME NEW h \in Hosts, Create(h) \/ Attempt(h) \/ \E m \in Models : SelectModel(h, m)
      PROVE  RunTypes' /\ RunsInv'
  BY <1>0, <1>4, BackendKeepsRuns
<1> QED BY <1>2, <1>3, <1>4, RunsKeepRuns, RestartKeepsRuns DEF Next

\* In every state each run has kept to what it was given, and its files to it.
THEOREM RunsInvariant == Spec => [](RunTypes /\ RunsInv)
<1>1. Init => RunTypes /\ RunsInv
  <2> SUFFICES ASSUME Init PROVE RunTypes /\ RunsInv
    OBVIOUS
  <2>1. RunTypes
    BY NothingIsTyped DEF Init, RunTypes
  <2>2. \A h \in Hosts : run[h] = NoRun /\ depth[h] = NoDepth /\ temp = {}
    BY DEF Init
  <2>3. RunsInv
    BY <2>2, NothingIsTyped DEF RunsInv, RunInv, FilesInv
  <2> QED BY <2>1, <2>3
<1> QED BY <1>1, AutostartInvariant, RunsKept, PTL DEF Spec

\* A run that succeeds has written a depth, made from its own frame by the model
\* that was selected as it began, from a reply that was whole; one that fails
\* has left the buffer alone.
THEOREM RunsAreAnswered == Spec => []RunIsAnswered
<1>1. RunsInv => RunIsAnswered
  BY DEF RunsInv, RunInv, RunIsAnswered
<1> QED BY <1>1, RunsInvariant, PTL

\* Temporary files are there only for runs that go on and processes that died.
THEOREM RunsRemoveTheirFiles == Spec => []TempFilesGo
<1>1. ASSUME RunTypes, RunsInv PROVE TempFilesGo
  <2>1. \A t \in temp : t.name[1] \in Hosts
    BY <1>1 DEF RunTypes, Files, FileNames
  <2> QED BY <1>1, <2>1 DEF RunsInv, FilesInv, TempFilesGo
<1> QED BY <1>1, RunsInvariant, PTL
=============================================================================
