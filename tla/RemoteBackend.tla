--------------------------- MODULE RemoteBackend ---------------------------
(***************************************************************************)
(* plugin/inference/RemoteInferenceBackend.cpp on top of the autostart:    *)
(* creation, SelectModel and Run.  A run takes what it needs under the     *)
(* lock and then works without it: it posts the frame to the service, or   *)
(* hands it over in temporary files to the service or to a command, and    *)
(* checks the reply before it writes the depth.                            *)
(*                                                                         *)
(* A reply is the frame and the model it was made from, with what may be   *)
(* wrong with it.                                                          *)
(***************************************************************************)
EXTENDS ServiceAutostart

CONSTANTS
    Models, NoModel,
    Frames, NoFrame,
    Endpoint,  \* remote_endpoint of the options, a service of its own
    MaxRuns    \* [Options -> [Hosts -> bound on the runs of a process]]

ASSUME RemoteAssumption ==
    /\ NoModel \notin Models
    /\ NoFrame \notin Frames
    /\ MaxRuns \in [Options -> [Hosts -> Nat]]

VARIABLES
    backend,  \* [Hosts -> the RemoteInferenceBackend]
    run,      \* [Hosts -> the locals of the last Run]
    depth,    \* [Hosts -> out_depth of that run]
    temp,     \* the files zsoda-remote-*
    runs      \* [Hosts -> runs so far, which is also g_temp_file_counter]

remoteVars == <<backend, run, depth, temp, runs>>
vars == <<autostartVars, remoteVars>>

NoBackend == [ready |-> FALSE, target |-> NoPort, model |-> NoModel]
NoDepth == [frame |-> NoFrame, model |-> NoModel, flaw |-> "none"]
NoRun == [pc |-> "idle", frame |-> NoFrame, model |-> NoModel, target |-> NoPort,
          name |-> <<>>, reply |-> NoDepth, status |-> "none"]

\* What can be wrong with a reply that arrives: it is an error of the service,
\* its dimensions are not there or not positive, it has fewer or more values
\* than they say, as when the connection ends early, or one is infinite.
Flaws == {"refused", "dimensions", "count", "infinite"}

-----------------------------------------------------------------------------
(* CreateRemoteInferenceBackendWithCommand and Initialize.                 *)

CommandTarget == "command"

\* The ways to create a backend that need no service to be started.
Configured(h, target) ==
    /\ backend' = [backend EXCEPT ![h] = [NoBackend EXCEPT !.ready = TRUE, !.target = target]]
    /\ UNCHANGED <<autostartVars, run, depth, temp, runs>>

Free(h) == ~InAttempt(h) /\ run[h].pc = "idle"

\* A new backend takes the place of the one the process has.
Create(h) ==
    /\ Free(h)
    /\ \/ options.endpoint /\ Configured(h, Endpoint)
       \/ /\ ~options.endpoint /\ options.autostart
          /\ Resolve(h)
          /\ backend' = [backend EXCEPT ![h] = NoBackend]
          /\ UNCHANGED <<options, machineVars, counter, cached, adopted, crashes,
                         run, depth, temp, runs>>
       \/ /\ ~options.endpoint /\ ~options.autostart /\ options.command
          /\ Configured(h, CommandTarget)
       \/ /\ ~options.endpoint /\ ~options.autostart /\ ~options.command
          /\ backend' = [backend EXCEPT ![h] = NoBackend]
          /\ UNCHANGED <<autostartVars, run, depth, temp, runs>>

\* One step of the autostart; when it ends well the backend is there.
Attempt(h) ==
    /\ AttemptStep(h)
    /\ backend' = IF attempt'[h].outcome = "ready"
                    THEN [backend EXCEPT ![h] = [NoBackend EXCEPT !.ready = TRUE,
                                                     !.target = attempt'[h].port]]
                    ELSE backend
    /\ UNCHANGED <<run, depth, temp, runs>>

SelectModel(h, m) ==
    /\ ~InAttempt(h)
    /\ backend[h].ready
    /\ backend' = [backend EXCEPT ![h].model = m]
    /\ UNCHANGED <<autostartVars, run, depth, temp, runs>>

-----------------------------------------------------------------------------
(* Run.                                                                    *)

\* MakeUniqueTempFilePath: the process, then the number of the file.
NameWithoutProcess(h) == <<runs[h]>>
FileName(h) == <<h, crashes, runs[h]>>

Binary(r) == r.target # CommandTarget /\ options.binary

\* Run up to the end of its lock, and the requests it refuses.
Run(h, f) ==
    /\ Free(h)
    /\ runs[h] < MaxRuns[options][h]
    /\ runs' = [runs EXCEPT ![h] = @ + 1]
    /\ depth' = [depth EXCEPT ![h] = NoDepth]
    /\ LET r == [NoRun EXCEPT !.frame = f, !.model = backend[h].model,
                              !.target = backend[h].target, !.name = FileName(h)]
           refused == ~backend[h].ready \/ r.model = NoModel \/ f = NoFrame
       IN  run' = [run EXCEPT ![h] =
                     IF refused THEN [NoRun EXCEPT !.status = "failed"]
                     ELSE [r EXCEPT !.pc = IF Binary(r) THEN "send" ELSE "write"]]
    /\ UNCHANGED <<autostartVars, backend, temp>>

RunGoto(h, pc) == run' = [run EXCEPT ![h].pc = pc]

\* The destructors of the three ScopedTempFiles.
KeepTempFiles(h) == UNCHANGED temp
RemoveTempFiles(h) == temp' = { t \in temp : t.name # run[h].name }

RunFails(h) ==
    /\ run' = [run EXCEPT ![h] = [NoRun EXCEPT !.status = "failed"]]
    /\ RemoveTempFiles(h)
    /\ UNCHANGED depth

Written(r, kind, frame, model, flaw) ==
    [name |-> r.name, kind |-> kind, frame |-> frame, model |-> model, flaw |-> flaw]

WritePortablePixmap(r) == Written(r, "source", r.frame, NoModel, "none")
SerializeRequestPayload(r) == Written(r, "request", NoFrame, r.model, "none")

\* The two files are written and the response file is removed, should there be
\* any of the name; or a path cannot be had or a file not be written.
WriteFiles(h) ==
    LET r == run[h] IN
    /\ r.pc = "write"
    /\ \/ /\ temp' = { t \in temp : t.name # r.name }
                     \cup {WritePortablePixmap(r), SerializeRequestPayload(r)}
          /\ RunGoto(h, "send")
          /\ UNCHANGED depth
       \/ RunFails(h)
    /\ UNCHANGED <<autostartVars, backend, runs>>

FilesOf(r, kind) == { t \in temp : t.name = r.name /\ t.kind = kind }

Request(frame, model) == [frame |-> frame, model |-> model, flaw |-> "none"]

\* What the command, or a service that is not sent the frame itself, reads.
ReadFromFiles(r) ==
    { Request(t.frame, u.model) : t \in FilesOf(r, "source"), u \in FilesOf(r, "request") }

EncodeRgb8Payload(r) == Request(r.frame, r.model)

\* ParseSimpleHttpResponse takes what came before the connection was closed: a
\* Content-Length is not looked at, so a reply may end early.
Replies(requests, flaws) == { [q EXCEPT !.flaw = x] : q \in requests, x \in flaws \cup {"none"} }

\* PerformSimpleHttpRequest, and what WinHttp does in its place: somebody
\* listens and sends something before the time is up.
PerformSimpleHttpRequest(target) == target = Endpoint \/ Answers(target)

\* A status other than 2xx is a failure in both protocols, so what the service
\* refuses in the binary one is; with JSON it may also say so in a reply.
PostJsonToEndpoint(r) == Replies(ReadFromFiles(r), Flaws)

\* The headers of a binary reply must be there and be positive.
ParsePositiveHeaderValue(flaw) == flaw # "dimensions"
PostBinaryToEndpoint(r) ==
    Replies({EncodeRgb8Payload(r)},
            { x \in Flaws : x # "refused" /\ ParsePositiveHeaderValue(x) })

Exchange(h) ==
    LET r == run[h] IN
    /\ r.pc = "send"
    /\ r.target # CommandTarget
    /\ \/ RunFails(h)
       \/ /\ PerformSimpleHttpRequest(r.target)
          /\ \E reply \in IF Binary(r) THEN PostBinaryToEndpoint(r) ELSE PostJsonToEndpoint(r) :
               run' = [run EXCEPT ![h].pc = "decode", ![h].reply = reply]
          /\ UNCHANGED <<depth, temp>>
    /\ UNCHANGED <<autostartVars, backend, runs>>

\* The command reads the request file and writes the response file, whose
\* path it got with BuildCommandLine; it may end with an exit code of its own
\* or by a signal, and it may have written nothing.
RunCommand(h) ==
    LET r == run[h] IN
    /\ r.pc = "send"
    /\ r.target = CommandTarget
    /\ \/ RunFails(h)
       \/ /\ \E q \in Replies(ReadFromFiles(r), Flaws) :
               temp' = temp \cup {Written(r, "response", q.frame, q.model, q.flaw)}
          /\ RunGoto(h, "read")
          /\ UNCHANGED depth
       \/ RunGoto(h, "read") /\ UNCHANGED <<depth, temp>>
    /\ UNCHANGED <<autostartVars, backend, runs>>

\* ReadTextFile: the file may not be there, or not be readable.
ReadResponse(h) ==
    LET r == run[h] IN
    /\ r.pc = "read"
    /\ \/ RunFails(h)
       \/ /\ \E t \in FilesOf(r, "response") :
               run' = [run EXCEPT ![h].pc = "decode",
                         ![h].reply = [frame |-> t.frame, model |-> t.model, flaw |-> t.flaw]]
          /\ UNCHANGED <<depth, temp>>
    /\ UNCHANGED <<autostartVars, backend, runs>>

\* ok must not be false, and depth must be there.
ParseDepthResponsePayload(reply) == reply.flaw # "refused"
ParseDepthObject(reply) == reply.flaw \notin {"dimensions", "count"}
ParseBinaryDepthResponse(reply) == reply.flaw \notin {"dimensions", "count"}

\* SanitizeFinite: the JSON parser makes zeros of values that are not finite.
Sanitized(r) == ~Binary(r) /\ r.reply.flaw \in {"infinite", "nan"}

\* The checks with which WriteNormalizedDepthToOutput begins look at the least
\* and the greatest value, and a comparison with a NaN finds neither.
AllFinite(r) == Sanitized(r) \/ r.reply.flaw # "infinite"

Acceptable(r) ==
    /\ IF Binary(r) THEN ParseBinaryDepthResponse(r.reply)
       ELSE ParseDepthResponsePayload(r.reply) /\ ParseDepthObject(r.reply)
    /\ AllFinite(r)

WriteNormalizedDepthToOutput(r) ==
    IF Sanitized(r) THEN [r.reply EXCEPT !.flaw = "none"] ELSE r.reply

Decode(h) ==
    LET r == run[h] IN
    /\ r.pc = "decode"
    /\ \/ /\ Acceptable(r)
          /\ depth' = [depth EXCEPT ![h] = WriteNormalizedDepthToOutput(r)]
          /\ run' = [run EXCEPT ![h] = [NoRun EXCEPT !.status = "done", !.frame = r.frame,
                                                      !.model = r.model]]
          /\ RemoveTempFiles(h)
       \/ ~Acceptable(r) /\ RunFails(h)
    /\ UNCHANGED <<autostartVars, backend, runs>>

RunStep(h) == WriteFiles(h) \/ Exchange(h) \/ RunCommand(h) \/ ReadResponse(h) \/ Decode(h)

-----------------------------------------------------------------------------
\* The process ends, in the middle of a run too: its files stay.
Restart(h) ==
    /\ HostEnds(h)
    /\ backend' = [backend EXCEPT ![h] = NoBackend]
    /\ run' = [run EXCEPT ![h] = NoRun]
    /\ depth' = [depth EXCEPT ![h] = NoDepth]
    /\ runs' = [runs EXCEPT ![h] = 0]
    /\ UNCHANGED temp

Init ==
    /\ AutostartInit
    /\ backend = [h \in Hosts |-> NoBackend]
    /\ run = [h \in Hosts |-> NoRun]
    /\ depth = [h \in Hosts |-> NoDepth]
    /\ temp = {}
    /\ runs = [h \in Hosts |-> 0]

Service(s) == ServiceStep(s) /\ UNCHANGED remoteVars

Next ==
    \/ \E h \in Hosts :
         \/ Create(h)
         \/ Attempt(h)
         \/ \E m \in Models : SelectModel(h, m)
         \/ \E f \in Frames \cup {NoFrame} : Run(h, f)
         \/ RunStep(h)
         \/ Restart(h)
    \/ \E s \in Services : Service(s)

Spec == Init /\ [][Next]_vars

-----------------------------------------------------------------------------
(* Properties.                                                             *)

\* A run that succeeds has written a depth, made from its own frame by the
\* model that was selected as it began, from a reply that was whole; one that
\* fails has left the buffer alone, which RenderPipeline's fallbacks rely on.
RunIsAnswered ==
    \A h \in Hosts : LET r == run[h] IN
      /\ r.status = "done" => /\ depth[h].frame = r.frame
                              /\ depth[h].model = r.model
                              /\ depth[h].flaw \in {"none", "nan"}
      /\ r.status # "done" => depth[h] = NoDepth

\* Files are there only for runs that go on and for processes that died.
TempFilesGo ==
    crashes = 0 => \A t \in temp : \E h \in Hosts : run[h].pc # "idle" /\ run[h].name = t.name
=============================================================================
