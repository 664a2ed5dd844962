----------------------------- MODULE DockerWatch -----------------------------
(***************************************************************************)
(* Watching docker containers: DockerWatch of pkg/config/dockerwatch.go    *)
(* with Server.watchDockerEvents and Server.Listen of                      *)
(* pkg/server/server.go, the docker daemon, and the client library's       *)
(* dispatch of the daemon's events.                                        *)
(***************************************************************************)
EXTENDS Integers, Sequences, SequencesExt, FiniteSets

CONSTANTS
  Container, Hostname, Target,
  HostsOf,       \* the names in a container's VIRTUAL_HOST
  TargetOf,      \* the URL of the host port VIRTUAL_PORT is bound to
  Published,     \* the containers whose VIRTUAL_PORT is bound while they run
  StoppedPorts,  \* TRUE: inspecting a stopped container shows its bindings
  Paced,         \* TRUE: the daemon is slower than the listener
  MayExit,       \* TRUE: a container may end without docker stop
  EarlyChanges,  \* TRUE: containers change while razvhost starts
  MaxChanges     \* bound: events of the daemon

ASSUME DockerAssumption ==
  /\ HostsOf \in [Container -> Seq(Hostname)]
  /\ TargetOf \in [Container -> Target]
  /\ Published \subseteq Container
  /\ \A b \in {StoppedPorts, Paced, MayExit, EarlyChanges} : b \in BOOLEAN
  /\ MaxChanges \in Nat

VARIABLES
  running,   \* the containers that run
  changes,   \* events of the daemon so far
  stream,    \* events the client library has not dispatched
  lis,       \* the listener channel, capacity 1
  phase,     \* watchDockerEvents: "list", "inspect", "process", "running",
             \* "closed" (the event stream ended) or "failed"
  todo,      \* the listed containers still to inspect
  results,   \* the up events of GetActiveContainers
  conv,      \* convertEvents: its place, its event and its events to send
  out,       \* the channel to Server.Listen, capacity 1
  batch,     \* what Server.ProcessEvents still has to process
  routes     \* the handlers of every path of Server.mux

dockerVars == <<running, changes, stream>>
startVars == <<phase, todo, results>>
vars == <<dockerVars, lis, startVars, conv, out, batch, routes>>

Mux == INSTANCE RouteTable WITH
  Path <- Hostname, Id <- Target, Request <- {}, NoHandler <- "nil",
  PathLen <- [h \in Hostname |-> 1], WildcardPaths <- {},
  MatchSet <- [h \in Hostname |-> {}], served <- "nil"

NoEvents == <<>>
Waiting == [pc |-> "wait", id |-> "none", up |-> FALSE, events |-> NoEvents]

Init ==
  /\ running \in SUBSET Container
  /\ changes = 0
  /\ stream = <<>>
  /\ lis = <<>>
  /\ phase = "list"
  /\ todo = {}
  /\ results = <<>>
  /\ conv = Waiting
  /\ out = <<>>
  /\ batch = <<>>
  /\ routes = [h \in Hostname |-> <<>>]

-----------------------------------------------------------------------------
(***************************************************************************)
(* The daemon and the client library.                                      *)
(***************************************************************************)
Emit(action, c) ==
  /\ changes < MaxChanges
  /\ phase # "closed"
  /\ phase = "running" \/ EarlyChanges
  /\ changes' = changes + 1
  /\ stream' = IF phase = "running"
               THEN Append(stream, [action |-> action, id |-> c])
               ELSE stream
  /\ UNCHANGED <<lis, startVars, conv, out, batch, routes>>

StartContainer(c) ==
  /\ c \notin running
  /\ running' = running \cup {c}
  /\ Emit("start", c)

StopContainer(c) ==
  /\ c \in running
  /\ running' = running \ {c}
  /\ Emit("stop", c)

\* The process in the container ends by itself.
ContainerExits(c) ==
  /\ MayExit
  /\ c \in running
  /\ running' = running \ {c}
  /\ Emit("die", c)

\* Any other event: of networks or images, or another action of a container.
OtherEvent ==
  /\ Emit("other", "none")
  /\ UNCHANGED running

\* eventMonitoringState.sendEvent: an event is dropped if the listener is full.
Dispatch ==
  /\ stream # <<>>
  /\ Paced => lis = <<>>
  /\ lis' = IF lis = <<>> THEN <<Head(stream)>> ELSE lis
  /\ stream' = Tail(stream)
  /\ UNCHANGED <<running, changes, startVars, conv, out, batch, routes>>

\* The daemon ends the stream: the library closes its listeners.
StreamEnds ==
  /\ phase = "running"
  /\ stream = <<>>
  /\ phase' = "closed"
  /\ UNCHANGED <<dockerVars, lis, todo, results, conv, out, batch, routes>>

-----------------------------------------------------------------------------
(***************************************************************************)
(* getContainerEvents: no events for a container without VIRTUAL_HOST, and *)
(* an error for one without a binding, or gone.                            *)
(***************************************************************************)
ShowsPorts(c) == c \in Published /\ (c \in running \/ StoppedPorts)

\* Mutant of ContainerEvents: only the first virtual host is used.
ContainerEventsFirstHost(c, isUp) ==
  IF ShowsPorts(c) /\ HostsOf[c] # <<>>
  THEN <<[host |-> Head(HostsOf[c]), target |-> TargetOf[c], up |-> isUp]>>
  ELSE NoEvents

ContainerEvents(c, isUp) ==
  IF ShowsPorts(c)
  THEN [i \in DOMAIN HostsOf[c] |->
          [host |-> HostsOf[c][i], target |-> TargetOf[c], up |-> isUp]]
  ELSE NoEvents

-----------------------------------------------------------------------------
(***************************************************************************)
(* watchDockerEvents, called from NewServer.                               *)
(***************************************************************************)
StartList ==
  /\ phase = "list"
  /\ phase' = "inspect"
  /\ todo' = running
  /\ UNCHANGED <<dockerVars, lis, results, conv, out, batch, routes>>

\* ListContainers or AddEventListener fails: there is no watch.
StartFails ==
  /\ phase = "list" \/ (phase = "process" /\ batch = <<>>)
  /\ phase' = "failed"
  /\ UNCHANGED <<dockerVars, lis, todo, results, conv, out, batch, routes>>

StartInspect(c) ==
  /\ phase = "inspect"
  /\ c \in todo
  /\ todo' = todo \ {c}
  /\ results' = results \o ContainerEvents(c, TRUE)
  /\ UNCHANGED <<dockerVars, lis, phase, conv, out, batch, routes>>

\* GetActiveContainers returns; its events are processed by the caller.
StartProcess ==
  /\ phase = "inspect"
  /\ todo = {}
  /\ phase' = "process"
  /\ batch' = results
  /\ results' = <<>>
  /\ UNCHANGED <<dockerVars, lis, todo, conv, out, routes>>

\* GetConfigEvents adds the listener.
StartListen ==
  /\ phase = "process"
  /\ batch = <<>>
  /\ phase' = "running"
  /\ UNCHANGED <<dockerVars, lis, todo, results, conv, out, batch, routes>>

-----------------------------------------------------------------------------
(***************************************************************************)
(* convertEvents.                                                          *)
(***************************************************************************)
ConvertTake ==
  /\ conv.pc = "wait"
  /\ lis # <<>>
  /\ lis' = Tail(lis)
  /\ conv' = IF Head(lis).action \in {"start", "stop"}
             THEN [pc |-> "inspect", id |-> Head(lis).id,
                   up |-> Head(lis).action = "start", events |-> NoEvents]
             ELSE Waiting
  /\ UNCHANGED <<dockerVars, startVars, out, batch, routes>>

ConvertInspect ==
  /\ conv.pc = "inspect"
  /\ LET es == ContainerEvents(conv.id, conv.up) IN
     conv' = IF es = NoEvents THEN Waiting
             ELSE [conv EXCEPT !.pc = "send", !.events = es]
  /\ UNCHANGED <<dockerVars, lis, startVars, out, batch, routes>>

\* Mutant of ConvertSend: a full channel drops the event.
ConvertSendDrops ==
  /\ conv.pc = "send"
  /\ out' = IF out = <<>> THEN << <<Head(conv.events)>> >> ELSE out
  /\ conv' = IF Len(conv.events) = 1 THEN Waiting
             ELSE [conv EXCEPT !.events = Tail(@)]
  /\ UNCHANGED <<dockerVars, lis, startVars, batch, routes>>

\* Mutant of ConvertSend: the channel has room for any number of events.
ConvertSendUnbounded ==
  /\ conv.pc = "send"
  /\ out' = Append(out, <<Head(conv.events)>>)
  /\ conv' = IF Len(conv.events) = 1 THEN Waiting
             ELSE [conv EXCEPT !.events = Tail(@)]
  /\ UNCHANGED <<dockerVars, lis, startVars, batch, routes>>

\* Every event is a batch of its own; a full channel blocks the converter.
ConvertSend ==
  /\ conv.pc = "send"
  /\ out = <<>>
  /\ out' = << <<Head(conv.events)>> >>
  /\ conv' = IF Len(conv.events) = 1 THEN Waiting
             ELSE [conv EXCEPT !.events = Tail(@)]
  /\ UNCHANGED <<dockerVars, lis, startVars, batch, routes>>

\* The listener channel is closed and drained: the goroutine ends, and with
\* it Server.Listen.
ConvertEnd ==
  /\ conv.pc = "wait"
  /\ phase = "closed" /\ lis = <<>>
  /\ conv' = [Waiting EXCEPT !.pc = "ended"]
  /\ UNCHANGED <<dockerVars, lis, startVars, out, batch, routes>>

-----------------------------------------------------------------------------
(***************************************************************************)
(* Server.Listen and Server.ProcessEvent.                                  *)
(***************************************************************************)
Listen ==
  /\ phase \in {"running", "closed"}
  /\ batch = <<>>
  /\ out # <<>>
  /\ batch' = Head(out)
  /\ out' = Tail(out)
  /\ UNCHANGED <<dockerVars, lis, startVars, conv, routes>>

ProcessEvent ==
  /\ batch # <<>>
  /\ LET e == Head(batch) IN
     \/ e.up /\ Mux!Register(e.host, e.target)
     \/ ~e.up /\ Mux!Unregister(e.host, e.target)
  /\ batch' = Tail(batch)
  /\ UNCHANGED <<dockerVars, lis, startVars, conv, out>>

-----------------------------------------------------------------------------
Daemon ==
  \/ \E c \in Container : StartContainer(c) \/ StopContainer(c) \/ ContainerExits(c)
  \/ OtherEvent
  \/ StreamEnds

Start ==
  \/ StartList
  \/ StartFails
  \/ \E c \in Container : StartInspect(c)
  \/ StartProcess
  \/ StartListen

Convert == ConvertTake \/ ConvertInspect \/ ConvertSend \/ ConvertEnd

Next == Daemon \/ Dispatch \/ Start \/ Convert \/ Listen \/ ProcessEvent

Spec == Init /\ [][Next]_vars

\* The library's and razvhost's goroutines run while they can.
FairSpec ==
  /\ Spec
  /\ WF_vars(Dispatch) /\ WF_vars(Start) /\ WF_vars(Convert)
  /\ WF_vars(Listen) /\ WF_vars(ProcessEvent)

-----------------------------------------------------------------------------
(***************************************************************************)
(* Properties.                                                             *)
(***************************************************************************)

Event == [host : Hostname, target : Target, up : BOOLEAN]

\* Types of the channels and of the goroutines' locals.
TypeOK ==
  /\ running \subseteq Container
  /\ changes \in 0..MaxChanges
  /\ stream \in Seq([action : {"start", "stop", "die", "other"},
                     id : Container \cup {"none"}])
  /\ Len(lis) <= 1 /\ Len(out) <= 1
  /\ phase \in {"list", "inspect", "process", "running", "closed", "failed"}
  /\ todo \subseteq Container
  /\ results \in Seq(Event)
  /\ conv \in [pc : {"wait", "inspect", "send", "ended"},
               id : Container \cup {"none"}, up : BOOLEAN, events : Seq(Event)]
  /\ out \in Seq(Seq(Event)) /\ batch \in Seq(Event)
  /\ routes \in [Hostname -> Seq(Target)]

Settled ==
  /\ phase = "running"
  /\ stream = <<>> /\ lis = <<>>
  /\ conv = Waiting
  /\ out = <<>> /\ batch = <<>>

\* The containers that should answer for a host name.
Backends(h) == {c \in running \cap Published : h \in ToSet(HostsOf[c])}

\* When every event of the daemon has been converted and processed, a host
\* name has exactly one handler for each running container that claims it,
\* although a container is inspected only after its event, when it may have
\* stopped or started again.
SettledMatchesContainers ==
  Settled => \A h \in Hostname :
    /\ ToSet(routes[h]) = {TargetOf[c] : c \in Backends(h)}
    /\ Len(routes[h]) = Cardinality(Backends(h))

\* Whatever inspecting a stopped container shows, and however containers end,
\* no running container is forgotten: the late inspection of a stop never
\* takes away the route of the container's next run for good.
RunningRouted ==
  Settled => \A h \in Hostname : \A c \in Backends(h) :
    TargetOf[c] \in ToSet(routes[h])

\* A container that keeps running is served in the end, as long as the event
\* stream lasts.
ContainersGetServed ==
  \A c \in Container : \A h \in Hostname :
    (phase = "running" /\ c \in Backends(h))
      ~> \/ c \notin running
         \/ phase = "closed"
         \/ TargetOf[c] \in ToSet(routes[h])
=============================================================================
