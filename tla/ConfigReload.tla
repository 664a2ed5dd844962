---------------------------- MODULE ConfigReload ----------------------------
(***************************************************************************)
(* Live config reload: Config of pkg/config/config.go with the part of     *)
(* Server that follows it (loadConfig, Listen, ProcessEvents and           *)
(* ProcessEvent of pkg/server/server.go), the file and its inotify watch.  *)
(*                                                                         *)
(* The goroutines are the startup (NewConfig), the watch loop, one         *)
(* handleUpdate per file event, one sender per applied update and the      *)
(* listener.  The routes are those of RouteTable, which Mux implements.    *)
(***************************************************************************)
EXTENDS ConfigFile

CONSTANTS
  Contents,      \* what the file may hold
  InitialFiles,  \* what it may be when razvhost starts
  Missing,       \* there is no file
  Unsure,        \* targets HandlerFactory.Handler may refuse, each time anew
  Edits,         \* the kinds of edit: write, replace, unlink, create
  EarlyEdits,    \* TRUE: the file may be edited while razvhost starts
  Prompt,        \* TRUE: see Ripe
  MaxEdits       \* bound: edits of the file

ASSUME EditAssumption ==
  /\ \A c \in Contents : Readable(c) => c \in Seq(Line)
  /\ InitialFiles \subseteq Contents \cup {Missing}
  /\ Missing \notin Contents
  /\ Unsure \subseteq Target
  /\ Edits \subseteq {"write", "replace", "unlink", "create"}
  /\ EarlyEdits \in BOOLEAN /\ Prompt \in BOOLEAN
  /\ MaxEdits \in Nat

\* An edit causes at most two file events, each one call of handleUpdate.
MaxUpdates == 2 * MaxEdits

VARIABLES
  file,         \* the file at Config.filename
  edits,        \* edits so far
  watched,      \* inotify watches the inode at Config.filename
  fileEvents,   \* file events not yet received from watcher.Events
  phase,        \* startup: "read", "watch", "running" or "failed"
  readd,        \* 0, or the watch loop is about to call watcher.Add: the
                \* number the next handleUpdate had when the event came
  spawned,      \* handleUpdate goroutines before their first statement
  modCounter,   \* Config.modCounter
  update,       \* the handleUpdate goroutines by their modCount
  prevEntries,  \* Config.prevEntries
  senders,      \* batches whose sender goroutine has not reached the channel
  events,       \* Config.events: its buffer of one, then the blocked senders
  batch,        \* what Server.ProcessEvents still has to process
  routes        \* the handlers of every path of Server.mux

envVars == <<file, edits>>
watchVars == <<watched, fileEvents, readd>>
updateVars == <<spawned, modCounter, update>>
serverVars == <<events, batch, routes>>
vars == <<envVars, watchVars, phase, updateVars, prevEntries, senders,
          serverVars>>

Mux == INSTANCE RouteTable WITH
  Path <- Hostname, Id <- Target, Request <- {}, NoHandler <- "nil",
  PathLen <- [h \in Hostname |-> 1], WildcardPaths <- {},
  MatchSet <- [h \in Hostname |-> {}], served <- "nil"

CanRead(f) == f # Missing /\ Readable(f)

Idle == [pc |-> "none", entries |-> <<>>]

Init ==
  /\ file \in InitialFiles
  /\ edits = 0
  /\ watched = FALSE
  /\ fileEvents = 0
  /\ phase = "read"
  /\ readd = 0
  /\ spawned = 0
  /\ modCounter = 0
  /\ update = [k \in 1..MaxUpdates |-> Idle]
  /\ prevEntries = <<>>
  /\ senders = <<>>
  /\ events = <<>>
  /\ batch = <<>>
  /\ routes = [h \in Hostname |-> <<>>]

-----------------------------------------------------------------------------
(***************************************************************************)
(* The file is edited by others.  inotify reports one event for a change   *)
(* of the content and two (IN_ATTRIB, IN_DELETE_SELF) for the loss of the  *)
(* watched inode, and with it drops the watch.                             *)
(***************************************************************************)
Edit(kind) ==
  /\ kind \in Edits
  /\ edits < MaxEdits
  /\ phase \in {"running", "failed"} \/ EarlyEdits
  /\ edits' = edits + 1
  /\ UNCHANGED <<phase, readd, updateVars, prevEntries, senders, serverVars>>

\* Written in place.
Write(c) ==
  /\ Edit("write")
  /\ file # Missing
  /\ file' = c
  /\ fileEvents' = IF watched THEN fileEvents + 1 ELSE fileEvents
  /\ UNCHANGED watched

LoseInode ==
  /\ fileEvents' = IF watched THEN fileEvents + 2 ELSE fileEvents
  /\ watched' = FALSE

\* Another file is renamed over it.
Replace(c) ==
  /\ Edit("replace")
  /\ file # Missing
  /\ file' = c
  /\ LoseInode

Unlink ==
  /\ Edit("unlink")
  /\ file # Missing
  /\ file' = Missing
  /\ LoseInode

Create(c) ==
  /\ Edit("create")
  /\ file = Missing
  /\ file' = c
  /\ UNCHANGED <<watched, fileEvents>>

-----------------------------------------------------------------------------
(***************************************************************************)
(* NewConfig, called from NewServer through loadConfig.                    *)
(***************************************************************************)
StartRead ==
  /\ phase = "read"
  /\ IF CanRead(file)
     THEN phase' = "watch" /\ prevEntries' = ReadConfig(file)
     ELSE phase' = "failed" /\ UNCHANGED prevEntries
  /\ UNCHANGED <<envVars, watchVars, updateVars, senders, serverVars>>

\* NewWatcher and its Add succeed; the channel gets its first batch and
\* Server.Listen and the watch loop are started.
StartWatch ==
  /\ phase = "watch"
  /\ file # Missing
  /\ watched' = TRUE
  /\ events' = <<ToEvents(prevEntries, TRUE)>>
  /\ phase' = "running"
  /\ UNCHANGED <<envVars, fileEvents, readd, updateVars, prevEntries, senders,
                 batch, routes>>

\* NewWatcher (no inotify instance left) or its Add fails.
StartWatchFails ==
  /\ phase = "watch"
  /\ phase' = "failed"
  /\ UNCHANGED <<envVars, watchVars, updateVars, prevEntries, senders,
                 serverVars>>

-----------------------------------------------------------------------------
(***************************************************************************)
(* The watch loop.                                                         *)
(***************************************************************************)
ReceiveFileEvent ==
  /\ phase = "running"
  /\ readd = 0
  /\ fileEvents > 0
  /\ fileEvents' = fileEvents - 1
  /\ spawned' = spawned + 1
  /\ readd' = modCounter + 1
  /\ UNCHANGED <<envVars, watched, phase, modCounter, update, prevEntries,
                 senders, serverVars>>

\* Mutant of AddWatch: the watch is not renewed.
AddWatchNever ==
  /\ readd # 0
  /\ readd' = 0
  /\ UNCHANGED <<envVars, watched, fileEvents, phase, updateVars, prevEntries,
                 senders, serverVars>>

\* watcher.Add watches the inode the name has now; its error is dropped.
AddWatch ==
  /\ readd # 0
  /\ readd' = 0
  /\ watched' = (file # Missing)
  /\ UNCHANGED <<envVars, fileEvents, phase, updateVars, prevEntries, senders,
                 serverVars>>

-----------------------------------------------------------------------------
(***************************************************************************)
(* handleUpdate.                                                           *)
(***************************************************************************)
UpdateStart ==
  /\ spawned > 0
  /\ spawned' = spawned - 1
  /\ modCounter' = modCounter + 1
  /\ update' = [update EXCEPT ![modCounter + 1].pc = "sleep"]
  /\ UNCHANGED <<envVars, watchVars, phase, prevEntries, senders, serverVars>>

(***************************************************************************)
(* The second update k waits is over.  With Prompt, that second is longer  *)
(* than the rest of what was under way when it began: renewing the watch,  *)
(* reading and applying an earlier update, a sender reaching the channel.  *)
(* Nothing in the code makes it so.                                        *)
(***************************************************************************)
Ripe(k) ==
  Prompt => /\ readd # 0 => k < readd
            /\ \A j \in 1..k - 1 : update[j].pc \in {"none", "sleep"}
            /\ \A i \in DOMAIN senders : senders[i].by >= k

\* Mutant of UpdateWake: the comparison of the counters is inverted.
UpdateWakeInverted(k) ==
  /\ update[k].pc = "sleep"
  /\ Ripe(k)
  /\ update' = IF modCounter = k
               THEN [update EXCEPT ![k] = Idle]
               ELSE [update EXCEPT ![k].pc = "read"]
  /\ UNCHANGED <<envVars, watchVars, phase, spawned, modCounter, prevEntries,
                 senders, serverVars>>

UpdateWake(k) ==
  /\ update[k].pc = "sleep"
  /\ Ripe(k)
  /\ update' = IF modCounter # k
               THEN [update EXCEPT ![k] = Idle]
               ELSE [update EXCEPT ![k].pc = "read"]
  /\ UNCHANGED <<envVars, watchVars, phase, spawned, modCounter, prevEntries,
                 senders, serverVars>>

\* ReadConfigFile; an unreadable file leaves everything as it is.
UpdateRead(k) ==
  /\ update[k].pc = "read"
  /\ update' = IF CanRead(file)
               THEN [update EXCEPT ![k] =
                       [pc |-> "apply", entries |-> ReadConfig(file)]]
               ELSE [update EXCEPT ![k] = Idle]
  /\ UNCHANGED <<envVars, watchVars, phase, spawned, modCounter, prevEntries,
                 senders, serverVars>>

\* Mutant of UpdateApply: Config.prevEntries is not replaced.
UpdateApplyKeepsPrev(k) ==
  /\ update[k].pc = "apply"
  /\ senders' = Append(senders,
       [by |-> k, changes |-> ChangeEvents(prevEntries, update[k].entries)])
  /\ update' = [update EXCEPT ![k] = Idle]
  /\ UNCHANGED <<envVars, watchVars, phase, spawned, modCounter, prevEntries,
                 serverVars>>

\* The section under Config.mtx.
UpdateApply(k) ==
  /\ update[k].pc = "apply"
  /\ senders' = Append(senders,
       [by |-> k, changes |-> ChangeEvents(prevEntries, update[k].entries)])
  /\ prevEntries' = update[k].entries
  /\ update' = [update EXCEPT ![k] = Idle]
  /\ UNCHANGED <<envVars, watchVars, phase, spawned, modCounter, serverVars>>

\* A sender reaches the channel: it fills the buffer or queues behind it.
Send(i) ==
  /\ events' = Append(events, senders[i].changes)
  /\ senders' = RemoveAt(senders, i)
  /\ UNCHANGED <<envVars, watchVars, phase, updateVars, prevEntries, batch,
                 routes>>

-----------------------------------------------------------------------------
(***************************************************************************)
(* Server.Listen and Server.ProcessEvent.                                  *)
(***************************************************************************)
Listen ==
  /\ batch = <<>>
  /\ events # <<>>
  /\ batch' = Head(events)
  /\ events' = Tail(events)
  /\ UNCHANGED <<envVars, watchVars, phase, updateVars, prevEntries, senders,
                 routes>>

\* HandlerFactory.Handler may return an error: the scheme is unknown, or what
\* it stands for (a bucket, a PHP file) cannot be set up now.
HandlerMayFail(target) == target \in Unsure

\* Mutant of ProcessEvent: a handler that cannot be made ends the batch.
ProcessEventGivesUp ==
  /\ batch # <<>>
  /\ LET e == Head(batch).entry IN
     \/ ~Head(batch).up /\ Mux!Unregister(e.host, e.target)
                        /\ batch' = Tail(batch)
     \/ Head(batch).up /\ Mux!Register(e.host, e.target)
                       /\ batch' = Tail(batch)
     \/ Head(batch).up /\ HandlerMayFail(e.target) /\ UNCHANGED routes
                       /\ batch' = <<>>
  /\ UNCHANGED <<envVars, watchVars, phase, updateVars, prevEntries, senders,
                 events>>

ProcessEvent ==
  /\ batch # <<>>
  /\ LET e == Head(batch).entry IN
     \/ ~Head(batch).up /\ Mux!Unregister(e.host, e.target)
     \/ Head(batch).up /\ Mux!Register(e.host, e.target)
     \/ Head(batch).up /\ HandlerMayFail(e.target) /\ UNCHANGED routes
  /\ batch' = Tail(batch)
  /\ UNCHANGED <<envVars, watchVars, phase, updateVars, prevEntries, senders,
                 events>>

-----------------------------------------------------------------------------
EditStep ==
  \/ \E c \in Contents : Write(c) \/ Replace(c) \/ Create(c)
  \/ Unlink

Start == StartRead \/ StartWatch \/ StartWatchFails

WatchLoop == ReceiveFileEvent \/ AddWatch

HandleUpdate(k) == UpdateWake(k) \/ UpdateRead(k) \/ UpdateApply(k)

Server == Listen \/ ProcessEvent

Internal ==
  \/ Start
  \/ WatchLoop
  \/ UpdateStart
  \/ \E k \in 1..MaxUpdates : HandleUpdate(k)
  \/ \E i \in DOMAIN senders : Send(i)
  \/ Server

Next == EditStep \/ Internal

Spec == Init /\ [][Next]_vars

\* Every goroutine runs: Go's scheduler is fair and none of them waits for
\* another for ever.
FairSpec ==
  /\ Spec
  /\ WF_vars(Start)
  /\ WF_vars(WatchLoop)
  /\ WF_vars(UpdateStart)
  /\ \A k \in 1..MaxUpdates : WF_vars(HandleUpdate(k))
  /\ WF_vars(\E i \in DOMAIN senders : Send(i))
  /\ WF_vars(Server)

-----------------------------------------------------------------------------
(***************************************************************************)
(* Properties.                                                             *)
(***************************************************************************)

\* Types of the fields of Config and of the goroutines' locals.
TypeOK ==
  /\ file \in Contents \cup {Missing}
  /\ edits \in 0..MaxEdits
  /\ watched \in BOOLEAN
  /\ fileEvents \in 0..MaxUpdates
  /\ phase \in {"read", "watch", "running", "failed"}
  /\ readd \in 0..MaxUpdates
  /\ spawned \in 0..MaxUpdates
  /\ modCounter \in 0..MaxUpdates
  /\ update \in [1..MaxUpdates -> [pc : {"none", "sleep", "read", "apply"},
                                   entries : Seq(ConfigEntry)]]
  /\ prevEntries \in Seq(ConfigEntry)
  /\ senders \in Seq([by : 1..MaxUpdates, changes : Seq(ConfigEvent)])
  /\ events \in Seq(Seq(ConfigEvent))
  /\ batch \in Seq(ConfigEvent)
  /\ routes \in [Hostname -> Seq(Target)]

\* The table holds what the entries ask for; where HandlerFactory.Handler may
\* fail, an entry may be absent.
Serves(table, entries) ==
  /\ table \subseteq ToSet(entries)
  /\ \A e \in ToSet(entries) : e \in table \/ HandlerMayFail(e.target)

Routed ==
  UNION {{[host |-> h, target |-> t] : t \in ToSet(routes[h])} : h \in Hostname}

\* Nothing is under way between the file and the routes.
Settled ==
  /\ phase = "running"
  /\ fileEvents = 0 /\ readd = 0 /\ spawned = 0
  /\ \A k \in 1..MaxUpdates : update[k].pc = "none"
  /\ senders = <<>> /\ events = <<>> /\ batch = <<>>

\* Live reload works: once everything an edit set in motion has come to rest,
\* the server routes the entries of the file as it is now, however the edits,
\* the debounce of handleUpdate, the renewals of the watch, the goroutines and
\* the failures to make a handler interleaved.
SettledMatchesFile ==
  Settled /\ CanRead(file) => Serves(Routed, ReadConfig(file))

\* The same when the file may also be deleted and made again, as long as that
\* did not cost the watch: what the watcher still watches is what is served.
WatchedMatchesFile == watched => SettledMatchesFile

\* No event will ever come again from watcher.Events.
WatchLost == phase = "running" /\ ~watched /\ fileEvents = 0 /\ readd = 0

\* The watch, which every replacement of the file ends, is lost for good only
\* when there is no file at the moment the loop renews it.
WatchSurvives == [][~WatchLost /\ WatchLost' => file = Missing]_vars

\* All the events on their way to Server.ProcessEvent, in its order.
InFlight ==
  batch \o FlattenSeq(events)
        \o FlattenSeq([i \in DOMAIN senders |-> senders[i].changes])

\* What the routes become when those events are processed.
Replayed ==
  LET f == InFlight
      lastOf(e) == {i \in DOMAIN f :
                      /\ f[i].entry = e
                      /\ \A j \in i + 1..Len(f) : f[j].entry # e}
  IN {e \in ConfigEntry :
        IF lastOf(e) = {} THEN e \in Routed
        ELSE \A i \in lastOf(e) : f[i].up}

\* Config.prevEntries, against which the next change is computed, is what the
\* routes will be when the events on their way have arrived: an update never
\* computes its difference against a table the server will not have.
EventsLeadToPrev == phase = "running" => Serves(Replayed, prevEntries)

\* Make before break: within one update, a host name loses its last handler
\* only after every handler the update brings it has been tried, so an edit
\* that moves a host name to another target never leaves it unserved between
\* the two.
NoGap ==
  [][\A h \in Hostname :
       routes[h] # <<>> /\ routes'[h] = <<>>
         => \A i \in DOMAIN batch' :
              batch'[i].up => batch'[i].entry.host # h]_vars

\* A readable file that is left alone is eventually what the server serves,
\* unless the watch is lost.
EditsGetServed ==
  \A c \in Contents :
    Readable(c) =>
      ((phase = "running" /\ file = c)
         ~> (file # c \/ WatchLost \/ Serves(Routed, ReadConfig(c))))
=============================================================================
